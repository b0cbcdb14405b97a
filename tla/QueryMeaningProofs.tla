------------------------- MODULE QueryMeaningProofs -------------------------
(***************************************************************************)
(* Theorems about what queries answer: the resources that their filters    *)
(* mean, and as many as they count.                                        *)
(***************************************************************************)
EXTENDS QueryProofs, FunctionTheorems

-----------------------------------------------------------------------------
(* What elements of a group make of solutions                              *)

From(T, g) == Joining!Result(T, g)

LEMMA FromNone == \A T : From(T, <<>>) = T
<1>1. \A T : Joining!Result(T, <<>>) = T
  BY Joining!FoldEmpty
<1> QED
  BY <1>1 DEF From

LEMMA FromAppend ==
  \A T, g, e : IsSeq(g) => From(T, Append(g, e)) = GroupStep(From(T, g), e)
<1> SUFFICES ASSUME NEW T, NEW g, NEW e, IsSeq(g)
             PROVE  From(T, Append(g, e)) = GroupStep(From(T, g), e)
  OBVIOUS
<1>1. \A U, S : \A q \in Seq(S), a \in S :
        Joining!Result(U, Append(q, a)) = GroupStep(Joining!Result(U, q), a)
  BY Joining!FoldAppend
<1>2. PICK S : g \in Seq(S) /\ e \in S
  BY AppendIsSeq
<1> QED
  BY <1>1, <1>2 DEF From

LEMMA JoinedFrom == \A mu, g : Joined(graph, mu, g) = From({mu}, g)
  BY DEF From, Joined, GroupStep, After, FoldLeft, MapThenFoldSet, Max, Joining!Result,
         Joining!MapThenFoldSet, Joining!Max

\* What elements make of one solution.
Onward(mu, els) == From({mu}, els)

LEMMA FromConcat ==
  \A T, g, els : IsSeq(g) /\ IsSeq(els) =>
    From(T, g \o els) = UNION {Onward(mu, els) : mu \in From(T, g)}
<1> SUFFICES ASSUME NEW T, NEW g, NEW els, IsSeq(g), IsSeq(els)
             PROVE  From(T, g \o els) = UNION {Onward(mu, els) : mu \in From(T, g)}
  OBVIOUS
<1>1. PICK S : els \in Seq(S)
  BY DEF IsSeq
<1> DEFINE all(q) == UNION {Onward(mu, q) : mu \in From(T, g)}
           N == {q \in Seq(S) : From(T, g \o q) = all(q)}
<1>2. \A q \in Seq(S) : IsSeq(q)
  BY DEF IsSeq
<1>3. <<>> \in N
  <2>1. g \o <<>> = g
    BY ConcatEmptySeq DEF IsSeq
  <2>2. \A mu : Onward(mu, <<>>) = {mu}
    BY FromNone DEF Onward
  <2>3. all(<<>>) = From(T, g)
    BY <2>2
  <2> QED
    BY <2>1, <2>3, EmptySeq
<1>4. ASSUME NEW q \in Seq(S), NEW e \in S, q \in N PROVE Append(q, e) \in N
  <2>1. g \o Append(q, e) = Append(g \o q, e)
    BY <1>2, ConcatAppend
  <2>2. IsSeq(g \o q)
    BY <1>2, ConcatIsSeq DEF IsSeq
  <2>3. From(T, g \o Append(q, e)) = GroupStep(From(T, g \o q), e)
    BY <2>1, <2>2, FromAppend
  <2>4. \A mu : Onward(mu, Append(q, e)) = GroupStep(Onward(mu, q), e)
    BY <1>2, FromAppend DEF Onward
  <2>5. From(T, g \o q) = all(q) /\ Append(q, e) \in Seq(S)
    BY <1>4, AppendProperties
  <2>6. GroupStep(all(q), e) = UNION {GroupStep(Onward(mu, q), e) : mu \in From(T, g)}
    BY DEF GroupStep
  <2>7. all(Append(q, e)) = UNION {GroupStep(Onward(mu, q), e) : mu \in From(T, g)}
    BY <2>4
  <2> HIDE DEF all
  <2> QED
    BY <2>3, <2>5, <2>6, <2>7
<1> HIDE DEF N
<1>5. Seq(S) \subseteq N
  BY <1>3, <1>4, SeqSet
<1> QED
  BY <1>1, <1>5 DEF N

LEMMA OnwardNone == \A mu : Onward(mu, <<>>) = {mu} /\ IsSeq(<<>>)
  BY FromNone, Tuples DEF Onward

LEMMA OnwardOne == \A mu, e : Onward(mu, <<e>>) = After(mu, e) /\ IsSeq(<<e>>)
<1> SUFFICES ASSUME NEW mu, NEW e PROVE Onward(mu, <<e>>) = After(mu, e) /\ IsSeq(<<e>>)
  OBVIOUS
<1> DEFINE none == <<>>
<1>1. IsSeq(none) /\ Append(none, e) = <<e>> /\ IsSeq(<<e>>)
  BY Tuples
<1>2. From({mu}, none) = {mu}
  BY FromNone
<1> HIDE DEF none
<1>3. From({mu}, Append(none, e)) = GroupStep(From({mu}, none), e)
  BY <1>1, FromAppend
<1>4. GroupStep({mu}, e) = After(mu, e)
  BY DEF GroupStep
<1> QED
  BY <1>1, <1>2, <1>3, <1>4 DEF Onward

LEMMA OnwardTwo ==
  \A mu, a, b : /\ Onward(mu, <<a, b>>) = UNION {After(nu, b) : nu \in After(mu, a)}
                /\ IsSeq(<<a, b>>)
<1> SUFFICES ASSUME NEW mu, NEW a, NEW b
             PROVE  /\ Onward(mu, <<a, b>>) = UNION {After(nu, b) : nu \in After(mu, a)}
                    /\ IsSeq(<<a, b>>)
  OBVIOUS
<1> DEFINE one == <<a>>
<1>1. IsSeq(one) /\ Append(one, b) = <<a, b>>
  BY Tuples
<1>2. From({mu}, one) = After(mu, a)
  BY OnwardOne DEF Onward
<1> HIDE DEF one
<1>3. From({mu}, Append(one, b)) = GroupStep(From({mu}, one), b)
  BY <1>1, FromAppend
<1>4. IsSeq(Append(one, b))
  BY <1>1, AppendIsSeq
<1> QED
  BY <1>1, <1>2, <1>3, <1>4 DEF Onward, GroupStep

LEMMA OnwardHop ==
  \A mu, from, link, to, rel :
    /\ IsSeq(HopElements(from, link, to, rel))
    /\ Onward(mu, HopElements(from, link, to, rel)) =
         IF rel.nullable /\ Hopped(mu, from, link, to, rel) = {} THEN {mu}
         ELSE Hopped(mu, from, link, to, rel)
<1> SUFFICES ASSUME NEW mu, NEW from, NEW link, NEW to, NEW rel
             PROVE  /\ IsSeq(HopElements(from, link, to, rel))
                    /\ Onward(mu, HopElements(from, link, to, rel)) =
                         IF rel.nullable /\ Hopped(mu, from, link, to, rel) = {} THEN {mu}
                         ELSE Hopped(mu, from, link, to, rel)
  OBVIOUS
<1> DEFINE a == Triple(from, link, to)
           b == TripleTo(to, Type, Schema[rel.to].type)
           hop == HopPatterns(from, link, to, rel)
<1>1. CASE rel.nullable
  <2>1. HopElements(from, link, to, rel) = <<Optional(hop)>>
    BY <1>1 DEF HopElements
  <2>2. Onward(mu, <<Optional(hop)>>) = LeftJoin(graph, mu, hop) /\ IsSeq(<<Optional(hop)>>)
    BY OnwardOne, AfterPattern
  <2> QED
    BY <1>1, <2>1, <2>2 DEF LeftJoin, Hopped
<1>2. CASE ~rel.nullable /\ rel.iri
  <2>1. HopElements(from, link, to, rel) = <<a>>
    BY <1>2, HopPatternsAre DEF HopElements
  <2>2. Onward(mu, <<a>>) = Matches(graph, mu, a) /\ IsSeq(<<a>>)
    BY OnwardOne, AfterPattern
  <2>3. Hopped(mu, from, link, to, rel) = Matches(graph, mu, a)
    BY <1>2, HopPatternsAre, JoinAllOne DEF Hopped
  <2> QED
    BY <1>2, <2>1, <2>2, <2>3
<1>3. CASE ~rel.nullable /\ ~rel.iri
  <2>1. HopElements(from, link, to, rel) = <<a, b>>
    BY <1>3, HopPatternsAre DEF HopElements
  <2>2. /\ Onward(mu, <<a, b>>) = UNION {After(nu, b) : nu \in After(mu, a)}
        /\ IsSeq(<<a, b>>)
    BY OnwardTwo
  <2>3. /\ After(mu, a) = Matches(graph, mu, a)
        /\ \A nu : After(nu, b) = Matches(graph, nu, b)
    BY AfterPattern
  <2>4. Hopped(mu, from, link, to, rel) = UNION {Matches(graph, nu, b) : nu \in Matches(graph, mu, a)}
    BY <1>3, HopPatternsAre, JoinAllTwo DEF Hopped
  <2> HIDE DEF a, b
  <2> QED
    BY <1>3, <2>1, <2>2, <2>3, <2>4
<1> QED
  BY <1>1, <1>2, <1>3

\* The solutions of a query go on from the rows of values().
LEMMA SolsFrom == \A g : IsSeq(g) => SolsOf(g) = From(SolsOf(<<>>), g)
<1> SUFFICES ASSUME NEW g, IsSeq(g) PROVE SolsOf(g) = From(SolsOf(<<>>), g)
  OBVIOUS
<1>1. PICK S : g \in Seq(S)
  BY DEF IsSeq
<1> DEFINE T == SolsOf(<<>>)
           N == {q \in Seq(S) : SolsOf(q) = From(T, q)}
<1>2. <<>> \in N
  BY FromNone, EmptySeq
<1> HIDE DEF T
<1>3. ASSUME NEW q \in Seq(S), NEW e \in S, q \in N PROVE Append(q, e) \in N
  <2>1. IsSeq(q)
    BY DEF IsSeq
  <2>2. SolsOf(Append(q, e)) = GroupStep(SolsOf(q), e)
    BY <2>1, SolsAppend
  <2>3. From(T, Append(q, e)) = GroupStep(From(T, q), e)
    BY <2>1, FromAppend
  <2>4. Append(q, e) \in Seq(S)
    BY AppendProperties
  <2> QED
    BY <1>3, <2>2, <2>3, <2>4
<1> HIDE DEF N
<1>4. Seq(S) \subseteq N
  BY <1>2, <1>3, SeqSet
<1> QED
  BY <1>1, <1>4 DEF N, T

-----------------------------------------------------------------------------
(* Ways along all paths that have been followed                            *)

\* Paths with all the paths on their way.
Closed(used) == <<>> \in used /\ \A p \in used : p \in Path /\ Prefixes(p) \subseteq used

Restr(f, used) == [p \in used |-> f[p]]

Agree(h, f, used) == \A p \in used : h[p] = f[p]

LEMMA ShapeClosed == \A c : Shape(c) => Closed(DOMAIN c.joins)
  BY DEF Shape, Closed

LEMMA PrefixesClosed == \A p \in Path : Closed(Prefixes(p))
  BY PrefixesOfPath DEF Closed

LEMMA RestrictWay ==
  ASSUME NEW used, Closed(used), NEW more, used \subseteq more, NEW r, NEW f \in Paths(r, more)
  PROVE  Restr(f, used) \in Paths(r, used) /\ Agree(Restr(f, used), f, used)
<1>1. /\ f \in [more -> Resources \cup {None}] /\ f[<<>>] = r
      /\ \A p \in more \ {<<>>} : f[p] \in Targets(f[Front(p)], p)
  BY DEF Paths
<1>2. \A p \in used : p # <<>> => Front(p) \in used
  BY FrontOfPrefix, PrefixesOfPath DEF Closed
<1> DEFINE g == Restr(f, used)
<1>3. g \in [used -> Resources \cup {None}] /\ \A p \in used : g[p] = f[p]
  BY <1>1 DEF Restr
<1> HIDE DEF g
<1>4. g[<<>>] = r
  BY <1>1, <1>3 DEF Closed
<1>5. ASSUME NEW p \in used \ {<<>>} PROVE g[p] \in Targets(g[Front(p)], p)
  BY <1>1, <1>2, <1>3
<1>6. g \in Paths(r, used)
  BY <1>3, <1>4, <1>5 DEF Paths
<1> QED
  BY <1>3, <1>6 DEF g, Agree

LEMMA TargetsKnown ==
  ASSUME NEW p \in Path, NEW link \in Field, ClassAt(Class, Append(p, link)) # None, NEW n
  PROVE  /\ Linked(n, link, RelAt(Append(p, link))) \subseteq Resources
         /\ Targets(n, Append(p, link)) =
              IF Linked(n, link, RelAt(Append(p, link))) = {} /\ RelAt(Append(p, link)).nullable
              THEN {None} ELSE Linked(n, link, RelAt(Append(p, link)))
<1> DEFINE q == Append(p, link)
<1>1. Last(q) = link
  BY PathAppend
<1>2. ClassAt(Class, p) \in DOMAIN Schema /\ link \in DOMAIN Schema[ClassAt(Class, p)].links
  BY ClassBefore
<1>3. Linked(n, link, RelAt(q)) \subseteq Resources
  BY <1>2 DEF Linked, Resources
<1> HIDE DEF q
<1>4. Targets(n, q) = IF Linked(n, link, RelAt(q)) = {} /\ RelAt(q).nullable
                      THEN {None} ELSE Linked(n, link, RelAt(q))
  BY <1>1 DEF Targets
<1> QED
  BY <1>3, <1>4 DEF q

\* A way goes on along one more hop.
LEMMA GrowWay ==
  ASSUME NEW used, Closed(used), NEW p \in used, NEW link \in Field,
         ClassAt(Class, Append(p, link)) # None, Append(p, link) \notin used,
         NEW r, NEW f \in Paths(r, used), NEW w \in Targets(f[p], Append(p, link))
  PROVE  /\ Bind(f, Append(p, link), w) \in Paths(r, used \cup {Append(p, link)})
         /\ Bind(f, Append(p, link), w)[Append(p, link)] = w
         /\ Agree(Bind(f, Append(p, link), w), f, used)
<1> DEFINE q == Append(p, link)
           g == Bind(f, q, w)
           V == Resources \cup {None}
<1>1. p \in Path /\ q # <<>> /\ Front(q) = p
  BY PathAppend DEF Closed
<1>2. \A x \in used : x # <<>> => Front(x) \in used
  BY FrontOfPrefix, PrefixesOfPath DEF Closed
<1>3. /\ f \in [used -> V] /\ f[<<>>] = r
      /\ \A x \in used \ {<<>>} : f[x] \in Targets(f[Front(x)], x)
  BY DEF Paths
<1>4. w \in V
  BY <1>1, TargetsKnown
<1>5. w \in Targets(f[p], q) /\ q \notin used
  OBVIOUS
<1> HIDE DEF q, V
<1>6. g \in [used \cup {q} -> V] /\ g[q] = w /\ \A x \in used : g[x] = f[x]
  <2>1. DOMAIN f = used
    BY <1>3
  <2> QED
    BY <1>3, <1>4, <1>5, <2>1 DEF Bind
<1> HIDE DEF g
<1>7. g[<<>>] = r
  BY <1>3, <1>6 DEF Closed
<1>8. ASSUME NEW x \in (used \cup {q}) \ {<<>>} PROVE g[x] \in Targets(g[Front(x)], x)
  <2>1. CASE x = q
    BY <1>1, <1>5, <1>6, <2>1
  <2>2. CASE x \in used
    BY <1>2, <1>3, <1>6, <2>2
  <2> QED
    BY <2>1, <2>2
<1>9. g \in Paths(r, used \cup {q})
  BY <1>6, <1>7, <1>8 DEF Paths, V
<1> QED
  BY <1>6, <1>9 DEF g, q, Agree

\* A way that goes on, where it goes on from.
LEMMA LastHop ==
  ASSUME NEW used, NEW p \in Path, NEW link \in Field, Append(p, link) \in used,
         NEW r, NEW f \in Paths(r, used)
  PROVE  f[Append(p, link)] \in Targets(f[p], Append(p, link))
  BY PathAppend DEF Paths

\* Ways along a linked path have resources on it.
LEMMA NodeOfWay ==
  ASSUME NEW used, Closed(used), NEW p \in used, NEW r, FullyLinked(r, p), NEW f \in Paths(r, used)
  PROVE  f[p] # None
<1>1. p \in Path /\ p \in Prefixes(p) /\ Prefixes(p) \subseteq used /\ Closed(Prefixes(p))
  BY PrefixesOfPath, PrefixesClosed DEF Closed
<1>2. Restr(f, Prefixes(p)) \in Paths(r, Prefixes(p)) /\ Restr(f, Prefixes(p))[p] = f[p]
  BY <1>1, RestrictWay DEF Agree
<1> QED
  BY <1>1, <1>2 DEF FullyLinked

LEMMA LinkedBefore ==
  ASSUME NEW r, NEW p \in Path, FullyLinked(r, p), NEW q \in Prefixes(p)
  PROVE  FullyLinked(r, q)
  BY PrefixesOfPath DEF FullyLinked

LEMMA SubjectsKnown == graph \in Graphs => None \notin Subjects /\ \A r \in Subjects : FullyLinked(r, <<>>)
<1> SUFFICES ASSUME graph \in Graphs
             PROVE  None \notin Subjects /\ \A r \in Subjects : FullyLinked(r, <<>>)
  OBVIOUS
<1>1. None \notin Subjects
  BY GraphAssumption DEF Subjects
<1>2. ASSUME NEW r \in Subjects, NEW f \in Paths(r, Prefixes(<<>>)) PROVE f[<<>>] # None
  BY <1>1, <1>2 DEF Paths
<1> QED
  BY <1>1, <1>2, EmptyPath DEF FullyLinked

-----------------------------------------------------------------------------
(* What has been compiled means what it was compiled from.  The solutions  *)
(* from T with root r stand on the ways along the paths that were followed *)
(* - a variable is unbound where a link is missing -, and those that all   *)
(* filters hold of on the ways that the parts in E hold of.  New variables *)
(* are the numbers in free.                                                *)

FiltersOf(c) == {c.filters[i] : i \in DOMAIN c.filters}

AllHold(mu, c) == \A g \in FiltersOf(c) : Holds(graph, mu, g)

NodesOf(c) == {c.joins[p] : p \in DOMAIN c.joins}

Fresh(free, next) == {x \in free : x >= next}

\* The solutions from T with root r.
At(T, group, r) == {mu \in From(T, group) : mu[Root] = r}

Widens(nu, mu, more) == Extends(nu, mu) /\ DOMAIN nu \subseteq DOMAIN mu \cup more

\* Binding fresh variables later does not change what the filter g says of mu; binding
\* what is old does not make it hold.
Settled(mu, g, old, fresh) ==
  /\ \A nu : Widens(nu, mu, old \cup fresh) /\ Holds(graph, nu, g) => Holds(graph, mu, g)
  /\ \A nu : Widens(nu, mu, fresh) /\ Holds(graph, mu, g) => Holds(graph, nu, g)

\* The variables of mu are where f leads.
Stands(mu, joins, f) ==
  \A p \in DOMAIN joins :
    IF f[p] = None THEN joins[p] \notin DOMAIN mu
    ELSE joins[p] \in DOMAIN mu /\ mu[joins[p]] = f[p]

\* A part of the conjunction holds of the way f.
Says(r, e, f) == IF OfPath(e) THEN CompareMeans(e, f[e.left.path]) ELSE FilterMeans(r, e)

SayAll(r, E, f) == \A e \in E : Says(r, e, f)

Standing(mu, free, r, R, c, E) ==
  /\ DOMAIN mu \cap Fresh(free, c.next) = {}
  /\ \A g \in FiltersOf(c) : Settled(mu, g, NodesOf(c), Fresh(free, c.next))
  /\ \E f \in Paths(r, DOMAIN c.joins) :
       Stands(mu, c.joins, f) /\ (AllHold(mu, c) => r \in R /\ SayAll(r, E, f))

\* R has the roots that T and the first patterns choose.
Model(T, free, r, R, c, E) ==
  /\ Shape(c) /\ IsSeq(c.filters) /\ free \subseteq Nat
  /\ \A e \in E : OfPath(e) => e.left.path \in DOMAIN c.joins
  /\ \A mu \in From(T, c.group) : Root \in DOMAIN mu /\ \E t \in T : Extends(mu, t)
  /\ \A mu \in At(T, c.group, r) : Standing(mu, free, r, R, c, E)
  /\ \A f \in Paths(r, DOMAIN c.joins) : r \in R /\ SayAll(r, E, f) =>
       \E mu \in At(T, c.group, r) : Stands(mu, c.joins, f) /\ AllHold(mu, c)

\* Elements els and filters G are added to c, for the parts in F.
AddsTo(mu, free, r, c, d, els, G, F) ==
  \A f \in Paths(r, DOMAIN c.joins) : Stands(mu, c.joins, f) =>
    /\ \A nu \in Onward(mu, els) :
         /\ DOMAIN nu \subseteq DOMAIN mu \cup (c.next .. d.next - 1)
         /\ \A g \in G : Settled(nu, g, NodesOf(d), Fresh(free, d.next))
         /\ \E h \in Paths(r, DOMAIN d.joins) :
              /\ Agree(h, f, DOMAIN c.joins) /\ Stands(nu, d.joins, h)
              /\ (\A g \in G : Holds(graph, nu, g)) => SayAll(r, F, h)
    /\ \A h \in Paths(r, DOMAIN d.joins) :
         Agree(h, f, DOMAIN c.joins) /\ SayAll(r, F, h) =>
           \E nu \in Onward(mu, els) :
             Stands(nu, d.joins, h) /\ \A g \in G : Holds(graph, nu, g)

AddsAll(T, free, r, c, d, els, G, F) ==
  /\ Shape(d) /\ IsSeq(d.filters) /\ IsSeq(els) /\ d.group = c.group \o els
  /\ FiltersOf(d) = FiltersOf(c) \cup G
  /\ d.next >= c.next /\ c.next .. d.next - 1 \subseteq free
  /\ \A p \in DOMAIN c.joins : p \in DOMAIN d.joins /\ d.joins[p] = c.joins[p]
  /\ \A p \in DOMAIN d.joins \ DOMAIN c.joins : d.joins[p] \in c.next .. d.next - 1
  /\ \A e \in F : OfPath(e) => e.left.path \in DOMAIN d.joins
  /\ \A mu \in From(T, c.group) : \A nu \in Onward(mu, els) : Extends(nu, mu)
  /\ \A mu \in At(T, c.group, r) : AddsTo(mu, free, r, c, d, els, G, F)

LEMMA FreshLater ==
  ASSUME NEW free, free \subseteq Nat, NEW m \in Nat, NEW n \in Nat, n >= m, m .. n - 1 \subseteq free
  PROVE  /\ Fresh(free, n) \subseteq Fresh(free, m) /\ m .. n - 1 \subseteq Fresh(free, m)
         /\ (m .. n - 1) \cap Fresh(free, n) = {}
<1>1. \A x \in Nat : x >= n => x >= m
  OBVIOUS
<1>2. \A x \in m .. n - 1 : x >= m /\ ~(x >= n)
  OBVIOUS
<1> QED
  BY <1>1, <1>2 DEF Fresh

LEMMA WidensTwice ==
  \A mu, nu, pi, a, b, x : Widens(nu, mu, a) /\ Widens(pi, nu, b) /\ a \cup b \subseteq x
    => Widens(pi, mu, x)
  BY DEF Widens, Extends

LEMMA ModelStep ==
  ASSUME NEW T, NEW free, NEW r, NEW R, NEW c, NEW d, NEW els, NEW G, NEW E, NEW F,
         Model(T, free, r, R, c, E), AddsAll(T, free, r, c, d, els, G, F)
  PROVE  Model(T, free, r, R, d, E \cup F)
<1>1. /\ Shape(c) /\ IsSeq(c.filters) /\ free \subseteq Nat
      /\ \A e \in E : OfPath(e) => e.left.path \in DOMAIN c.joins
      /\ \A mu \in From(T, c.group) : Root \in DOMAIN mu /\ \E t \in T : Extends(mu, t)
      /\ \A mu \in At(T, c.group, r) : Standing(mu, free, r, R, c, E)
      /\ \A f \in Paths(r, DOMAIN c.joins) : r \in R /\ SayAll(r, E, f) =>
           \E mu \in At(T, c.group, r) : Stands(mu, c.joins, f) /\ AllHold(mu, c)
  BY DEF Model
<1>2. /\ Shape(d) /\ IsSeq(d.filters) /\ IsSeq(els) /\ d.group = c.group \o els
      /\ FiltersOf(d) = FiltersOf(c) \cup G
      /\ d.next >= c.next /\ c.next .. d.next - 1 \subseteq free
      /\ \A p \in DOMAIN c.joins : p \in DOMAIN d.joins /\ d.joins[p] = c.joins[p]
      /\ \A p \in DOMAIN d.joins \ DOMAIN c.joins : d.joins[p] \in c.next .. d.next - 1
      /\ \A e \in F : OfPath(e) => e.left.path \in DOMAIN d.joins
      /\ \A mu \in From(T, c.group) : \A nu \in Onward(mu, els) : Extends(nu, mu)
      /\ \A mu \in At(T, c.group, r) : AddsTo(mu, free, r, c, d, els, G, F)
  BY DEF AddsAll
<1>3. /\ Fresh(free, d.next) \subseteq Fresh(free, c.next)
      /\ c.next .. d.next - 1 \subseteq Fresh(free, c.next)
      /\ (c.next .. d.next - 1) \cap Fresh(free, d.next) = {}
  BY <1>1, <1>2, FreshLater DEF Shape
<1>4. NodesOf(d) \subseteq NodesOf(c) \cup Fresh(free, c.next)
  BY <1>2, <1>3 DEF NodesOf
<1>5. From(T, d.group) = UNION {Onward(mu, els) : mu \in From(T, c.group)}
  BY <1>1, <1>2, FromConcat DEF Shape
<1>6. \A nu \in From(T, d.group) : Root \in DOMAIN nu /\ \E t \in T : Extends(nu, t)
  <2> SUFFICES ASSUME NEW mu \in From(T, c.group), NEW nu \in Onward(mu, els)
               PROVE  Root \in DOMAIN nu /\ \E t \in T : Extends(nu, t)
    BY <1>5
  <2>1. Extends(nu, mu) /\ Root \in DOMAIN mu
    BY <1>1, <1>2
  <2>2. PICK t \in T : Extends(mu, t)
    BY <1>1
  <2> QED
    BY <2>1, <2>2 DEF Extends
<1>7. ASSUME NEW mu \in From(T, c.group), NEW nu \in Onward(mu, els)
      PROVE  Extends(nu, mu) /\ nu[Root] = mu[Root]
  BY <1>1, <1>2 DEF Extends
<1>8. \A e \in E \cup F : OfPath(e) => e.left.path \in DOMAIN d.joins
  BY <1>1, <1>2
<1>9. ASSUME NEW nu \in At(T, d.group, r) PROVE Standing(nu, free, r, R, d, E \cup F)
  <2>1. PICK mu \in From(T, c.group) : nu \in Onward(mu, els)
    BY <1>5 DEF At
  <2>2. mu \in At(T, c.group, r) /\ Extends(nu, mu)
    BY <1>7, <2>1 DEF At
  <2>3. Standing(mu, free, r, R, c, E) /\ AddsTo(mu, free, r, c, d, els, G, F)
    BY <1>1, <1>2, <2>2
  <2>4. PICK f \in Paths(r, DOMAIN c.joins) :
          Stands(mu, c.joins, f) /\ (AllHold(mu, c) => r \in R /\ SayAll(r, E, f))
    BY <2>3 DEF Standing
  <2>5. /\ DOMAIN nu \subseteq DOMAIN mu \cup (c.next .. d.next - 1)
        /\ \A g \in G : Settled(nu, g, NodesOf(d), Fresh(free, d.next))
        /\ \E h \in Paths(r, DOMAIN d.joins) :
              /\ Agree(h, f, DOMAIN c.joins) /\ Stands(nu, d.joins, h)
              /\ (\A g \in G : Holds(graph, nu, g)) => SayAll(r, F, h)
    BY <2>1, <2>3, <2>4 DEF AddsTo
  <2>6. PICK h \in Paths(r, DOMAIN d.joins) :
              /\ Agree(h, f, DOMAIN c.joins) /\ Stands(nu, d.joins, h)
              /\ (\A g \in G : Holds(graph, nu, g)) => SayAll(r, F, h)
    BY <2>5
  <2>7. /\ DOMAIN mu \cap Fresh(free, c.next) = {}
        /\ \A g \in FiltersOf(c) : Settled(mu, g, NodesOf(c), Fresh(free, c.next))
    BY <2>3 DEF Standing
  <2>8. Widens(nu, mu, Fresh(free, c.next))
    BY <1>3, <2>2, <2>5 DEF Widens
  <2>9. DOMAIN nu \cap Fresh(free, d.next) = {}
    BY <1>3, <2>5, <2>7
  <2>10. \A g \in FiltersOf(c) : Holds(graph, nu, g) => Holds(graph, mu, g)
    <3>1. Widens(nu, mu, NodesOf(c) \cup Fresh(free, c.next))
      BY <2>8 DEF Widens
    <3> QED
      BY <2>7, <3>1 DEF Settled
  <2>11. ASSUME NEW g \in FiltersOf(c) PROVE Settled(nu, g, NodesOf(d), Fresh(free, d.next))
    <3>1. Settled(mu, g, NodesOf(c), Fresh(free, c.next))
      BY <2>7
    <3>2. ASSUME NEW pi, Widens(pi, nu, NodesOf(d) \cup Fresh(free, d.next)), Holds(graph, pi, g)
          PROVE  Holds(graph, nu, g)
      <4>1. Widens(pi, mu, NodesOf(c) \cup Fresh(free, c.next))
        BY <1>3, <1>4, <2>8, <3>2, WidensTwice
      <4> QED
        BY <2>8, <3>1, <3>2, <4>1 DEF Settled
    <3>3. ASSUME NEW pi, Widens(pi, nu, Fresh(free, d.next)), Holds(graph, nu, g)
          PROVE  Holds(graph, pi, g)
      <4>1. Widens(pi, mu, Fresh(free, c.next))
        BY <1>3, <2>8, <3>3, WidensTwice
      <4> QED
        BY <2>10, <3>1, <3>3, <4>1 DEF Settled
    <3> QED
      BY <3>2, <3>3 DEF Settled
  <2>12. AllHold(nu, d) => r \in R /\ SayAll(r, E \cup F, h)
    <3> SUFFICES ASSUME AllHold(nu, d) PROVE r \in R /\ SayAll(r, E \cup F, h)
      OBVIOUS
    <3>1. AllHold(mu, c) /\ \A g \in G : Holds(graph, nu, g)
      BY <1>2, <2>10 DEF AllHold
    <3>2. r \in R /\ SayAll(r, E, f) /\ SayAll(r, F, h)
      BY <2>4, <2>6, <3>1
    <3>3. \A e \in E : Says(r, e, h)
      BY <1>1, <2>6, <3>2 DEF SayAll, Says, Agree
    <3> QED
      BY <3>2, <3>3 DEF SayAll
  <2>13. \A g \in FiltersOf(d) : Settled(nu, g, NodesOf(d), Fresh(free, d.next))
    BY <1>2, <2>5, <2>11
  <2> QED
    BY <2>6, <2>9, <2>12, <2>13 DEF Standing
<1>10. ASSUME NEW h \in Paths(r, DOMAIN d.joins), r \in R, SayAll(r, E \cup F, h)
       PROVE  \E nu \in At(T, d.group, r) : Stands(nu, d.joins, h) /\ AllHold(nu, d)
  <2> DEFINE f == Restr(h, DOMAIN c.joins)
  <2>1. f \in Paths(r, DOMAIN c.joins) /\ Agree(h, f, DOMAIN c.joins)
    <3>1. Closed(DOMAIN c.joins) /\ DOMAIN c.joins \subseteq DOMAIN d.joins
      BY <1>1, <1>2, ShapeClosed
    <3>2. f \in Paths(r, DOMAIN c.joins) /\ Agree(f, h, DOMAIN c.joins)
      BY <1>10, <3>1, RestrictWay
    <3> QED
      BY <3>2 DEF Agree
  <2> HIDE DEF f
  <2>2. SayAll(r, E, f)
    BY <1>1, <1>10, <2>1 DEF SayAll, Says, Agree
  <2>3. PICK mu \in At(T, c.group, r) : Stands(mu, c.joins, f) /\ AllHold(mu, c)
    BY <1>1, <1>10, <2>1, <2>2
  <2>4. AddsTo(mu, free, r, c, d, els, G, F) /\ Standing(mu, free, r, R, c, E)
    BY <1>1, <1>2
  <2>5. SayAll(r, F, h)
    BY <1>10 DEF SayAll
  <2>6. PICK nu \in Onward(mu, els) : Stands(nu, d.joins, h) /\ \A g \in G : Holds(graph, nu, g)
    BY <2>1, <2>3, <2>4, <2>5 DEF AddsTo
  <2>7. DOMAIN nu \subseteq DOMAIN mu \cup (c.next .. d.next - 1)
    BY <2>1, <2>3, <2>4 DEF AddsTo
  <2>8. mu \in From(T, c.group) /\ mu[Root] = r
    BY DEF At
  <2>9. nu \in At(T, d.group, r) /\ Extends(nu, mu)
    BY <1>5, <1>7, <2>8 DEF At
  <2>10. Widens(nu, mu, Fresh(free, c.next))
    BY <1>3, <2>7, <2>9 DEF Widens
  <2>11. \A g \in FiltersOf(c) : Holds(graph, nu, g)
    BY <2>3, <2>4, <2>10 DEF Standing, Settled, AllHold
  <2> QED
    BY <1>2, <2>6, <2>9, <2>11 DEF AllHold
<1> QED
  BY <1>1, <1>2, <1>6, <1>8, <1>9, <1>10 DEF Model

-----------------------------------------------------------------------------
(* Steps that follow no path                                               *)

StaysOn(mu, free, r, c, d, els, G, F) ==
  \A f \in Paths(r, DOMAIN c.joins) : Stands(mu, c.joins, f) =>
    /\ \A nu \in Onward(mu, els) :
         /\ DOMAIN nu \subseteq DOMAIN mu \cup (c.next .. d.next - 1)
         /\ \A g \in G : Settled(nu, g, NodesOf(d), Fresh(free, d.next))
         /\ (\A g \in G : Holds(graph, nu, g)) => SayAll(r, F, f)
    /\ SayAll(r, F, f) => \E nu \in Onward(mu, els) : \A g \in G : Holds(graph, nu, g)

Stays(T, free, r, c, d, els, G, F) ==
  /\ DOMAIN d = StateFields /\ IsSeq(d.filters) /\ IsSeq(els) /\ d.group = c.group \o els
  /\ FiltersOf(d) = FiltersOf(c) \cup G /\ d.joins = c.joins
  /\ d.next \in Nat /\ d.next >= c.next /\ c.next .. d.next - 1 \subseteq free
  /\ \A e \in F : OfPath(e) => e.left.path \in DOMAIN c.joins
  /\ \A mu \in From(T, c.group) : \A nu \in Onward(mu, els) : Extends(nu, mu)
  /\ \A mu \in At(T, c.group, r) : StaysOn(mu, free, r, c, d, els, G, F)

LEMMA ShapeStays ==
  ASSUME NEW c, Shape(c), NEW d, DOMAIN d = StateFields, IsSeq(d.group), d.joins = c.joins,
         d.next \in Nat, d.next >= c.next
  PROVE  Shape(d)
<1>1. 0 .. c.next - 1 \subseteq 0 .. d.next - 1 /\ d.next > 0
  BY DEF Shape
<1> QED
  BY <1>1 DEF Shape

LEMMA ModelStays ==
  ASSUME NEW T, NEW free, NEW r, NEW R, NEW c, NEW d, NEW els, NEW G, NEW E, NEW F,
         Model(T, free, r, R, c, E), Stays(T, free, r, c, d, els, G, F)
  PROVE  Model(T, free, r, R, d, E \cup F)
<1>1. /\ DOMAIN d = StateFields /\ IsSeq(d.filters) /\ IsSeq(els) /\ d.group = c.group \o els
      /\ FiltersOf(d) = FiltersOf(c) \cup G /\ d.joins = c.joins
      /\ d.next \in Nat /\ d.next >= c.next /\ c.next .. d.next - 1 \subseteq free
      /\ \A e \in F : OfPath(e) => e.left.path \in DOMAIN c.joins
      /\ \A mu \in From(T, c.group) : \A nu \in Onward(mu, els) : Extends(nu, mu)
      /\ \A mu \in At(T, c.group, r) : StaysOn(mu, free, r, c, d, els, G, F)
  BY DEF Stays
<1>2. Shape(c)
  BY DEF Model
<1>3. Shape(d)
  <2>1. IsSeq(d.group)
    BY <1>1, <1>2, ConcatIsSeq DEF Shape, IsSeq
  <2> QED
    BY <1>1, <1>2, <2>1, ShapeStays
<1>4. \A p \in DOMAIN c.joins : c.joins[p] \notin c.next .. d.next - 1
  BY <1>2 DEF Shape
<1>5. ASSUME NEW mu \in At(T, c.group, r) PROVE AddsTo(mu, free, r, c, d, els, G, F)
  <2> SUFFICES ASSUME NEW f \in Paths(r, DOMAIN c.joins), Stands(mu, c.joins, f)
               PROVE  /\ \A nu \in Onward(mu, els) :
                           /\ DOMAIN nu \subseteq DOMAIN mu \cup (c.next .. d.next - 1)
                           /\ \A g \in G : Settled(nu, g, NodesOf(d), Fresh(free, d.next))
                           /\ \E h \in Paths(r, DOMAIN d.joins) :
                                /\ Agree(h, f, DOMAIN c.joins) /\ Stands(nu, d.joins, h)
                                /\ (\A g \in G : Holds(graph, nu, g)) => SayAll(r, F, h)
                      /\ \A h \in Paths(r, DOMAIN d.joins) :
                           Agree(h, f, DOMAIN c.joins) /\ SayAll(r, F, h) =>
                             \E nu \in Onward(mu, els) :
                               Stands(nu, d.joins, h) /\ \A g \in G : Holds(graph, nu, g)
    BY DEF AddsTo
  <2>1. /\ \A nu \in Onward(mu, els) :
             /\ DOMAIN nu \subseteq DOMAIN mu \cup (c.next .. d.next - 1)
             /\ \A g \in G : Settled(nu, g, NodesOf(d), Fresh(free, d.next))
             /\ (\A g \in G : Holds(graph, nu, g)) => SayAll(r, F, f)
        /\ SayAll(r, F, f) => \E nu \in Onward(mu, els) : \A g \in G : Holds(graph, nu, g)
    BY <1>1 DEF StaysOn
  <2>2. mu \in From(T, c.group)
    BY DEF At
  <2>3. ASSUME NEW nu \in Onward(mu, els) PROVE Stands(nu, d.joins, f)
    <3>1. Extends(nu, mu) /\ DOMAIN nu \subseteq DOMAIN mu \cup (c.next .. d.next - 1)
      BY <1>1, <2>1, <2>2
    <3> QED
      BY <1>1, <1>4, <3>1 DEF Stands, Extends
  <2>4. Agree(f, f, DOMAIN c.joins)
    BY DEF Agree
  <2>5. ASSUME NEW h, Agree(h, f, DOMAIN c.joins), SayAll(r, F, h)
        PROVE  \E nu \in Onward(mu, els) :
                 Stands(nu, d.joins, h) /\ \A g \in G : Holds(graph, nu, g)
    <3>1. SayAll(r, F, f)
      BY <1>1, <2>5 DEF SayAll, Says, Agree
    <3>2. PICK nu \in Onward(mu, els) : \A g \in G : Holds(graph, nu, g)
      BY <2>1, <3>1
    <3>3. Stands(nu, d.joins, h)
      BY <1>1, <2>3, <2>5 DEF Stands, Agree
    <3> QED
      BY <3>2, <3>3
  <2> QED
    BY <1>1, <2>1, <2>3, <2>4, <2>5
<1>6. AddsAll(T, free, r, c, d, els, G, F)
  BY <1>1, <1>3, <1>5 DEF AddsAll
<1> QED
  BY <1>6, ModelStep

\* What is known of a solution and its way before a step.
LEMMA WayHere ==
  ASSUME NEW T, NEW free, NEW r, NEW R, NEW c, NEW E, Model(T, free, r, R, c, E),
         NEW mu \in At(T, c.group, r), c.next \in free
  PROVE  c.next \notin DOMAIN mu
<1>1. Standing(mu, free, r, R, c, E) /\ c.next \in Nat
  BY DEF Model, Shape
<1>2. c.next >= c.next
  BY <1>1
<1> QED
  BY <1>1, <1>2 DEF Standing, Fresh

-----------------------------------------------------------------------------
(* Following paths                                                         *)

\* A hop reaches all that its first node links.
LEMMA HopReaches ==
  ASSUME NEW mu, NEW from, NEW link, NEW to, NEW rel, from \in DOMAIN mu, to \notin DOMAIN mu,
         NEW w \in Linked(mu[from], link, rel)
  PROVE  \E nu \in Hopped(mu, from, link, to, rel) : nu[to] = w
<1> DEFINE a == Triple(from, link, to)
           type == Schema[rel.to].type
           b == TripleTo(to, Type, type)
<1>1. PICK t \in graph : /\ t[1] = mu[from] /\ t[2] = link /\ t[3] = w
                         /\ rel.iri \/ <<t[3], Type, type>> \in graph
  BY DEF Linked
<1>2. PICK nu \in Matches(graph, mu, a) : nu[to] = t[3]
  BY <1>1, TripleMatches
<1>3. CASE rel.iri
  BY <1>1, <1>2, <1>3, HopPatternsAre, JoinAllOne DEF Hopped
<1>4. CASE ~rel.iri
  <2>0. MatchesTriple(nu, mu, from, link, to)
    BY MatchFollows
  <2>1. to \in DOMAIN nu
    BY <2>0 DEF MatchesTriple
  <2>2. nu \in Matches(graph, nu, b)
    <3> DEFINE u == <<t[3], Type, type>>
    <3>1. u \in graph /\ u[1] = nu[to] /\ u[2] = Type /\ u[3] = type
      BY <1>1, <1>2, <1>4
    <3> HIDE DEF u, type
    <3> QED
      BY <2>1, <3>1, ConstantMatches
  <2>3. nu \in UNION {Matches(graph, pi, b) : pi \in Matches(graph, mu, a)}
    BY <2>2
  <2> QED
    BY <1>1, <1>2, <1>4, <2>3, HopPatternsAre, JoinAllTwo DEF Hopped
<1> QED
  BY <1>3, <1>4

LEMMA HopFilters ==
  \A acc, q : DOMAIN acc = StateFields => Hop(acc, Class, q).filters = acc.filters
  BY DEF Hop, HopAlong, StateFields

\* What a hop makes of a solution where its first node is bound.
HopsOn(mu, els, n, link, to, rel) ==
  /\ IF Linked(n, link, rel) = {} THEN Onward(mu, els) = IF rel.nullable THEN {mu} ELSE {}
     ELSE \A w \in Linked(n, link, rel) : \E nu \in Onward(mu, els) : nu[to] = w
  /\ \A nu \in Onward(mu, els) : Linked(n, link, rel) # {} =>
       /\ Extends(nu, mu) /\ DOMAIN nu = DOMAIN mu \cup {to} /\ nu[to] \in Linked(n, link, rel)

LEMMA HopOnward ==
  ASSUME graph \in Graphs, NEW mu, NEW from \in DOMAIN mu, NEW link, NEW to, to \notin DOMAIN mu,
         NEW rel
  PROVE  HopsOn(mu, HopElements(from, link, to, rel), mu[from], link, to, rel)
<1> DEFINE els == HopElements(from, link, to, rel)
           hopped == Hopped(mu, from, link, to, rel)
           linked == Linked(mu[from], link, rel)
<1>1. Onward(mu, els) = IF rel.nullable /\ hopped = {} THEN {mu} ELSE hopped
  BY OnwardHop
<1>2. ASSUME NEW nu \in hopped
      PROVE  /\ Extends(nu, mu) /\ DOMAIN nu = DOMAIN mu \cup {to} /\ nu[to] \in linked
  <2>1. Arrives(nu, mu, from, link, to, rel)
    BY HoppedLinks
  <2> QED
    BY <2>1 DEF Arrives, Extends
<1>3. \A w \in linked : \E nu \in hopped : nu[to] = w
  BY HopReaches
<1> HIDE DEF els, hopped, linked
<1>4. linked = {} <=> hopped = {}
  BY <1>2, <1>3
<1>5. HopsOn(mu, els, mu[from], link, to, rel)
  BY <1>1, <1>2, <1>3, <1>4 DEF HopsOn, linked
<1> QED
  BY <1>5 DEF els

LEMMA StandsHop ==
  ASSUME NEW mu, NEW nu, NEW joins, NEW f, NEW h, Stands(mu, joins, f), NEW q, q \notin DOMAIN joins,
         Agree(h, f, DOMAIN joins), NEW to, \A p \in DOMAIN joins : joins[p] # to,
         Extends(nu, mu), DOMAIN nu \subseteq DOMAIN mu \cup {to},
         IF h[q] = None THEN to \notin DOMAIN nu ELSE to \in DOMAIN nu /\ nu[to] = h[q]
  PROVE  Stands(nu, Bind(joins, q, to), h)
<1>1. /\ DOMAIN Bind(joins, q, to) = DOMAIN joins \cup {q} /\ Bind(joins, q, to)[q] = to
      /\ \A p \in DOMAIN joins : Bind(joins, q, to)[p] = joins[p]
  BY DEF Bind
<1>2. ASSUME NEW p \in DOMAIN joins
      PROVE  IF h[p] = None THEN joins[p] \notin DOMAIN nu
             ELSE joins[p] \in DOMAIN nu /\ nu[joins[p]] = h[p]
  BY DEF Stands, Agree, Extends
<1> QED
  BY <1>1, <1>2 DEF Stands

LEMMA HopModel ==
  ASSUME graph \in Graphs, NEW T, NEW free, NEW r, NEW R, NEW acc, NEW E,
         Model(T, free, r, R, acc, E), NEW p \in DOMAIN acc.joins, NEW link \in Field,
         ClassAt(Class, Append(p, link)) # None, Append(p, link) \notin DOMAIN acc.joins,
         FullyLinked(r, p), acc.next \in free
  PROVE  /\ Model(T, free, r, R, Hop(acc, Class, Append(p, link)), E)
         /\ DOMAIN Hop(acc, Class, Append(p, link)).joins = DOMAIN acc.joins \cup {Append(p, link)}
<1> DEFINE q == Append(p, link)
           d == Hop(acc, Class, q)
           node == acc.joins[p]
           to == acc.next
           rel == RelAt(q)
           els == HopElements(node, link, to, rel)
<1>1. /\ DOMAIN acc = StateFields /\ IsSeq(acc.group) /\ to \in Nat /\ to > 0
      /\ <<>> \in DOMAIN acc.joins /\ acc.joins[<<>>] = Root
      /\ \A x \in DOMAIN acc.joins :
           x \in Path /\ Prefixes(x) \subseteq DOMAIN acc.joins /\ acc.joins[x] \in 0 .. to - 1
  BY DEF Model, Shape
<1>2. IsSeq(acc.filters) /\ free \subseteq Nat /\ Shape(acc) /\ Closed(DOMAIN acc.joins)
  BY ShapeClosed DEF Model
<1>3. p \in Path /\ node \in 0 .. to - 1
  BY <1>1
<1>4. /\ DOMAIN d = StateFields /\ d.next = to + 1 /\ d.joins = Bind(acc.joins, q, to)
      /\ d.group = acc.group \o els /\ d.filters = acc.filters
  BY <1>1, <1>3, HopState, HopFilters
<1>5. q \in Path /\ Prefixes(q) = Prefixes(p) \cup {q}
  BY <1>3, PathAppend
<1>6. IsSeq(els)
  BY OnwardHop
<1>7. q \notin DOMAIN acc.joins /\ to \in free
  OBVIOUS
<1>8. /\ \A n : Linked(n, link, rel) \subseteq Resources
      /\ \A n : Targets(n, q) = IF Linked(n, link, rel) = {} /\ rel.nullable
                                THEN {None} ELSE Linked(n, link, rel)
  BY <1>3, TargetsKnown
<1>9. \A n : None \notin Linked(n, link, rel)
  BY GraphAssumption DEF Linked
<1>10. \A mu : node \in DOMAIN mu /\ to \notin DOMAIN mu => HopsOn(mu, els, mu[node], link, to, rel)
  BY HopOnward
<1>11. ASSUME NEW mu, NEW nu \in Onward(mu, els) PROVE Extends(nu, mu)
  <2>1. \/ nu = mu \/ nu \in Hopped(mu, node, link, to, rel)
    BY OnwardHop
  <2>2. nu \in Hopped(mu, node, link, to, rel) => Arrives(nu, mu, node, link, to, rel)
    BY HoppedLinks
  <2> QED
    BY <2>1, <2>2 DEF Arrives, Extends
<1>12. \A f \in Paths(r, DOMAIN acc.joins) : \A w \in Targets(f[p], q) :
         /\ Bind(f, q, w) \in Paths(r, DOMAIN acc.joins \cup {q})
         /\ Bind(f, q, w)[q] = w /\ Agree(Bind(f, q, w), f, DOMAIN acc.joins)
  BY <1>2, GrowWay
<1>13. \A h \in Paths(r, DOMAIN acc.joins \cup {q}) : h[q] \in Targets(h[p], q)
  BY <1>3, LastHop
<1>14. \A f \in Paths(r, DOMAIN acc.joins) : f[p] # None
  BY <1>2, NodeOfWay
<1>15. \A mu \in At(T, acc.group, r) : to \notin DOMAIN mu
  BY WayHere
<1> HIDE DEF q, d, node, to, rel, els
<1>16. to .. d.next - 1 = {to}
  BY <1>1, <1>4
<1>17. /\ DOMAIN d.joins = DOMAIN acc.joins \cup {q} /\ d.joins[q] = to
       /\ \A x \in DOMAIN acc.joins : d.joins[x] = acc.joins[x]
  BY <1>4, <1>7 DEF Bind
<1>18. \A x \in DOMAIN acc.joins : acc.joins[x] # to
  BY <1>1
<1>19. Shape(d)
  <2>1. IsSeq(d.group)
    BY <1>1, <1>4, <1>6, ConcatIsSeq DEF IsSeq
  <2>2. d.next \in Nat /\ d.next > 0 /\ to \in 0 .. d.next - 1 /\ 0 .. to - 1 \subseteq 0 .. d.next - 1
    BY <1>1, <1>4
  <2>3. Prefixes(p) \subseteq DOMAIN acc.joins
    BY <1>1
  <2>4. \A x \in DOMAIN d.joins :
          x \in Path /\ Prefixes(x) \subseteq DOMAIN d.joins /\ d.joins[x] \in 0 .. d.next - 1
    BY <1>1, <1>5, <1>17, <2>2, <2>3
  <2> QED
    BY <1>1, <1>4, <1>17, <2>1, <2>2, <2>4 DEF Shape
<1>20. ASSUME NEW mu \in At(T, acc.group, r) PROVE AddsTo(mu, free, r, acc, d, els, {}, {})
  <2> SUFFICES ASSUME NEW f \in Paths(r, DOMAIN acc.joins), Stands(mu, acc.joins, f)
               PROVE  /\ \A nu \in Onward(mu, els) :
                           /\ DOMAIN nu \subseteq DOMAIN mu \cup (acc.next .. d.next - 1)
                           /\ \E h \in Paths(r, DOMAIN d.joins) :
                                /\ Agree(h, f, DOMAIN acc.joins) /\ Stands(nu, d.joins, h)
                                /\ SayAll(r, {}, h)
                      /\ \A h \in Paths(r, DOMAIN d.joins) :
                           Agree(h, f, DOMAIN acc.joins) =>
                             \E nu \in Onward(mu, els) : Stands(nu, d.joins, h)
    BY DEF AddsTo
  <2>1. node \in DOMAIN mu /\ mu[node] = f[p] /\ to \notin DOMAIN mu
    BY <1>14, <1>15 DEF Stands, node
  <2>2. HopsOn(mu, els, f[p], link, to, rel)
    BY <1>10, <2>1
  <2> DEFINE linked == Linked(f[p], link, rel)
  <2>3. /\ IF linked = {} THEN Onward(mu, els) = IF rel.nullable THEN {mu} ELSE {}
           ELSE \A w \in linked : \E nu \in Onward(mu, els) : nu[to] = w
        /\ \A nu \in Onward(mu, els) : linked # {} =>
             Extends(nu, mu) /\ DOMAIN nu = DOMAIN mu \cup {to} /\ nu[to] \in linked
    BY <2>2 DEF HopsOn
  <2>4. Targets(f[p], q) = (IF linked = {} /\ rel.nullable THEN {None} ELSE linked) /\ None \notin linked
    BY <1>8, <1>9
  <2> HIDE DEF linked
  <2>5. ASSUME NEW nu \in Onward(mu, els), NEW h, Agree(h, f, DOMAIN acc.joins),
               IF linked = {} THEN h[q] = None ELSE h[q] = nu[to]
        PROVE  Stands(nu, d.joins, h)
    <3>1. Extends(nu, mu) /\ DOMAIN nu \subseteq DOMAIN mu \cup {to}
      BY <1>11, <2>3
    <3>2. IF h[q] = None THEN to \notin DOMAIN nu ELSE to \in DOMAIN nu /\ nu[to] = h[q]
      BY <2>1, <2>3, <2>4, <2>5
    <3>3. Stands(nu, Bind(acc.joins, q, to), h)
      BY <1>7, <1>18, <2>5, <3>1, <3>2, StandsHop
    <3> QED
      BY <1>4, <3>3
  <2>6. ASSUME NEW nu \in Onward(mu, els)
        PROVE  \E h \in Paths(r, DOMAIN d.joins) :
                 Agree(h, f, DOMAIN acc.joins) /\ Stands(nu, d.joins, h)
    <3> DEFINE w == IF linked = {} THEN None ELSE nu[to]
    <3>1. w \in Targets(f[p], q)
      BY <2>3, <2>4
    <3>2. /\ Bind(f, q, w) \in Paths(r, DOMAIN d.joins)
          /\ Bind(f, q, w)[q] = w /\ Agree(Bind(f, q, w), f, DOMAIN acc.joins)
      BY <1>12, <1>17, <3>1
    <3>3. Stands(nu, d.joins, Bind(f, q, w))
      BY <2>5, <3>2
    <3> QED
      BY <3>2, <3>3
  <2>7. ASSUME NEW h \in Paths(r, DOMAIN d.joins), Agree(h, f, DOMAIN acc.joins)
        PROVE  \E nu \in Onward(mu, els) : Stands(nu, d.joins, h)
    <3>1. h[q] \in Targets(f[p], q)
      BY <1>13, <1>17, <2>7 DEF Agree
    <3>2. \E nu \in Onward(mu, els) : IF linked = {} THEN h[q] = None ELSE h[q] = nu[to]
      BY <2>3, <2>4, <3>1
    <3> QED
      BY <2>5, <2>7, <3>2
  <2>8. \A nu \in Onward(mu, els) : DOMAIN nu \subseteq DOMAIN mu \cup (acc.next .. d.next - 1)
    BY <1>16, <2>3 DEF to
  <2> QED
    BY <2>6, <2>7, <2>8 DEF SayAll
<1>21. AddsAll(T, free, r, acc, d, els, {}, {})
  <2>1. FiltersOf(d) = FiltersOf(acc) \cup {} /\ IsSeq(d.filters)
    BY <1>2, <1>4 DEF FiltersOf
  <2>2. d.next >= acc.next /\ acc.next .. d.next - 1 \subseteq free
    BY <1>1, <1>4, <1>7, <1>16 DEF to
  <2>3. \A x \in DOMAIN d.joins \ DOMAIN acc.joins : d.joins[x] \in acc.next .. d.next - 1
    BY <1>16, <1>17 DEF to
  <2> QED
    BY <1>4, <1>6, <1>11, <1>17, <1>19, <1>20, <2>1, <2>2, <2>3 DEF AddsAll
<1>22. Model(T, free, r, R, d, E \cup {})
  BY <1>21, ModelStep
<1>23. Model(T, free, r, R, d, E)
  BY <1>22
<1> QED
  BY <1>17, <1>23 DEF d, q

\* Following p from acc, for solutions with root r.
Tracks(T, free, r, R, acc, p, E) ==
  /\ Model(T, free, r, R, acc, E) /\ ClassAt(Class, p) # None
  /\ p = <<>> \/ FullyLinked(r, Front(p))
  /\ acc.next .. FollowPath(acc, Class, p).next - 1 \subseteq free

LEMMA FollowModel ==
  ASSUME graph \in Graphs, NEW T, NEW free, NEW r, NEW R, NEW E, NEW p \in Path
  PROVE  \A acc : Tracks(T, free, r, R, acc, p, E) =>
           /\ Model(T, free, r, R, FollowPath(acc, Class, p), E)
           /\ DOMAIN FollowPath(acc, Class, p).joins = DOMAIN acc.joins \cup Prefixes(p)
<1> DEFINE N == {x \in Path :
      \A acc : Tracks(T, free, r, R, acc, x, E) =>
        /\ Model(T, free, r, R, FollowPath(acc, Class, x), E)
        /\ DOMAIN FollowPath(acc, Class, x).joins = DOMAIN acc.joins \cup Prefixes(x)}
<1>1. <<>> \in N
  <2>1. \A acc : Model(T, free, r, R, acc, E) => <<>> \in DOMAIN acc.joins
    BY DEF Model, Shape
  <2> QED
    BY <2>1, EmptyPath, FollowEach DEF Tracks
<1>2. ASSUME NEW x \in Path, NEW link \in Field, x \in N PROVE Append(x, link) \in N
  <2> DEFINE q == Append(x, link)
  <2>1. q \in Path /\ q # <<>> /\ Front(q) = x /\ Prefixes(q) = Prefixes(x) \cup {q}
    BY PathAppend
  <2>2. SUFFICES ASSUME NEW acc, Tracks(T, free, r, R, acc, q, E)
                 PROVE  /\ Model(T, free, r, R, FollowPath(acc, Class, q), E)
                        /\ DOMAIN FollowPath(acc, Class, q).joins = DOMAIN acc.joins \cup Prefixes(q)
    BY <2>1
  <2> DEFINE c == FollowPath(acc, Class, x)
             d == FollowPath(acc, Class, q)
  <2>3. /\ Model(T, free, r, R, acc, E) /\ ClassAt(Class, q) # None /\ FullyLinked(r, x)
        /\ acc.next .. d.next - 1 \subseteq free
    BY <2>1, <2>2 DEF Tracks
  <2>4. ClassAt(Class, x) # None
    BY <2>3, ClassBefore, SchemaAssumption
  <2>5. d = FollowStep(c, q)
    BY FollowEach
  <2>6. DOMAIN acc = StateFields /\ acc.next \in Nat
    BY <2>3 DEF Model, Shape
  <2>7. DOMAIN c = StateFields /\ c.next \in Nat /\ c.next >= acc.next
    BY <2>6, FollowLater DEF Later
  <2>8. q \notin DOMAIN c.joins => d.next = c.next + 1 /\ d = Hop(c, Class, q)
    <3>1. q \notin DOMAIN c.joins => d = Hop(c, Class, q)
      BY <2>5 DEF FollowStep
    <3>2. Hop(c, Class, q).next = c.next + 1
      BY <2>7, HopState
    <3> QED
      BY <3>1, <3>2
  <2>9. q \in DOMAIN c.joins => d = c
    BY <2>5 DEF FollowStep
  <2>10. x = <<>> \/ FullyLinked(r, Front(x))
    <3>1. x = <<>> \/ Front(x) \in Prefixes(x)
      BY PrefixesOfPath, FrontOfPrefix
    <3> QED
      BY <2>3, <3>1, LinkedBefore
  <2> HIDE DEF c, d, q
  <2>11. acc.next .. c.next - 1 \subseteq free /\ (q \notin DOMAIN c.joins => c.next \in free)
    <3>1. CASE q \in DOMAIN c.joins
      BY <2>3, <2>9, <3>1
    <3>2. CASE q \notin DOMAIN c.joins
      <4>1. /\ acc.next .. c.next - 1 \subseteq acc.next .. d.next - 1
            /\ c.next \in acc.next .. d.next - 1
        BY <2>6, <2>7, <2>8, <3>2
      <4> QED
        BY <2>3, <4>1
    <3> QED
      BY <3>1, <3>2
  <2>12. Tracks(T, free, r, R, acc, x, E)
    BY <2>3, <2>4, <2>10, <2>11 DEF Tracks, c
  <2>13. Model(T, free, r, R, c, E) /\ DOMAIN c.joins = DOMAIN acc.joins \cup Prefixes(x)
    BY <1>2, <2>12 DEF c
  <2>14. CASE q \in DOMAIN c.joins
    <3>1. Prefixes(q) \subseteq DOMAIN c.joins
      BY <2>1, <2>13, <2>14
    <3> QED
      BY <2>1, <2>9, <2>13, <2>14, <3>1 DEF d
  <2>15. CASE q \notin DOMAIN c.joins
    <3>1. x \in DOMAIN c.joins
      BY <2>13, PrefixesOfPath
    <3>2. Model(T, free, r, R, d, E) /\ DOMAIN d.joins = DOMAIN c.joins \cup {q}
      BY <2>3, <2>8, <2>11, <2>13, <2>15, <3>1, HopModel DEF q
    <3> QED
      BY <2>1, <2>13, <3>2 DEF d
  <2> QED
    BY <2>14, <2>15
<1> HIDE DEF N
<1>3. Path \subseteq N
  BY <1>1, <1>2, SeqSet DEF Path
<1> QED
  BY <1>3 DEF N

LEMMA FollowFilters ==
  ASSUME NEW p \in Path
  PROVE  \A acc : DOMAIN acc = StateFields => FollowPath(acc, Class, p).filters = acc.filters
<1> DEFINE N == {x \in Path : \A acc : DOMAIN acc = StateFields =>
                   /\ DOMAIN FollowPath(acc, Class, x) = StateFields
                   /\ FollowPath(acc, Class, x).filters = acc.filters}
<1>1. <<>> \in N
  BY EmptyPath, FollowEach
<1>2. ASSUME NEW x \in Path, NEW link \in Field, x \in N PROVE Append(x, link) \in N
  <2>1. Append(x, link) \in Path
    BY PathAppend
  <2>2. ASSUME NEW acc, DOMAIN acc = StateFields
        PROVE  /\ DOMAIN FollowPath(acc, Class, Append(x, link)) = StateFields
               /\ FollowPath(acc, Class, Append(x, link)).filters = acc.filters
    <3> DEFINE c == FollowPath(acc, Class, x)
    <3>1. DOMAIN c = StateFields /\ c.filters = acc.filters
      BY <1>2, <2>2
    <3>2. FollowPath(acc, Class, Append(x, link)) = FollowStep(c, Append(x, link))
      BY FollowEach
    <3> HIDE DEF c
    <3>3. /\ DOMAIN Hop(c, Class, Append(x, link)) = StateFields
          /\ Hop(c, Class, Append(x, link)).filters = c.filters
      BY <3>1, HopState, HopFilters
    <3> QED
      BY <3>1, <3>2, <3>3 DEF FollowStep
  <2> QED
    BY <2>1, <2>2
<1> HIDE DEF N
<1>3. Path \subseteq N
  BY <1>1, <1>2, SeqSet DEF Path
<1> QED
  BY <1>3 DEF N

-----------------------------------------------------------------------------
(* Comparisons                                                             *)

LEMMA AppendFilters ==
  \A q, g : IsSeq(q) => /\ IsSeq(Append(q, g))
                        /\ {Append(q, g)[i] : i \in DOMAIN Append(q, g)} = {q[i] : i \in DOMAIN q} \cup {g}
<1> SUFFICES ASSUME NEW q, NEW g, IsSeq(q)
             PROVE  /\ IsSeq(Append(q, g))
                    /\ {Append(q, g)[i] : i \in DOMAIN Append(q, g)} = {q[i] : i \in DOMAIN q} \cup {g}
  OBVIOUS
<1>1. PICK S : q \in Seq(S) /\ g \in S
  BY AppendIsSeq
<1>2. /\ Append(q, g) \in Seq(S) /\ Len(Append(q, g)) = Len(q) + 1
      /\ \A i \in 1 .. Len(q) : Append(q, g)[i] = q[i]
      /\ Append(q, g)[Len(q) + 1] = g
  BY <1>1, AppendProperties
<1>3. DOMAIN q = 1 .. Len(q) /\ DOMAIN Append(q, g) = 1 .. Len(q) + 1 /\ Len(q) \in Nat
  BY <1>1, <1>2, LenProperties
<1>4. 1 .. Len(q) + 1 = (1 .. Len(q)) \cup {Len(q) + 1}
  BY <1>3
<1> QED
  BY <1>2, <1>3, <1>4 DEF IsSeq

LEMMA AppendEnds ==
  \A p \in Path : \A e : Front(Append(p, e)) = p /\ Last(Append(p, e)) = e
<1> SUFFICES ASSUME NEW p \in Path, NEW e PROVE Front(Append(p, e)) = p /\ Last(Append(p, e)) = e
  OBVIOUS
<1> DEFINE S == Field \cup {e}
           r == Append(p, e)
           L == Len(p)
<1>1. p \in Seq(S) /\ e \in S
  BY SeqMonotonic DEF Path
<1>2. /\ r \in Seq(S) /\ Len(r) = L + 1 /\ L \in Nat
      /\ \A i \in 1 .. L : r[i] = p[i]
      /\ r[L + 1] = e
  BY <1>1, AppendProperties, LenProperties
<1> HIDE DEF S, r
<1>3. Last(r) = e
  BY <1>2 DEF Last
<1>4. SubSeq(r, 1, L) = p
  <2>0. \A i \in 1 .. L : p[i] \in S
    BY <1>1, ElementOfSeq
  <2> HIDE DEF L
  <2>1. \A i \in 1 .. L : r[i] \in S
    BY <1>2, <2>0
  <2>2. L \in Int /\ 1 \in Int
    BY <1>2
  <2>3. /\ SubSeq(r, 1, L) \in Seq(S)
        /\ Len(SubSeq(r, 1, L)) = IF 1 <= L THEN L - 1 + 1 ELSE 0
        /\ \A i \in 1 .. L - 1 + 1 : SubSeq(r, 1, L)[i] = r[1 + i - 1]
    BY <2>1, <2>2, SubSeqProperties
  <2>4. Len(SubSeq(r, 1, L)) = L /\ \A i \in 1 .. L : i \in 1 .. L - 1 + 1 /\ 1 + i - 1 = i
    BY <1>2, <2>3
  <2>5. \A i \in 1 .. L : SubSeq(r, 1, L)[i] = p[i]
    BY <1>2, <2>3, <2>4
  <2> QED
    BY <1>1, <2>3, <2>4, <2>5, SeqEqual DEF L
<1>5. Front(r) = p
  <2>1. Len(r) - 1 = L
    BY <1>2
  <2> QED
    BY <1>4, <2>1 DEF Front
<1> QED
  BY <1>3, <1>5 DEF r

\* A comparison of the value of a field, other than an equality.
Ordered(e, notExists) == e.op \notin {"is", "is_not", "eq"} /\ ~(e.op = "ne" /\ notExists)

LEMMA CompareSays ==
  ASSUME NEW e, e.kind = "compare", NEW n
  PROVE  /\ e.op = "is" => (CompareMeans(e, n) <=>
              Linked(n, e.left.field, RelAt(Append(e.left.path, e.left.field))) = {})
         /\ e.op = "is_not" => (CompareMeans(e, n) <=>
              Linked(n, e.left.field, RelAt(Append(e.left.path, e.left.field))) # {})
         /\ e.op = "eq" => (CompareMeans(e, n) <=> e.right \in KeyValues(n, e.left))
         /\ e.op = "ne" /\ query.use_not_exists_for_ne =>
              (CompareMeans(e, n) <=> e.right \notin KeyValues(n, e.left))
         /\ Ordered(e, query.use_not_exists_for_ne) /\ n # None =>
              (CompareMeans(e, n) <=> \E v \in KeyValues(n, e.left) : Compares(v, e.op, e.right))
<1>1. CASE e.op = "is"
  BY <1>1 DEF CompareMeans, Ordered
<1>2. CASE e.op = "is_not"
  BY <1>2 DEF CompareMeans, Ordered
<1>3. CASE e.op = "eq"
  BY <1>3 DEF CompareMeans, Ordered, KeyValues, Compares
<1>4. CASE e.op = "ne" /\ query.use_not_exists_for_ne
  BY <1>4 DEF CompareMeans, Ordered, KeyValues
<1>5. CASE e.op = "ne" /\ ~query.use_not_exists_for_ne
  BY <1>5 DEF CompareMeans, Ordered, KeyValues, Compares
<1>6. CASE e.op \notin {"is", "is_not", "eq", "ne"}
  BY <1>6 DEF CompareMeans, KeyValues
<1> QED
  BY <1>1, <1>2, <1>3, <1>4, <1>5, <1>6 DEF Ordered

\* What holds of one variable, with and without a guard.
Plain(g) == g.kind \notin {"any", "none"}

LEMMA FiltersHold ==
  /\ \A nu, f, node : f.kind \notin {"any", "none", "either"} =>
       /\ Holds(graph, nu, f) <=> SimpleHolds(graph, nu, f)
       /\ Plain(f) /\ Plain(EitherF(NotBoundF(node), f))
       /\ Holds(graph, nu, EitherF(NotBoundF(node), f)) <=>
            node \notin DOMAIN nu \/ SimpleHolds(graph, nu, f)
  /\ \A nu, x, op, v : /\ CompareF(x, op, v).kind = "compare"
                       /\ SimpleHolds(graph, nu, CompareF(x, op, v)) <=>
                            x \in DOMAIN nu /\ Compares(nu[x], op, v)
  /\ \A nu, x : BoundF(x).kind = "bound" /\ NotBoundF(x).kind = "unbound"
  /\ \A nu, x : /\ SimpleHolds(graph, nu, BoundF(x)) <=> x \in DOMAIN nu
                /\ SimpleHolds(graph, nu, NotBoundF(x)) <=> x \notin DOMAIN nu
  /\ \A nu, x, field, v : /\ LacksF(x, field, v).kind = "lacks"
                          /\ SimpleHolds(graph, nu, LacksF(x, field, v)) <=>
                               Matches(graph, nu, TripleTo(x, field, v)) = {}
<1>1. ASSUME NEW nu, NEW f, NEW node, f.kind \notin {"any", "none", "either"}
      PROVE  /\ Holds(graph, nu, f) <=> SimpleHolds(graph, nu, f)
             /\ Plain(f) /\ Plain(EitherF(NotBoundF(node), f))
             /\ Holds(graph, nu, EitherF(NotBoundF(node), f)) <=>
                  node \notin DOMAIN nu \/ SimpleHolds(graph, nu, f)
  <2>1. Holds(graph, nu, f) <=> SimpleHolds(graph, nu, f)
    BY <1>1 DEF Holds, BasicHolds
  <2> DEFINE none == NotBoundF(node)
             g == EitherF(none, f)
  <2>2. SimpleHolds(graph, nu, none) <=> node \notin DOMAIN nu
    BY DEF SimpleHolds, NotBoundF, Bound
  <2> HIDE DEF none
  <2>3. g.kind = "either" /\ g.parts = <<none, f>>
    BY DEF EitherF
  <2> HIDE DEF g
  <2>4. Holds(graph, nu, g) <=> \E i \in DOMAIN g.parts : SimpleHolds(graph, nu, g.parts[i])
    BY <2>3 DEF Holds, BasicHolds
  <2>5. DOMAIN g.parts = {1, 2} /\ g.parts[1] = none /\ g.parts[2] = f
    BY <2>3
  <2>6. Holds(graph, nu, g) <=> SimpleHolds(graph, nu, none) \/ SimpleHolds(graph, nu, f)
    BY <2>4, <2>5
  <2> QED
    BY <1>1, <2>1, <2>2, <2>3, <2>6 DEF Plain, g, none
<1>2. ASSUME NEW nu, NEW x, NEW op, NEW v
      PROVE  /\ CompareF(x, op, v).kind = "compare"
             /\ SimpleHolds(graph, nu, CompareF(x, op, v)) <=>
                  x \in DOMAIN nu /\ Compares(nu[x], op, v)
  BY DEF SimpleHolds, CompareF, Bound
<1>3. ASSUME NEW nu, NEW x
      PROVE  /\ BoundF(x).kind = "bound" /\ NotBoundF(x).kind = "unbound"
             /\ SimpleHolds(graph, nu, BoundF(x)) <=> x \in DOMAIN nu
             /\ SimpleHolds(graph, nu, NotBoundF(x)) <=> x \notin DOMAIN nu
  BY DEF SimpleHolds, BoundF, NotBoundF, Bound
<1>4. ASSUME NEW nu, NEW x, NEW field, NEW v
      PROVE  /\ LacksF(x, field, v).kind = "lacks"
             /\ SimpleHolds(graph, nu, LacksF(x, field, v)) <=>
                  Matches(graph, nu, TripleTo(x, field, v)) = {}
  BY DEF SimpleHolds, LacksF
<1> QED
  BY <1>1, <1>2, <1>3, <1>4

LEMMA ModelFacts ==
  \A T, free, r, R, c, E : Model(T, free, r, R, c, E) =>
    /\ DOMAIN c = StateFields /\ IsSeq(c.group) /\ IsSeq(c.filters) /\ c.next \in Nat
    /\ free \subseteq Nat /\ Closed(DOMAIN c.joins)
    /\ \A p \in DOMAIN c.joins : c.joins[p] \in 0 .. c.next - 1
  BY ShapeClosed DEF Model, Shape

\* The variable of a linked path is bound to where the path leads.
LEMMA NodeHere ==
  ASSUME NEW T, NEW free, NEW r, NEW R, NEW c, NEW E, Model(T, free, r, R, c, E),
         NEW p \in DOMAIN c.joins, FullyLinked(r, p),
         NEW mu, NEW f \in Paths(r, DOMAIN c.joins), Stands(mu, c.joins, f)
  PROVE  f[p] # None /\ c.joins[p] \in DOMAIN mu /\ mu[c.joins[p]] = f[p]
<1>1. f[p] # None
  BY ModelFacts, NodeOfWay
<1> QED
  BY <1>1 DEF Stands

LEMMA SaysCompare ==
  \A r, e, f : e.kind = "compare" => OfPath(e) /\ (SayAll(r, {e}, f) <=> CompareMeans(e, f[e.left.path]))
  BY DEF OfPath, SayAll, Says

LEMMA NoFilter == \A c, d : d.filters = c.filters => FiltersOf(d) = FiltersOf(c) \cup {}
  BY DEF FiltersOf

AddsFilter(c, d, g) == IsSeq(c.filters) /\ d.filters = Append(c.filters, g)

LEMMA OneFilter ==
  \A c, d, g : AddsFilter(c, d, g) =>
    IsSeq(d.filters) /\ FiltersOf(d) = FiltersOf(c) \cup {g}
  BY AppendFilters DEF FiltersOf, AddsFilter

\* A filter of what a solution binds says the same of all that extend it.
LEMMA SettledAs ==
  ASSUME NEW nu, NEW g, NEW old, NEW fresh,
         \A pi : Extends(pi, nu) => (Holds(graph, pi, g) <=> Holds(graph, nu, g))
  PROVE  Settled(nu, g, old, fresh)
  BY DEF Settled, Widens

LEMMA EqStays ==
  ASSUME graph \in Graphs, NEW T, NEW free, NEW r, NEW R, NEW acc, NEW c, NEW E,
         Model(T, free, r, R, c, E), NEW e, e.kind = "compare", e.op = "eq",
         e.left.path \in DOMAIN c.joins, FullyLinked(r, e.left.path),
         NEW d, d = CompileFollowed(acc, c, Class, e, query.use_not_exists_for_ne)
  PROVE  \E els, G : Stays(T, free, r, c, d, els, G, {e})
<1> DEFINE path == e.left.path
           field == e.left.field
           node == c.joins[path]
           t == TripleTo(node, field, e.right)
           els == <<t>>
<1>1. /\ DOMAIN c = StateFields /\ IsSeq(c.group) /\ IsSeq(c.filters) /\ c.next \in Nat
      /\ free \subseteq Nat
  BY ModelFacts
<1>2. d = [c EXCEPT !.group = Append(@, t)]
  BY DEF CompileFollowed
<1>3. /\ DOMAIN d = StateFields /\ d.group = Append(c.group, t) /\ d.filters = c.filters
      /\ d.joins = c.joins /\ d.next = c.next
  BY <1>1, <1>2 DEF StateFields
<1>4. Append(c.group, t) = c.group \o els
  BY <1>1, AppendIsSeq
<1>5. \A mu : Onward(mu, els) = Matches(graph, mu, t) /\ IsSeq(els)
  BY OnwardOne, AfterPattern
<1>6. \A mu : \A nu \in Matches(graph, mu, t) : MatchesConstant(nu, mu, node, field, e.right)
  BY MatchFollows
<1>7. c.next .. d.next - 1 = {}
  BY <1>1, <1>3
<1>8. \A mu : node \in DOMAIN mu /\ e.right \in KeyValues(mu[node], e.left) => mu \in Matches(graph, mu, t)
  BY ConstantMatches DEF KeyValues
<1> HIDE DEF t, els
<1>9. ASSUME NEW mu \in At(T, c.group, r), NEW f \in Paths(r, DOMAIN c.joins), Stands(mu, c.joins, f)
      PROVE  /\ \A nu \in Onward(mu, els) :
                  DOMAIN nu \subseteq DOMAIN mu /\ CompareMeans(e, f[path])
             /\ CompareMeans(e, f[path]) => \E nu \in Onward(mu, els) : TRUE
  <2>1. node \in DOMAIN mu /\ mu[node] = f[path]
    BY <1>9, NodeHere
  <2>2. CompareMeans(e, f[path]) <=> e.right \in KeyValues(f[path], e.left)
    BY CompareSays
  <2>3. ASSUME NEW nu \in Onward(mu, els)
        PROVE  DOMAIN nu \subseteq DOMAIN mu /\ e.right \in KeyValues(f[path], e.left)
    <3>1. MatchesConstant(nu, mu, node, field, e.right)
      BY <1>5, <1>6
    <3> QED
      BY <2>1, <3>1 DEF MatchesConstant, Extends, KeyValues
  <2> QED
    BY <1>5, <1>8, <2>1, <2>2, <2>3
<1>10. \A mu \in At(T, c.group, r) : StaysOn(mu, free, r, c, d, els, {}, {e})
  BY <1>9, SaysCompare DEF StaysOn
<1>11. \A mu \in From(T, c.group) : \A nu \in Onward(mu, els) : Extends(nu, mu)
  BY <1>5, <1>6 DEF MatchesConstant
<1>12. d.next \in Nat /\ d.next >= c.next /\ c.next .. d.next - 1 \subseteq free
  BY <1>1, <1>3, <1>7
<1>13. IsSeq(d.filters) /\ FiltersOf(d) = FiltersOf(c) \cup {}
  BY <1>1, <1>3, NoFilter
<1>14. Stays(T, free, r, c, d, els, {}, {e})
  BY <1>3, <1>4, <1>5, <1>10, <1>11, <1>12, <1>13 DEF Stays
<1> QED
  BY <1>14

LEMMA OrderedStays ==
  ASSUME graph \in Graphs, NEW T, NEW free, NEW r, NEW R, NEW acc, NEW c, NEW E,
         Model(T, free, r, R, c, E), NEW e, e.kind = "compare",
         Ordered(e, query.use_not_exists_for_ne),
         e.left.path \in DOMAIN c.joins, FullyLinked(r, e.left.path),
         NEW d, d = CompileFollowed(acc, c, Class, e, query.use_not_exists_for_ne),
         c.next .. d.next - 1 \subseteq free
  PROVE  \E els, G : Stays(T, free, r, c, d, els, G, {e})
<1> DEFINE path == e.left.path
           field == e.left.field
           node == c.joins[path]
           x == c.next
           t == Triple(node, field, x)
           els == <<t>>
           compared == CompareF(x, e.op, e.right)
           guarded == EitherF(NotBoundF(node), compared)
<1>1. /\ DOMAIN c = StateFields /\ IsSeq(c.group) /\ IsSeq(c.filters) /\ c.next \in Nat
      /\ free \subseteq Nat /\ node \in 0 .. c.next - 1
  BY ModelFacts
<1>2. PICK g \in {compared, guarded} :
        d = [c EXCEPT !.group = Append(@, t), !.filters = Append(@, g), !.next = @ + 1]
  <2>1. CASE e.op = "in"
    BY <2>1 DEF CompileFollowed
  <2>2. CASE e.op # "in"
    <3>1. d = [c EXCEPT !.group = Append(@, t),
                        !.filters = Append(@, IF AddsOptional(acc, c) THEN guarded ELSE compared),
                        !.next = @ + 1]
      BY <2>2 DEF CompileFollowed, Ordered
    <3> HIDE DEF t, compared, guarded
    <3> QED
      BY <3>1
  <2> QED
    BY <2>1, <2>2
<1>3. \A nu : node \in DOMAIN nu =>
        (Holds(graph, nu, g) <=> x \in DOMAIN nu /\ Compares(nu[x], e.op, e.right))
  <2>1. /\ compared.kind = "compare"
        /\ \A nu : SimpleHolds(graph, nu, compared)
                     <=> x \in DOMAIN nu /\ Compares(nu[x], e.op, e.right)
    BY FiltersHold
  <2> HIDE DEF compared
  <2>2. \A nu : /\ Holds(graph, nu, compared) <=> SimpleHolds(graph, nu, compared)
                /\ Holds(graph, nu, guarded) <=>
                     node \notin DOMAIN nu \/ SimpleHolds(graph, nu, compared)
    BY <2>1, FiltersHold
  <2> QED
    BY <2>1, <2>2
<1> HIDE DEF compared, guarded
<1>4. /\ DOMAIN d = StateFields /\ d.group = Append(c.group, t) /\ d.filters = Append(c.filters, g)
      /\ d.joins = c.joins /\ d.next = x + 1
  BY <1>1, <1>2 DEF StateFields
<1>5. Append(c.group, t) = c.group \o els
  BY <1>1, AppendIsSeq
<1>6. \A mu : Onward(mu, els) = Matches(graph, mu, t) /\ IsSeq(els)
  BY OnwardOne, AfterPattern
<1>7. \A mu : \A nu \in Matches(graph, mu, t) : MatchesTriple(nu, mu, node, field, x)
  BY MatchFollows
<1>8. x .. d.next - 1 = {x}
  BY <1>1, <1>4
<1>9. ASSUME NEW mu, node \in DOMAIN mu, x \notin DOMAIN mu, NEW v \in KeyValues(mu[node], e.left)
      PROVE  \E nu \in Matches(graph, mu, t) : nu[x] = v
  <2>1. PICK u \in graph : u[1] = mu[node] /\ u[2] = field /\ u[3] = v
    BY <1>9 DEF KeyValues
  <2> QED
    BY <1>9, <2>1, TripleMatches
<1> HIDE DEF t, els
<1>10. ASSUME NEW mu \in At(T, c.group, r), NEW f \in Paths(r, DOMAIN c.joins), Stands(mu, c.joins, f)
       PROVE  /\ \A nu \in Onward(mu, els) :
                   /\ DOMAIN nu \subseteq DOMAIN mu \cup {x}
                   /\ Settled(nu, g, NodesOf(d), Fresh(free, d.next))
                   /\ Holds(graph, nu, g) => CompareMeans(e, f[path])
              /\ CompareMeans(e, f[path]) => \E nu \in Onward(mu, els) : Holds(graph, nu, g)
  <2>1. node \in DOMAIN mu /\ mu[node] = f[path] /\ f[path] # None
    BY <1>10, NodeHere
  <2>2. CompareMeans(e, f[path]) <=> \E v \in KeyValues(f[path], e.left) : Compares(v, e.op, e.right)
    BY <2>1, CompareSays
  <2>3. x \notin DOMAIN mu
    <3>1. x \in free
      BY <1>8
    <3> QED
      BY <3>1, WayHere
  <2>4. ASSUME NEW nu \in Onward(mu, els)
        PROVE  /\ DOMAIN nu \subseteq DOMAIN mu \cup {x} /\ x \in DOMAIN nu /\ node \in DOMAIN nu
               /\ nu[x] \in KeyValues(f[path], e.left)
    <3>1. MatchesTriple(nu, mu, node, field, x)
      BY <1>6, <1>7
    <3> QED
      BY <2>1, <3>1 DEF MatchesTriple, Extends, KeyValues
  <2>5. ASSUME NEW nu \in Onward(mu, els) PROVE Settled(nu, g, NodesOf(d), Fresh(free, d.next))
    <3>1. \A pi : Extends(pi, nu) => (Holds(graph, pi, g) <=> Holds(graph, nu, g))
      BY <1>3, <2>4 DEF Extends
    <3> QED
      BY <3>1, SettledAs
  <2>6. \A nu \in Onward(mu, els) : Holds(graph, nu, g) <=> Compares(nu[x], e.op, e.right)
    BY <1>3, <2>4
  <2>7. ASSUME NEW v \in KeyValues(f[path], e.left) PROVE \E nu \in Onward(mu, els) : nu[x] = v
    BY <1>6, <1>9, <2>1, <2>3
  <2> QED
    BY <2>2, <2>4, <2>5, <2>6, <2>7
<1>11. \A mu \in At(T, c.group, r) : StaysOn(mu, free, r, c, d, els, {g}, {e})
  BY <1>8, <1>10, SaysCompare DEF StaysOn
<1>12. \A mu \in From(T, c.group) : \A nu \in Onward(mu, els) : Extends(nu, mu)
  BY <1>6, <1>7 DEF MatchesTriple
<1>13. d.next \in Nat /\ d.next >= c.next
  BY <1>1, <1>4
<1>14. IsSeq(d.filters) /\ FiltersOf(d) = FiltersOf(c) \cup {g}
  <2>1. AddsFilter(c, d, g)
    BY <1>1, <1>4 DEF AddsFilter
  <2> QED
    BY <2>1, OneFilter
<1>15. Stays(T, free, r, c, d, els, {g}, {e})
  BY <1>4, <1>5, <1>6, <1>11, <1>12, <1>13, <1>14, SaysCompare DEF Stays
<1> QED
  BY <1>15

LEMMA LacksStays ==
  ASSUME graph \in Graphs, NEW T, NEW free, NEW r, NEW R, NEW acc, NEW c, NEW E,
         Model(T, free, r, R, c, E), NEW e, e.kind = "compare",
         e.op = "ne", ~Ordered(e, query.use_not_exists_for_ne),
         e.left.path \in DOMAIN c.joins, FullyLinked(r, e.left.path) \/ AddsOptional(acc, c),
         NEW d, d = CompileFollowed(acc, c, Class, e, query.use_not_exists_for_ne)
  PROVE  \E els, G : Stays(T, free, r, c, d, els, G, {e})
<1> DEFINE path == e.left.path
           field == e.left.field
           node == c.joins[path]
           lacks == LacksF(node, field, e.right)
           guarded == EitherF(NotBoundF(node), lacks)
           g == IF AddsOptional(acc, c) THEN guarded ELSE lacks
           els == <<>>
<1>1. /\ DOMAIN c = StateFields /\ IsSeq(c.group) /\ IsSeq(c.filters) /\ c.next \in Nat
      /\ free \subseteq Nat /\ node \in 0 .. c.next - 1
  BY ModelFacts
<1>2. d = [c EXCEPT !.filters = Append(@, g)]
  BY DEF CompileFollowed, Ordered
<1>3. \A nu : /\ node \in DOMAIN nu =>
                   (Holds(graph, nu, g) <=> Matches(graph, nu, TripleTo(node, field, e.right)) = {})
              /\ node \notin DOMAIN nu /\ AddsOptional(acc, c) => Holds(graph, nu, g)
  <2>1. /\ lacks.kind = "lacks"
        /\ \A nu : SimpleHolds(graph, nu, lacks)
                     <=> Matches(graph, nu, TripleTo(node, field, e.right)) = {}
    BY FiltersHold
  <2> HIDE DEF lacks
  <2>2. \A nu : /\ Holds(graph, nu, lacks) <=> SimpleHolds(graph, nu, lacks)
                /\ Holds(graph, nu, guarded) <=>
                     node \notin DOMAIN nu \/ SimpleHolds(graph, nu, lacks)
    BY <2>1, FiltersHold
  <2> HIDE DEF guarded
  <2> QED
    BY <2>1, <2>2
<1> HIDE DEF lacks, guarded, g
<1>4. /\ DOMAIN d = StateFields /\ d.group = c.group /\ d.filters = Append(c.filters, g)
      /\ d.joins = c.joins /\ d.next = c.next
  BY <1>1, <1>2 DEF StateFields
<1>5. c.group = c.group \o els
  BY <1>1, ConcatEmptySeq DEF IsSeq
<1>6. \A mu : Onward(mu, els) = {mu} /\ IsSeq(els)
  BY OnwardNone
<1> HIDE DEF els
<1>7. ASSUME NEW nu, node \in DOMAIN nu
      PROVE  Matches(graph, nu, TripleTo(node, field, e.right)) = {}
               <=> e.right \notin KeyValues(nu[node], e.left)
  <2>1. ASSUME NEW pi \in Matches(graph, nu, TripleTo(node, field, e.right))
        PROVE  e.right \in KeyValues(nu[node], e.left)
    <3>1. MatchesConstant(pi, nu, node, field, e.right)
      BY MatchFollows
    <3> QED
      BY <1>7, <3>1 DEF MatchesConstant, Extends, KeyValues
  <2>2. ASSUME e.right \in KeyValues(nu[node], e.left)
        PROVE  nu \in Matches(graph, nu, TripleTo(node, field, e.right))
    <3>1. PICK u \in graph : u[1] = nu[node] /\ u[2] = field /\ u[3] = e.right
      BY <2>2 DEF KeyValues
    <3> QED
      BY <1>7, <3>1, ConstantMatches
  <2> QED
    BY <2>1, <2>2
<1>8. KeyValues(None, e.left) = {}
  BY GraphAssumption DEF KeyValues
<1>9. node \notin Fresh(free, d.next)
  <2>1. ~(node >= c.next)
    BY <1>1
  <2> QED
    BY <1>4, <2>1 DEF Fresh
<1>10. ASSUME NEW mu \in At(T, c.group, r), NEW f \in Paths(r, DOMAIN c.joins), Stands(mu, c.joins, f)
       PROVE  /\ Settled(mu, g, NodesOf(d), Fresh(free, d.next))
              /\ Holds(graph, mu, g) <=> CompareMeans(e, f[path])
  <2>1. CompareMeans(e, f[path]) <=> e.right \notin KeyValues(f[path], e.left)
    BY CompareSays DEF Ordered
  <2>2. CASE f[path] # None
    <3>1. node \in DOMAIN mu /\ mu[node] = f[path]
      BY <1>10, <2>2 DEF Stands
    <3>2. \A pi : Extends(pi, mu) => (Holds(graph, pi, g) <=> e.right \notin KeyValues(f[path], e.left))
      BY <1>3, <1>7, <3>1 DEF Extends
    <3>3. Extends(mu, mu)
      BY DEF Extends
    <3> QED
      BY <2>1, <3>2, <3>3, SettledAs
  <2>3. CASE f[path] = None
    <3>1. node \notin DOMAIN mu
      BY <1>10, <2>3 DEF Stands
    <3>2. AddsOptional(acc, c)
      BY <1>10, <2>3, NodeHere
    <3>3. Holds(graph, mu, g) /\ CompareMeans(e, f[path])
      BY <1>3, <1>8, <2>1, <2>3, <3>1, <3>2
    <3>4. \A pi : Widens(pi, mu, Fresh(free, d.next)) => Holds(graph, pi, g)
      BY <1>3, <1>9, <3>1, <3>2 DEF Widens
    <3> QED
      BY <3>3, <3>4 DEF Settled
  <2> QED
    BY <2>2, <2>3
<1>11. ASSUME NEW mu \in At(T, c.group, r) PROVE StaysOn(mu, free, r, c, d, els, {g}, {e})
  <2> SUFFICES ASSUME NEW f \in Paths(r, DOMAIN c.joins), Stands(mu, c.joins, f)
               PROVE  /\ Settled(mu, g, NodesOf(d), Fresh(free, d.next))
                      /\ Holds(graph, mu, g) <=> SayAll(r, {e}, f)
    <3>1. Onward(mu, els) = {mu}
      BY <1>6
    <3> QED
      BY <3>1 DEF StaysOn
  <2> QED
    BY <1>10, SaysCompare
<1>12. \A mu \in From(T, c.group) : \A nu \in Onward(mu, els) : Extends(nu, mu)
  BY <1>6 DEF Extends
<1>13. d.next \in Nat /\ d.next >= c.next /\ c.next .. d.next - 1 \subseteq free
  <2>1. c.next .. c.next - 1 = {}
    BY <1>1
  <2> QED
    BY <1>1, <1>4, <2>1
<1>14. IsSeq(d.filters) /\ FiltersOf(d) = FiltersOf(c) \cup {g}
  <2>1. AddsFilter(c, d, g)
    BY <1>1, <1>4 DEF AddsFilter
  <2> QED
    BY <2>1, OneFilter
<1>15. Stays(T, free, r, c, d, els, {g}, {e})
  BY <1>4, <1>5, <1>6, <1>11, <1>12, <1>13, <1>14, SaysCompare DEF Stays
<1> QED
  BY <1>15

LEMMA PresenceStays ==
  ASSUME graph \in Graphs, NEW T, NEW free, NEW r, NEW R, NEW acc, NEW c, NEW E,
         Model(T, free, r, R, c, E), NEW e, e.kind = "compare", e.op \in {"is", "is_not"},
         e.left.path \in DOMAIN c.joins, FullyLinked(r, e.left.path),
         NEW d, d = CompileFollowed(acc, c, Class, e, query.use_not_exists_for_ne),
         c.next .. d.next - 1 \subseteq free
  PROVE  \E els, G : Stays(T, free, r, c, d, els, G, {e})
<1> DEFINE path == e.left.path
           field == e.left.field
           node == c.joins[path]
           x == c.next
           rel == Schema[ClassAt(Class, path)].links[field]
           hop == HopPatterns(node, field, x, rel)
           t == Optional(hop)
           els == <<t>>
           g == IF e.op = "is" THEN NotBoundF(x) ELSE BoundF(x)
           linked(n) == Linked(n, field, rel)
           hopped(mu) == Hopped(mu, node, field, x, rel)
<1>1. /\ DOMAIN c = StateFields /\ IsSeq(c.group) /\ IsSeq(c.filters) /\ c.next \in Nat
      /\ free \subseteq Nat /\ node \in 0 .. c.next - 1 /\ path \in Path
      /\ \A p \in DOMAIN c.joins : c.joins[p] \in 0 .. c.next - 1
  BY ModelFacts DEF Closed
<1>2. d = [c EXCEPT !.group = Append(@, t), !.filters = Append(@, g), !.next = @ + 1]
  BY DEF CompileFollowed, CompilePresence
<1>3. \A nu : Holds(graph, nu, g) <=> (x \in DOMAIN nu <=> e.op = "is_not")
  <2>1. CASE e.op = "is"
    <3>1. g.kind = "unbound" /\ \A nu : SimpleHolds(graph, nu, g) <=> x \notin DOMAIN nu
      BY <2>1, FiltersHold
    <3> HIDE DEF g
    <3> QED
      BY <2>1, <3>1, FiltersHold
  <2>2. CASE e.op = "is_not"
    <3>1. g.kind = "bound" /\ \A nu : SimpleHolds(graph, nu, g) <=> x \in DOMAIN nu
      BY <2>2, FiltersHold
    <3> HIDE DEF g
    <3> QED
      BY <2>2, <3>1, FiltersHold
  <2> QED
    BY <2>1, <2>2
<1>4. rel = RelAt(Append(path, field))
  BY <1>1, AppendEnds DEF RelAt
<1>5. ASSUME NEW n PROVE CompareMeans(e, n) <=> (linked(n) # {} <=> e.op = "is_not")
  BY <1>4, CompareSays
<1>6. \A mu : Onward(mu, els) = (IF hopped(mu) = {} THEN {mu} ELSE hopped(mu)) /\ IsSeq(els)
  <2> TAKE mu
  <2>1. Onward(mu, <<Optional(hop)>>) = LeftJoin(graph, mu, hop) /\ IsSeq(<<Optional(hop)>>)
    BY OnwardOne, AfterPattern
  <2>2. LeftJoin(graph, mu, hop) = IF hopped(mu) = {} THEN {mu} ELSE hopped(mu)
    BY DEF LeftJoin, Hopped
  <2> HIDE DEF hop, hopped
  <2> QED
    BY <2>1, <2>2
<1>7. \A mu : \A nu \in hopped(mu) : Arrives(nu, mu, node, field, x, rel)
  BY HoppedLinks
<1>8. \A mu : node \in DOMAIN mu /\ x \notin DOMAIN mu /\ linked(mu[node]) # {} => hopped(mu) # {}
  BY HoppedExists
<1> HIDE DEF t, g, els, linked, hopped, rel, hop
<1>9. /\ DOMAIN d = StateFields /\ d.group = Append(c.group, t) /\ d.filters = Append(c.filters, g)
      /\ d.joins = c.joins /\ d.next = x + 1
  BY <1>1, <1>2 DEF StateFields
<1>10. Append(c.group, t) = c.group \o els
  BY <1>1, AppendIsSeq DEF els
<1>11. x .. d.next - 1 = {x} /\ x \in free
  <2>1. x .. d.next - 1 = {x}
    BY <1>1, <1>9
  <2> QED
    BY <2>1
<1>12. x \notin NodesOf(d) \cup Fresh(free, d.next)
  <2>1. x \notin 0 .. c.next - 1 /\ ~(x >= d.next)
    BY <1>1, <1>9
  <2> QED
    BY <1>1, <1>9, <2>1 DEF NodesOf, Fresh
<1>13. \A nu : Settled(nu, g, NodesOf(d), Fresh(free, d.next))
  <2>1. \A nu, pi, xs : Widens(pi, nu, xs) /\ x \notin xs =>
          (Holds(graph, pi, g) <=> Holds(graph, nu, g))
    BY <1>3 DEF Widens, Extends
  <2> QED
    BY <1>12, <2>1 DEF Settled
<1>14. ASSUME NEW mu \in At(T, c.group, r), NEW f \in Paths(r, DOMAIN c.joins), Stands(mu, c.joins, f)
       PROVE  /\ \A nu \in Onward(mu, els) :
                   /\ DOMAIN nu \subseteq DOMAIN mu \cup {x}
                   /\ Settled(nu, g, NodesOf(d), Fresh(free, d.next))
                   /\ Holds(graph, nu, g) => CompareMeans(e, f[path])
              /\ CompareMeans(e, f[path]) => \E nu \in Onward(mu, els) : Holds(graph, nu, g)
  <2>1. node \in DOMAIN mu /\ mu[node] = f[path]
    BY <1>14, NodeHere
  <2>2. x \notin DOMAIN mu
    BY <1>11, WayHere
  <2>3. CompareMeans(e, f[path]) <=> (linked(mu[node]) # {} <=> e.op = "is_not")
    BY <1>5, <2>1
  <2>4. ASSUME NEW nu \in hopped(mu)
        PROVE  /\ DOMAIN nu \subseteq DOMAIN mu \cup {x} /\ x \in DOMAIN nu
               /\ linked(mu[node]) # {}
    <3>1. Arrives(nu, mu, node, field, x, rel)
      BY <1>7
    <3> QED
      BY <2>1, <3>1 DEF Arrives, Extends, linked
  <2>5. linked(mu[node]) # {} <=> hopped(mu) # {}
    BY <1>8, <2>1, <2>2, <2>4
  <2>6. ASSUME NEW nu \in Onward(mu, els)
        PROVE  DOMAIN nu \subseteq DOMAIN mu \cup {x} /\ (x \in DOMAIN nu <=> linked(mu[node]) # {})
    <3>1. CASE hopped(mu) = {}
      BY <1>6, <2>2, <2>5, <3>1
    <3>2. CASE hopped(mu) # {}
      BY <1>6, <2>4, <3>2
    <3> QED
      BY <3>1, <3>2
  <2>7. Onward(mu, els) # {}
    BY <1>6
  <2>8. ASSUME NEW nu \in Onward(mu, els) PROVE Holds(graph, nu, g) <=> CompareMeans(e, f[path])
    BY <1>3, <2>3, <2>6
  <2> QED
    BY <1>13, <2>6, <2>7, <2>8
<1>15. \A mu \in At(T, c.group, r) : StaysOn(mu, free, r, c, d, els, {g}, {e})
  <2>1. c.next .. d.next - 1 = {x} /\ \A f : SayAll(r, {e}, f) <=> CompareMeans(e, f[path])
    BY <1>11, SaysCompare
  <2> HIDE DEF x, path
  <2> QED
    BY <1>14, <2>1 DEF StaysOn
<1>16. \A mu \in From(T, c.group) : \A nu \in Onward(mu, els) : Extends(nu, mu)
  <2>1. \A mu : Extends(mu, mu) /\ \A nu \in hopped(mu) : Extends(nu, mu)
    <3>1. \A mu : \A nu \in hopped(mu) : Extends(nu, mu)
      BY <1>7, Zenon DEF Arrives
    <3> QED
      BY <3>1 DEF Extends
  <2> QED
    BY <1>6, <2>1
<1>17. d.next \in Nat /\ d.next >= c.next
  BY <1>1, <1>9
<1>18. IsSeq(d.filters) /\ FiltersOf(d) = FiltersOf(c) \cup {g}
  <2>1. AddsFilter(c, d, g)
    BY <1>1, <1>9 DEF AddsFilter
  <2> QED
    BY <2>1, OneFilter
<1>19. Stays(T, free, r, c, d, els, {g}, {e})
  BY <1>6, <1>9, <1>10, <1>15, <1>16, <1>17, <1>18, SaysCompare DEF Stays
<1> QED
  BY <1>19

\* A link that may be missing is followed in an OPTIONAL block.
LEMMA OptionalHop ==
  ASSUME NEW acc, Shape(acc), NEW p \in Path, Len(p) = 1, p \notin DOMAIN acc.joins,
         NEW r \in Subjects, ClassAt(Class, p) # None, ~FullyLinked(r, p), graph \in Graphs
  PROVE  AddsOptional(acc, FollowPath(acc, Class, p)) /\ FullyLinked(r, Front(p))
<1>1. PICK link \in Field : p = Append(<<>>, link)
  <2>0. Len(<<>>) = 0
    OBVIOUS
  <2>1. p \in Seq(Field)
    BY DEF Path
  <2>2. PICK q \in Seq(Field), link \in Field : p = Append(q, link)
    <3>1. p # <<>>
      BY <2>0
    <3> QED
      BY <2>1, <3>1, SequenceEmptyOrAppend
  <2>3. Len(Append(q, link)) = Len(q) + 1 /\ Len(q) \in Nat
    BY AppendProperties, LenProperties
  <2>4. Len(q) = 0
    BY <2>2, <2>3
  <2>5. q = <<>>
    BY <2>4
  <2> QED
    BY <2>2, <2>5
<1> DEFINE none == <<>>
           node == acc.joins[none]
           rel == RelAt(p)
           els == HopElements(node, link, acc.next, rel)
           c == FollowPath(acc, Class, p)
<1>2. none \in Path /\ none \in DOMAIN acc.joins /\ DOMAIN acc = StateFields /\ IsSeq(acc.group)
  BY EmptyPath DEF Shape
<1>3. FollowPath(acc, Class, none) = acc /\ Prefixes(none) = {none} /\ p = Append(none, link)
  BY <1>1, FollowEach, EmptyPath
<1> HIDE DEF none
<1>4. c.group = acc.group \o els
  <2>1. FollowPath(acc, Class, Append(none, link)) = FollowStep(acc, Append(none, link))
    BY <1>2, <1>3, FollowEach
  <2>2. FollowStep(acc, p) = Hop(acc, Class, p)
    BY DEF FollowStep
  <2>3. Hop(acc, Class, Append(none, link)).group
          = acc.group \o HopElements(acc.joins[none], link, acc.next, RelAt(Append(none, link)))
    <3> HIDE DEF node, rel, els
    <3> QED
      BY <1>2, HopState
  <2> QED
    BY <1>3, <2>1, <2>2, <2>3
<1>5. Front(p) = none /\ Prefixes(p) = {none, p}
  BY <1>2, <1>3, PathAppend
<1>6. FullyLinked(r, none)
  BY SubjectsKnown DEF none
<1>7. rel.nullable
  <2>1. PICK q \in Prefixes(p) : \E f \in Paths(r, Prefixes(q)) : f[q] = None
    BY DEF FullyLinked
  <2>2. q = p
    BY <1>2, <1>3, <1>5, <1>6, <2>1, PrefixesOfPath DEF FullyLinked
  <2>3. PICK f \in Paths(r, Prefixes(p)) : f[p] = None
    BY <2>1, <2>2, Zenon
  <2>4. None \in Targets(f[none], p)
    <3>1. p \in Prefixes(p)
      BY <1>5
    <3> QED
      BY <1>2, <1>3, <2>3, <3>1, LastHop
  <2>5. \A n : None \notin Linked(n, link, rel)
    BY GraphAssumption DEF Linked
  <2>6. Targets(f[none], p) = IF Linked(f[none], link, rel) = {} /\ rel.nullable
                              THEN {None} ELSE Linked(f[none], link, rel)
    BY <1>2, <1>3, TargetsKnown
  <2> HIDE DEF rel, none
  <2> QED
    BY <2>4, <2>5, <2>6
<1> DEFINE o == Optional(HopPatterns(node, link, acc.next, rel))
<1>8. els = <<o>> /\ o.kind = "optional"
  BY <1>7 DEF HopElements, Optional
<1> HIDE DEF els, o
<1>9. c.group = Append(acc.group, o)
  BY <1>2, <1>4, <1>8, AppendIsSeq
<1>10. PICK S : acc.group \in Seq(S) /\ o \in S
  BY <1>2, AppendIsSeq
<1>11. /\ Len(c.group) = Len(acc.group) + 1 /\ c.group[Len(acc.group) + 1] = o
       /\ Len(acc.group) \in Nat
  BY <1>9, <1>10, AppendProperties, LenProperties
<1> HIDE DEF c
<1>12. AddsOptional(acc, c)
  BY <1>8, <1>11 DEF AddsOptional
<1> QED
  BY <1>5, <1>6, <1>12 DEF c, none

\* The root's links along the path of e suffice for e, compiled on from joins.
Suffices(r, e, joins) ==
  \/ FullyLinked(r, e.left.path)
  \/ /\ e.kind = "compare" /\ e.op = "ne" /\ ~Ordered(e, query.use_not_exists_for_ne)
     /\ Len(e.left.path) = 1 /\ e.left.path \notin joins

\* Compiling e on from acc, for solutions with root r.
Takes(T, free, r, R, acc, E, e) ==
  /\ Model(T, free, r, R, acc, E) /\ e.kind = "compare" /\ e.left.path \in Path
  /\ ClassAt(Class, e.left.path) # None /\ Suffices(r, e, DOMAIN acc.joins)
  /\ acc.next .. CompareStep(acc, e).next - 1 \subseteq free

Taken(T, free, r, R, acc, E, e) ==
  /\ Model(T, free, r, R, CompareStep(acc, e), E \cup {e})
  /\ DOMAIN CompareStep(acc, e).joins = DOMAIN acc.joins \cup Prefixes(e.left.path)

LEMMA CompareModel ==
  ASSUME graph \in Graphs, NEW r \in Subjects
  PROVE  \A T, free, R, acc, E, e :
           Takes(T, free, r, R, acc, E, e) => Taken(T, free, r, R, acc, E, e)
<1> SUFFICES ASSUME NEW T, NEW free, NEW R, NEW acc, NEW E, NEW e, Takes(T, free, r, R, acc, E, e)
             PROVE  Taken(T, free, r, R, acc, E, e)
  OBVIOUS
<1>0. /\ Model(T, free, r, R, acc, E) /\ e.kind = "compare" /\ e.left.path \in Path
      /\ ClassAt(Class, e.left.path) # None /\ Suffices(r, e, DOMAIN acc.joins)
      /\ acc.next .. CompareStep(acc, e).next - 1 \subseteq free
  BY DEF Takes
<1> USE <1>0
<1> DEFINE path == e.left.path
           c == FollowPath(acc, Class, path)
           d == CompareStep(acc, e)
<1>1. d = CompileFollowed(acc, c, Class, e, query.use_not_exists_for_ne)
  BY DEF CompareStep, CompileCompare
<1>2. Shape(acc) /\ DOMAIN acc = StateFields /\ acc.next \in Nat
  BY DEF Model, Shape
<1>3. DOMAIN c = StateFields /\ c.next \in Nat /\ c.next >= acc.next
  BY <1>2, FollowLater DEF Later
<1>4. Adding(c, d, c.joins[path])
  BY <1>1, <1>3, FollowedAdds
<1>5. d.joins = c.joins /\ d.next \in Nat /\ d.next >= c.next
  BY <1>3, <1>4, AddingLater DEF Adding, Later
<1>6. path = <<>> \/ FullyLinked(r, Front(path))
  <2>1. CASE FullyLinked(r, path)
    <3>1. path = <<>> \/ Front(path) \in Prefixes(path)
      BY PrefixesOfPath, FrontOfPrefix
    <3> QED
      BY <2>1, <3>1, LinkedBefore
  <2>2. CASE ~FullyLinked(r, path)
    BY <1>2, <2>2, OptionalHop DEF Suffices
  <2> QED
    BY <2>1, <2>2
<1>7. FullyLinked(r, path) \/ (AddsOptional(acc, c) /\ e.op = "ne" /\ ~Ordered(e, query.use_not_exists_for_ne))
  BY <1>2, OptionalHop DEF Suffices
<1> HIDE DEF c, d
<1>8. acc.next .. c.next - 1 \subseteq free /\ c.next .. d.next - 1 \subseteq free
  <2>1. /\ acc.next .. c.next - 1 \subseteq acc.next .. d.next - 1
        /\ c.next .. d.next - 1 \subseteq acc.next .. d.next - 1
    BY <1>2, <1>3, <1>5
  <2> QED
    BY <2>1 DEF d
<1>9. Tracks(T, free, r, R, acc, path, E)
  BY <1>6, <1>8 DEF Tracks, c
<1>10. Model(T, free, r, R, c, E) /\ DOMAIN c.joins = DOMAIN acc.joins \cup Prefixes(path)
  BY <1>9, FollowModel DEF c
<1>11. path \in DOMAIN c.joins
  BY <1>10, PrefixesOfPath
<1>12. \E els, G : Stays(T, free, r, c, d, els, G, {e})
  <2>1. CASE e.op \in {"is", "is_not"}
    BY <1>1, <1>7, <1>8, <1>10, <1>11, <2>1, PresenceStays
  <2>2. CASE e.op = "eq"
    BY <1>1, <1>7, <1>10, <1>11, <2>2, EqStays
  <2>3. CASE Ordered(e, query.use_not_exists_for_ne)
    BY <1>1, <1>7, <1>8, <1>10, <1>11, <2>3, OrderedStays
  <2>4. CASE e.op = "ne" /\ ~Ordered(e, query.use_not_exists_for_ne)
    BY <1>1, <1>7, <1>10, <1>11, <2>4, LacksStays
  <2> QED
    BY <2>1, <2>2, <2>3, <2>4 DEF Ordered
<1>13. Model(T, free, r, R, d, E \cup {e})
  BY <1>10, <1>12, ModelStays
<1> QED
  BY <1>5, <1>10, <1>13 DEF d, Taken

-----------------------------------------------------------------------------
(* EXISTS blocks: a conjunction holds of a solution's root if its block    *)
(* holds of the solution                                                   *)

\* Every path of parts is linked, or followed by a comparison that can do without.
Fits(r, parts) ==
  \A i \in DOMAIN parts : FullyLinked(r, parts[i].left.path) \/ KeepsUnbound(parts, i)

PartsOf(s) == {s[i] : i \in DOMAIN s}

LEMMA AppendParts ==
  ASSUME NEW S, NEW s \in Seq(S), NEW e \in S
  PROVE  /\ PartsOf(<<>>) = {} /\ PartsOf(Append(s, e)) = PartsOf(s) \cup {e}
         /\ PathsOf(<<>>) = {<<>>} /\ PathsOf(Append(s, e)) = PathsOf(s) \cup Prefixes(e.left.path)
<1>1. /\ Len(s) \in Nat /\ DOMAIN s = 1 .. Len(s) /\ DOMAIN Append(s, e) = 1 .. Len(s) + 1
      /\ \A i \in DOMAIN s : Append(s, e)[i] = s[i]
      /\ Append(s, e)[Len(s) + 1] = e
  BY AppendProperties, LenProperties
<1>2. DOMAIN <<>> = {}
  OBVIOUS
<1> DEFINE t == Append(s, e)
<1> HIDE DEF t
<1>3. DOMAIN t = DOMAIN s \cup {Len(s) + 1} /\ \A i \in DOMAIN s : t[i] = s[i]
  BY <1>1 DEF t
<1>4. t[Len(s) + 1] = e
  BY <1>1 DEF t
<1>5. PartsOf(t) = PartsOf(s) \cup {e}
  BY <1>3, <1>4 DEF PartsOf
<1>6. PathsOf(t) = PathsOf(s) \cup Prefixes(e.left.path)
  BY <1>3, <1>4 DEF PathsOf
<1> QED
  BY <1>2, <1>5, <1>6 DEF t, PartsOf, PathsOf

\* Parts that fit do so up to any of them, and the next one can be compiled.
LEMMA FitsBefore ==
  ASSUME NEW S, NEW s \in Seq(S), NEW e \in S, NEW r, Fits(r, Append(s, e))
  PROVE  Fits(r, s) /\ Suffices(r, e, PathsOf(s))
<1> DEFINE t == Append(s, e)
           n == Len(s) + 1
<1>1. /\ Len(s) \in Nat /\ DOMAIN s = 1 .. Len(s) /\ DOMAIN t = 1 .. n
      /\ \A i \in DOMAIN s : t[i] = s[i]
      /\ t[n] = e
  BY AppendProperties, LenProperties
<1>2. DOMAIN t = DOMAIN s \cup {n} /\ n \notin DOMAIN s
  BY <1>1
<1> HIDE DEF t, n
<1>3. ASSUME NEW i \in DOMAIN s, KeepsUnbound(t, i) PROVE KeepsUnbound(s, i)
  <2>1. t[i] = s[i] /\ \A j \in DOMAIN s : t[j] = s[j] /\ j \in DOMAIN t
    BY <1>1, <1>2
  <2> QED
    BY <1>3, <2>1 DEF KeepsUnbound
<1>4. Fits(r, s)
  <2>1. \A i \in DOMAIN s : FullyLinked(r, t[i].left.path) \/ KeepsUnbound(t, i)
    BY <1>2 DEF Fits, t
  <2> QED
    BY <1>1, <1>3, <2>1 DEF Fits
<1>5. ASSUME KeepsUnbound(t, n)
      PROVE  /\ e.kind = "compare" /\ e.op = "ne" /\ ~Ordered(e, query.use_not_exists_for_ne)
             /\ Len(e.left.path) = 1 /\ e.left.path \notin PathsOf(s)
  <2>1. e.kind = "compare" /\ e.op = "ne" /\ Len(e.left.path) = 1
    BY <1>1, <1>5 DEF KeepsUnbound
  <2>2. ~Ordered(e, query.use_not_exists_for_ne)
    BY <1>1, <1>5 DEF KeepsUnbound, Ordered
  <2>3. \A j \in DOMAIN s : e.left.path \notin PathsOf(<<s[j]>>)
    BY <1>1, <1>2, <1>5 DEF KeepsUnbound
  <2>4. \A a : PathsOf(<<a>>) = {<<>>} \cup Prefixes(a.left.path)
    BY DEF PathsOf
  <2>5. e.left.path # <<>>
    <3>1. Len(<<>>) # 1
      OBVIOUS
    <3>2. \A p : Len(p) = 1 => p # <<>>
      BY <3>1, Zenon
    <3> QED
      BY <2>1, <3>2, Zenon
  <2>6. \A j \in DOMAIN s : e.left.path \notin Prefixes(s[j].left.path)
    BY <2>3, <2>4
  <2>7. e.left.path \notin PathsOf(s)
    BY <2>5, <2>6 DEF PathsOf
  <2> QED
    BY <2>1, <2>2, <2>7
<1>6. FullyLinked(r, e.left.path) \/ KeepsUnbound(t, n)
  <2>1. n \in DOMAIN t /\ Fits(r, t)
    BY <1>2 DEF t
  <2> QED
    BY <1>1, <2>1 DEF Fits
<1> QED
  BY <1>4, <1>5, <1>6 DEF Suffices

LEMMA StartShape ==
  ASSUME NEW n \in Nat, n > 0
  PROVE  /\ Shape(Start(n)) /\ Start(n).next = n /\ DOMAIN Start(n).joins = {<<>>}
         /\ Start(n).joins[<<>>] = Root /\ Start(n).group = <<>> /\ Start(n).filters = <<>>
<1> DEFINE joins == [p \in {<<>>} |-> Root]
<1>1. DOMAIN joins = {<<>>} /\ joins[<<>>] = Root
  OBVIOUS
<1>2. 0 \in 0 .. n - 1 /\ IsSeq(<<>>)
  BY OnwardNone
<1>3. <<>> \in Path /\ Prefixes(<<>>) = {<<>>}
  BY EmptyPath
<1>4. /\ DOMAIN Start(n) = StateFields /\ Start(n).joins = joins /\ Start(n).next = n
      /\ Start(n).group = <<>> /\ Start(n).filters = <<>>
  BY DEF Start, StateFields
<1> HIDE DEF joins
<1>5. \A p \in {<<>>} : p \in Path /\ Prefixes(p) \subseteq {<<>>} /\ joins[p] \in 0 .. n - 1
  BY <1>1, <1>2, <1>3 DEF Root
<1> QED
  BY <1>1, <1>2, <1>4, <1>5 DEF Shape

\* A block starts from the solution alone.
LEMMA StartModel ==
  ASSUME graph \in Graphs, NEW r \in Subjects, NEW mu, Root \in DOMAIN mu, mu[Root] = r,
         NEW n \in Nat, n > 0, NEW free, free \subseteq Nat, DOMAIN mu \cap Fresh(free, n) = {}
  PROVE  Model({mu}, free, r, {r}, Start(n), {})
<1> DEFINE c == Start(n)
<1>1. /\ Shape(c) /\ c.next = n /\ DOMAIN c.joins = {<<>>} /\ c.joins[<<>>] = Root
      /\ c.group = <<>> /\ c.filters = <<>>
  BY StartShape
<1> HIDE DEF c
<1>2. From({mu}, c.group) = {mu} /\ At({mu}, c.group, r) = {mu}
  BY <1>1, FromNone DEF At
<1>3. IsSeq(c.filters) /\ FiltersOf(c) = {}
  BY <1>1, OnwardNone DEF FiltersOf
<1>4. \A f \in Paths(r, {<<>>}) : f[<<>>] = r
  BY DEF Paths
<1>5. r # None
  BY SubjectsKnown
<1>6. \A f \in Paths(r, DOMAIN c.joins) : Stands(mu, c.joins, f)
  BY <1>1, <1>4, <1>5 DEF Stands
<1>7. Paths(r, DOMAIN c.joins) # {}
  <2>1. r \in Resources /\ Prefixes(<<>>) = {<<>>}
    BY SubjectsAreResources, EmptyPath
  <2> QED
    BY <1>1, <2>1, WayOfRoot
<1>8. Standing(mu, free, r, {r}, c, {})
  BY <1>1, <1>3, <1>6, <1>7 DEF Standing, SayAll
<1>9. Extends(mu, mu)
  BY DEF Extends
<1> QED
  BY <1>1, <1>2, <1>3, <1>6, <1>8, <1>9 DEF Model, AllHold, c

\* Filters of what a solution binds.
PlainFilters(c) == IsSeq(c.filters) /\ \A g \in FiltersOf(c) : Plain(g)

LEMMA PlainAppended ==
  \A c, d, g : PlainFilters(c) /\ d.filters = Append(c.filters, g) /\ Plain(g) => PlainFilters(d)
<1> SUFFICES ASSUME NEW c, NEW d, NEW g, PlainFilters(c), d.filters = Append(c.filters, g), Plain(g)
             PROVE  PlainFilters(d)
  OBVIOUS
<1>1. AddsFilter(c, d, g)
  BY DEF AddsFilter, PlainFilters
<1>2. IsSeq(d.filters) /\ FiltersOf(d) = FiltersOf(c) \cup {g}
  BY <1>1, OneFilter
<1> QED
  BY <1>2 DEF PlainFilters

LEMMA PlainCompare ==
  ASSUME NEW acc, DOMAIN acc = StateFields, acc.next \in Nat, PlainFilters(acc), NEW e,
         e.left.path \in Path
  PROVE  PlainFilters(CompareStep(acc, e))
<1> DEFINE c == FollowPath(acc, Class, e.left.path)
           node == c.joins[e.left.path]
           d == CompareStep(acc, e)
           lacks == LacksF(node, e.left.field, e.right)
           compared == CompareF(c.next, e.op, e.right)
           guarded(f) == EitherF(NotBoundF(node), f)
<1>1. c.filters = acc.filters /\ DOMAIN c = StateFields
  BY FollowFilters, FollowLater DEF Later
<1>2. PlainFilters(c)
  BY <1>1 DEF PlainFilters, FiltersOf
<1>3. d = CompileFollowed(acc, c, Class, e, query.use_not_exists_for_ne)
  BY DEF CompareStep, CompileCompare
<1>4. \/ d.filters = c.filters
      \/ \E g \in {lacks, compared, guarded(lacks), guarded(compared),
                   NotBoundF(c.next), BoundF(c.next)} : d.filters = Append(c.filters, g)
  <2> HIDE DEF c
  <2> DEFINE added(x) == [c EXCEPT !.filters = x]
  <2>1. CASE e.op \in {"is", "is_not"}
    BY <1>1, <1>3, <2>1 DEF CompileFollowed, CompilePresence, StateFields
  <2>2. CASE e.op = "eq"
    BY <1>1, <1>3, <2>2 DEF CompileFollowed, StateFields
  <2>3. CASE e.op = "in"
    BY <1>1, <1>3, <2>3 DEF CompileFollowed, StateFields
  <2>4. CASE e.op \notin {"is", "is_not", "eq", "in"}
    BY <1>1, <1>3, <2>4 DEF CompileFollowed, StateFields
  <2> QED
    BY <2>1, <2>2, <2>3, <2>4
<1>5. /\ lacks.kind = "lacks" /\ compared.kind = "compare"
      /\ NotBoundF(c.next).kind = "unbound" /\ BoundF(c.next).kind = "bound"
  BY DEF LacksF, CompareF, NotBoundF, BoundF
<1>6. /\ Plain(lacks) /\ Plain(compared) /\ Plain(NotBoundF(c.next)) /\ Plain(BoundF(c.next))
      /\ Plain(guarded(lacks)) /\ Plain(guarded(compared))
  <2> HIDE DEF lacks, compared, c
  <2>1. \A f : Plain(EitherF(NotBoundF(node), f))
    BY DEF Plain, EitherF
  <2> QED
    BY <1>5, <2>1 DEF Plain
<1> HIDE DEF lacks, compared, guarded, c, d
<1> QED
  BY <1>2, <1>4, <1>6, PlainAppended DEF PlainFilters, FiltersOf, d

\* Comparisons of fields that there are.
Answerable(S) ==
  \A e \in S : e.kind = "compare" /\ e.left.path \in Path /\ ClassAt(Class, e.left.path) # None

\* What is compiled of a conjunction of comparisons means it.
LEMMA ComparesModel ==
  ASSUME graph \in Graphs, NEW T, NEW free, NEW r \in Subjects, NEW R,
         NEW first, Model(T, free, r, R, first, {}), DOMAIN first.joins = {<<>>},
         PlainFilters(first), NEW S, Answerable(S), NEW compares \in Seq(S), Fits(r, compares),
         first.next .. Comparing!Result(first, compares).next - 1 \subseteq free
  PROVE  LET c == Comparing!Result(first, compares)
         IN  /\ Model(T, free, r, R, c, PartsOf(compares)) /\ PlainFilters(c)
             /\ DOMAIN c.joins = PathsOf(compares)
<1> DEFINE F(s) == Comparing!Result(first, s)
<1>1. DOMAIN first = StateFields /\ first.next \in Nat
  BY ModelFacts
<1> DEFINE N == {s \in Seq(S) :
             /\ DOMAIN F(s) = StateFields /\ F(s).next \in Nat /\ F(s).next >= first.next
             /\ PlainFilters(F(s))
             /\ Fits(r, s) /\ first.next .. F(s).next - 1 \subseteq free =>
                  /\ Model(T, free, r, R, F(s), PartsOf(s))
                  /\ DOMAIN F(s).joins = PathsOf(s)}
<1>2. <<>> \in N
  <2>1. F(<<>>) = first
    BY Comparing!FoldEmpty
  <2>2. PartsOf(<<>>) = {} /\ PathsOf(<<>>) = {<<>>}
    BY DEF PartsOf, PathsOf
  <2> HIDE DEF F
  <2>3. <<>> \in Seq(S)
    BY EmptySeq
  <2>4. /\ DOMAIN F(<<>>) = StateFields /\ F(<<>>).next \in Nat /\ F(<<>>).next >= first.next
        /\ PlainFilters(F(<<>>))
    BY <1>1, <2>1
  <2>5. /\ Model(T, free, r, R, F(<<>>), PartsOf(<<>>))
        /\ DOMAIN F(<<>>).joins = PathsOf(<<>>)
    BY <2>1, <2>2
  <2> QED
    BY <2>3, <2>4, <2>5
<1>3. ASSUME NEW s \in Seq(S), NEW e \in S, s \in N PROVE Append(s, e) \in N
  <2> DEFINE t == Append(s, e)
             c == F(s)
             d == F(t)
  <2>1. d = CompareStep(c, e)
    BY Comparing!FoldAppend
  <2>2. /\ t \in Seq(S) /\ PartsOf(t) = PartsOf(s) \cup {e}
        /\ PathsOf(t) = PathsOf(s) \cup Prefixes(e.left.path)
    <3>1. t \in Seq(S)
      BY AppendProperties
    <3> QED
      BY <3>1, AppendParts
  <2>3. e.kind = "compare" /\ e.left.path \in Path /\ ClassAt(Class, e.left.path) # None
    BY DEF Answerable
  <2>4. /\ DOMAIN c = StateFields /\ c.next \in Nat /\ c.next >= first.next /\ PlainFilters(c)
        /\ Fits(r, s) /\ first.next .. c.next - 1 \subseteq free =>
             Model(T, free, r, R, c, PartsOf(s)) /\ DOMAIN c.joins = PathsOf(s)
    BY <1>3
  <2> HIDE DEF F
  <2>5. Fits(r, t) => Fits(r, s) /\ Suffices(r, e, PathsOf(s))
    BY FitsBefore
  <2> HIDE DEF c, d, t
  <2>6. DOMAIN d = StateFields /\ d.next \in Nat /\ d.next >= c.next
    BY <2>1, <2>3, <2>4, CompareLater DEF CompareStep, Later
  <2>7. PlainFilters(d)
    BY <2>1, <2>3, <2>4, PlainCompare
  <2>8. ASSUME Fits(r, t), first.next .. d.next - 1 \subseteq free
        PROVE  Model(T, free, r, R, d, PartsOf(t)) /\ DOMAIN d.joins = PathsOf(t)
    <3>1. first.next .. c.next - 1 \subseteq free /\ c.next .. d.next - 1 \subseteq free
      <4>1. /\ first.next .. c.next - 1 \subseteq first.next .. d.next - 1
            /\ c.next .. d.next - 1 \subseteq first.next .. d.next - 1
        BY <1>1, <2>4, <2>6
      <4> QED
        BY <2>8, <4>1
    <3>2. Model(T, free, r, R, c, PartsOf(s)) /\ DOMAIN c.joins = PathsOf(s)
      BY <2>4, <2>5, <2>8, <3>1
    <3>3. Suffices(r, e, DOMAIN c.joins)
      BY <2>5, <2>8, <3>2
    <3>4. c.next .. CompareStep(c, e).next - 1 \subseteq free
      BY <2>1, <3>1
    <3>5. /\ Model(T, free, r, R, CompareStep(c, e), PartsOf(s) \cup {e})
          /\ DOMAIN CompareStep(c, e).joins = DOMAIN c.joins \cup Prefixes(e.left.path)
      <4> DEFINE E == PartsOf(s)
      <4>1. Model(T, free, r, R, c, E)
        BY <3>2
      <4> HIDE DEF E
      <4>2. Takes(T, free, r, R, c, E, e)
        BY <2>3, <3>3, <3>4, <4>1 DEF Takes
      <4>3. /\ Model(T, free, r, R, CompareStep(c, e), E \cup {e})
            /\ DOMAIN CompareStep(c, e).joins = DOMAIN c.joins \cup Prefixes(e.left.path)
        <5>1. Taken(T, free, r, R, c, E, e)
          BY <4>2, CompareModel
        <5> QED
          BY <5>1 DEF Taken
      <4> QED
        BY <4>3 DEF E
    <3> QED
      BY <2>1, <2>2, <3>2, <3>5
  <2>9. d.next >= first.next
    BY <1>1, <2>4, <2>6
  <2> QED
    BY <2>2, <2>6, <2>7, <2>8, <2>9 DEF d, t
<1> HIDE DEF N
<1>4. Seq(S) \subseteq N
  BY <1>2, <1>3, SeqSet
<1>5. compares \in N
  BY <1>4
<1> QED
  BY <1>5 DEF N

Block(d, compares) == ExistsBlock(d, Class, compares, query.use_not_exists_for_ne)

Conjunction(compares) == \E S : compares \in Seq(S) /\ Answerable(S)

\* The block means the conjunction for solutions that bind none of its variables.
BlockSays(block, compares, from, to) ==
  \A mu : /\ Root \in DOMAIN mu /\ mu[Root] \in Subjects /\ Fits(mu[Root], compares)
          /\ DOMAIN mu \cap (from .. to - 1) = {}
    => (ExistsHolds(graph, mu, block) <=> ConjunctionMeans(mu[Root], compares))

LEMMA BlockMeans ==
  ASSUME graph \in Graphs, NEW d, d.next \in Nat, d.next > 0, NEW compares, Conjunction(compares)
  PROVE  BlockSays(Block(d, compares).block, compares, d.next, Block(d, compares).next)
<1> DEFINE first == Start(d.next)
           c == Comparing!Result(first, compares)
           free == d.next .. c.next - 1
           made == Block(d, compares)
<1>1. made = BlockOf(c)
  BY DEF Block, ExistsBlock, CompareStep, FoldLeft, MapThenFoldSet, Max, Comparing!Result,
         Comparing!MapThenFoldSet, Comparing!Max
<1>2. PICK S : compares \in Seq(S) /\ Answerable(S)
  BY DEF Conjunction
<1>3. /\ first.next = d.next /\ DOMAIN first.joins = {<<>>} /\ first.filters = <<>>
  BY StartShape
<1>4. PlainFilters(first)
  BY <1>3, OnwardNone DEF PlainFilters, FiltersOf
<1>5. made.next = c.next /\ made.block.group = c.group /\ made.block.filters = c.filters
  BY <1>1 DEF BlockOf, ExistsF
<1> HIDE DEF made, first
<1>6. SUFFICES ASSUME NEW mu, Root \in DOMAIN mu, mu[Root] \in Subjects, Fits(mu[Root], compares),
                      DOMAIN mu \cap free = {}
               PROVE  ExistsHolds(graph, mu, made.block) <=> ConjunctionMeans(mu[Root], compares)
  BY <1>5 DEF BlockSays, made
<1> DEFINE r == mu[Root]
<1>7. free \subseteq Nat /\ \A n : DOMAIN mu \cap Fresh(free, n) = {}
  <2>1. free \subseteq Nat
    OBVIOUS
  <2> HIDE DEF free
  <2> QED
    BY <1>6, <2>1 DEF Fresh
<1>8. first.next .. c.next - 1 \subseteq free
  BY <1>3
<1> HIDE DEF free, c
<1>9. Model({mu}, free, r, {r}, first, {})
  BY <1>6, <1>7, StartModel DEF first
<1>10. /\ Model({mu}, free, r, {r}, c, PartsOf(compares)) /\ PlainFilters(c)
       /\ DOMAIN c.joins = PathsOf(compares)
  BY <1>2, <1>3, <1>4, <1>6, <1>8, <1>9, ComparesModel DEF c
<1>11. \A nu : (\A i \in DOMAIN c.filters : BasicHolds(graph, nu, c.filters[i])) <=> AllHold(nu, c)
  <2>1. \A nu : \A g \in FiltersOf(c) : Holds(graph, nu, g) <=> BasicHolds(graph, nu, g)
    BY <1>10 DEF PlainFilters, Plain, Holds
  <2> QED
    BY <2>1 DEF AllHold, FiltersOf
<1>12. ExistsHolds(graph, mu, made.block) <=> \E nu \in From({mu}, c.group) : AllHold(nu, c)
  BY <1>5, <1>11, JoinedFrom DEF ExistsHolds
<1>13. \A f \in Paths(r, PathsOf(compares)) :
         SayAll(r, PartsOf(compares), f) <=>
           \A i \in DOMAIN compares : CompareMeans(compares[i], f[compares[i].left.path])
  <2>1. \A i \in DOMAIN compares : compares[i].kind = "compare"
    BY <1>2 DEF Answerable
  <2>2. \A i \in DOMAIN compares : OfPath(compares[i])
    BY <2>1 DEF OfPath
  <2> QED
    BY <2>2 DEF SayAll, Says, PartsOf
<1>14. ConjunctionMeans(r, compares) <=>
         \E f \in Paths(r, PathsOf(compares)) : SayAll(r, PartsOf(compares), f)
  BY <1>13 DEF ConjunctionMeans
<1>15. ASSUME NEW nu \in From({mu}, c.group), AllHold(nu, c)
       PROVE  \E f \in Paths(r, PathsOf(compares)) : SayAll(r, PartsOf(compares), f)
  <2>1. Extends(nu, mu)
    BY <1>10 DEF Model
  <2>2. nu \in At({mu}, c.group, r)
    BY <1>6, <2>1 DEF At, Extends
  <2>3. Standing(nu, free, r, {r}, c, PartsOf(compares))
    BY <1>10, <2>2 DEF Model
  <2> QED
    BY <1>10, <1>15, <2>3 DEF Standing
<1>16. ASSUME NEW f \in Paths(r, PathsOf(compares)), SayAll(r, PartsOf(compares), f)
       PROVE  \E nu \in From({mu}, c.group) : AllHold(nu, c)
  <2>1. \E nu \in At({mu}, c.group, r) : AllHold(nu, c)
    BY <1>10, <1>16 DEF Model
  <2> QED
    BY <2>1 DEF At
<1> QED
  BY <1>12, <1>14, <1>15, <1>16

-----------------------------------------------------------------------------
(* Disjunctions                                                            *)

BranchSays(d, branches, from, i) == BlockSays(d.blocks[i], Branch(branches[i]), from, d.next)

LEMMA BlockSaysOn ==
  \A block, compares : \A from, to, low, high \in Nat :
    BlockSays(block, compares, from, to) /\ low <= from /\ to <= high
      => BlockSays(block, compares, low, high)
<1> SUFFICES ASSUME NEW block, NEW compares, NEW from \in Nat, NEW to \in Nat, NEW low \in Nat,
                    NEW high \in Nat, BlockSays(block, compares, from, to), low <= from, to <= high
             PROVE  BlockSays(block, compares, low, high)
  OBVIOUS
<1>1. from .. to - 1 \subseteq low .. high - 1
  OBVIOUS
<1> QED
  BY <1>1 DEF BlockSays

\* One block for each disjunct.
LEMMA BlocksMean ==
  ASSUME graph \in Graphs, NEW acc, acc.next \in Nat, acc.next > 0,
         NEW B, NEW branches \in Seq(B), \A b \in B : Conjunction(Branch(b))
  PROVE  LET d == OrBlocks(acc, Class, branches, query.use_not_exists_for_ne)
         IN  /\ d.next \in Nat /\ d.next >= acc.next /\ DOMAIN d.blocks = DOMAIN branches
             /\ \A i \in DOMAIN branches : BranchSays(d, branches, acc.next, i)
<1> DEFINE first == [blocks |-> <<>>, next |-> acc.next]
           F(s) == Blocking!Result(first, s)
           Upto(s) == /\ F(s).next \in Nat /\ F(s).next >= acc.next /\ IsSeq(F(s).blocks)
                      /\ Len(F(s).blocks) = Len(s)
                      /\ \A i \in 1 .. Len(s) : BranchSays(F(s), s, acc.next, i)
           N == {s \in Seq(B) : Upto(s)}
<1>1. OrBlocks(acc, Class, branches, query.use_not_exists_for_ne) = F(branches)
  BY DEF OrBlocks, BlockStep, FoldLeft, MapThenFoldSet, Max, Blocking!Result,
         Blocking!MapThenFoldSet, Blocking!Max
<1>2. <<>> \in N
  <2>1. F(<<>>) = first
    BY Blocking!FoldEmpty
  <2>2. first.next = acc.next /\ first.blocks = <<>> /\ Len(<<>>) = 0
    OBVIOUS
  <2> HIDE DEF F, first
  <2>3. Upto(<<>>)
    BY <2>1, <2>2, OnwardNone
  <2> QED
    BY <2>3, EmptySeq
<1>3. ASSUME NEW s \in Seq(B), NEW b \in B, s \in N PROVE Append(s, b) \in N
  <2> DEFINE t == Append(s, b)
             c == F(s)
             d == F(t)
             made == Block(c, Branch(b))
  <2>1. d = BlockStep(c, b)
    BY Blocking!FoldAppend
  <2>2. /\ t \in Seq(B) /\ Len(s) \in Nat /\ Len(t) = Len(s) + 1 /\ t[Len(s) + 1] = b
        /\ \A i \in 1 .. Len(s) : t[i] = s[i]
    BY AppendProperties, LenProperties
  <2>3. /\ c.next \in Nat /\ c.next >= acc.next /\ IsSeq(c.blocks) /\ Len(c.blocks) = Len(s)
        /\ \A i \in 1 .. Len(s) : BranchSays(c, s, acc.next, i)
    BY <1>3
  <2> HIDE DEF F
  <2>4. d.blocks = Append(c.blocks, made.block) /\ d.next = made.next
    BY <2>1 DEF BlockStep, AddBlock, Block
  <2>5. Pathed(Branch(b))
    BY DEF Conjunction, Pathed, Answerable
  <2>6. made.next \in Nat /\ made.next >= c.next
    BY <2>3, <2>5, BlockLater DEF Block
  <2>7. BlockSays(made.block, Branch(b), c.next, made.next)
    <3>1. c.next > 0
      BY <2>3
    <3> QED
      BY <2>3, <3>1, BlockMeans
  <2> HIDE DEF made, c, d, t
  <2>8. /\ IsSeq(d.blocks) /\ Len(d.blocks) = Len(s) + 1 /\ d.blocks[Len(s) + 1] = made.block
        /\ \A i \in 1 .. Len(s) : d.blocks[i] = c.blocks[i]
    <3> DEFINE q == c.blocks
               g == made.block
    <3> HIDE DEF q, g
    <3>1. IsSeq(q) /\ Len(q) = Len(s)
      BY <2>3 DEF q
    <3>2. IsSeq(Append(q, g))
      BY <3>1, AppendFilters
    <3>3. PICK S : q \in Seq(S) /\ g \in S
      BY <3>1, AppendIsSeq
    <3>4. /\ Len(Append(q, g)) = Len(q) + 1 /\ Append(q, g)[Len(q) + 1] = g
          /\ \A i \in 1 .. Len(q) : Append(q, g)[i] = q[i]
      BY <3>3, AppendProperties, LenProperties
    <3> QED
      BY <2>4, <3>1, <3>2, <3>4 DEF q, g
  <2>9. ASSUME NEW i \in 1 .. Len(s) PROVE BranchSays(d, t, acc.next, i)
    <3>1. BlockSays(c.blocks[i], Branch(s[i]), acc.next, c.next)
      BY <2>3 DEF BranchSays
    <3>2. BlockSays(c.blocks[i], Branch(s[i]), acc.next, made.next)
      BY <2>3, <2>6, <3>1, BlockSaysOn
    <3> QED
      BY <2>2, <2>4, <2>8, <3>2 DEF BranchSays
  <2>10. BranchSays(d, t, acc.next, Len(s) + 1)
    <3>1. BlockSays(made.block, Branch(b), acc.next, made.next)
      BY <2>3, <2>6, <2>7, BlockSaysOn
    <3> QED
      BY <2>2, <2>4, <2>8, <3>1 DEF BranchSays
  <2>11. \A i \in 1 .. Len(t) : BranchSays(d, t, acc.next, i)
    <3>1. \A i \in 1 .. Len(t) : i \in 1 .. Len(s) \/ i = Len(s) + 1
      BY <2>2
    <3> QED
      BY <2>9, <2>10, <3>1
  <2>12. d.next \in Nat /\ d.next >= acc.next
    BY <2>3, <2>4, <2>6
  <2> QED
    BY <2>2, <2>8, <2>11, <2>12 DEF d, t
<1> HIDE DEF N
<1>4. Seq(B) \subseteq N
  BY <1>2, <1>3, SeqSet
<1>5. Upto(branches)
  BY <1>4 DEF N
<1> HIDE DEF F
<1>6. DOMAIN branches = 1 .. Len(branches) /\ DOMAIN F(branches).blocks = 1 .. Len(branches)
  <2>1. \A q : IsSeq(q) => DOMAIN q = 1 .. Len(q)
    BY LenProperties DEF IsSeq
  <2> QED
    BY <1>5, <2>1, LenProperties
<1> QED
  BY <1>1, <1>5, <1>6

LEMMA SeqWithin ==
  \A S, U, s : s \in Seq(S) /\ (\A i \in DOMAIN s : s[i] \in U) => s \in Seq(U)
  BY LenProperties

\* A disjunction that can be compiled is one of conjunctions.
LEMMA DisjunctsAnswer ==
  ASSUME NEW e, e.kind = "or", HasBranches(e), ~DisjunctsRaise(Class, e)
  PROVE  \E B : e.parts \in Seq(B) /\ \A b \in B : Conjunction(Branch(b))
<1>1. PICK B : e.parts \in Seq(B) /\ \A b \in B : Pathed(Branch(b))
  BY DisjunctsPathed
<1>2. \A i \in DOMAIN e.parts : ~BranchRaises(Class, e.parts[i])
  BY DEF DisjunctsRaise
<1> DEFINE U == {b \in B : ~BranchRaises(Class, b)}
<1>3. e.parts \in Seq(U)
  <2>1. \A i \in DOMAIN e.parts : e.parts[i] \in B
    BY <1>1
  <2>2. \A i \in DOMAIN e.parts : e.parts[i] \in U
    BY <1>2, <2>1
  <2> HIDE DEF U
  <2> QED
    BY <1>1, <2>2, SeqWithin
<1>4. ASSUME NEW b \in U PROVE Conjunction(Branch(b))
  <2> DEFINE s == Branch(b)
  <2>1. PICK S : s \in Seq(S) /\ \A a \in S : a.left.path \in Path
    BY <1>1, <1>4 DEF Pathed
  <2>2. \A i \in DOMAIN s : s[i].kind = "compare" /\ ~CompareRaises(Class, s[i])
    BY <1>4 DEF BranchRaises
  <2> HIDE DEF s
  <2> DEFINE V == {a \in S : a.kind = "compare" /\ ~CompareRaises(Class, a)}
  <2>3. s \in Seq(V)
    <3>1. \A i \in DOMAIN s : s[i] \in S
      BY <2>1
    <3>2. \A i \in DOMAIN s : s[i] \in V
      BY <2>2, <3>1
    <3> HIDE DEF V
    <3> QED
      BY <2>1, <3>2, SeqWithin
  <2>4. ASSUME NEW a, ~CompareRaises(Class, a) PROVE ClassAt(Class, a.left.path) # None
    <3>1. ~FieldRaises(Class, a.left, Links) \/ ~FieldRaises(Class, a.left, Scalars)
      BY <2>4 DEF CompareRaises
    <3> QED
      BY <3>1, FieldLeads
  <2>5. Answerable(V)
    BY <2>1, <2>4 DEF Answerable
  <2> HIDE DEF V
  <2> QED
    BY <2>3, <2>5 DEF Conjunction, s
<1> QED
  BY <1>3, <1>4

\* A filter alone.
LEMMA FilterStays ==
  ASSUME NEW mu, NEW free, NEW r, NEW c, NEW d, NEW els, Onward(mu, els) = {mu}, NEW g, NEW F,
         \A f \in Paths(r, DOMAIN c.joins) : Stands(mu, c.joins, f) =>
           /\ Settled(mu, g, NodesOf(d), Fresh(free, d.next))
           /\ Holds(graph, mu, g) <=> SayAll(r, F, f)
  PROVE  StaysOn(mu, free, r, c, d, els, {g}, F)
<1> DEFINE xs == c.next .. d.next - 1
           settled(nu, h) == Settled(nu, h, NodesOf(d), Fresh(free, d.next))
           holds(nu, h) == Holds(graph, nu, h)
           says(f) == SayAll(r, F, f)
           ways == Paths(r, DOMAIN c.joins)
           stands(f) == Stands(mu, c.joins, f)
<1>1. \A f \in ways : stands(f) => settled(mu, g) /\ (holds(mu, g) <=> says(f))
  OBVIOUS
<1> HIDE DEF xs, settled, holds, says, ways, stands
<1>2. \A f \in ways : stands(f) =>
        /\ \A nu \in Onward(mu, els) :
             /\ DOMAIN nu \subseteq DOMAIN mu \cup xs
             /\ \A h \in {g} : settled(nu, h)
             /\ (\A h \in {g} : holds(nu, h)) => says(f)
        /\ says(f) => \E nu \in Onward(mu, els) : \A h \in {g} : holds(nu, h)
  BY <1>1
<1> QED
  BY <1>2 DEF StaysOn, xs, settled, holds, says, ways, stands

\* What a filter of EXISTS blocks asks.
Disjunction(e) == IF e.kind = "not" THEN e.inner ELSE e

\* The disjunction of e can be compiled, and its links suffice.
AsksBlocks(r, e) ==
  /\ e.kind \in {"or", "not"} /\ Disjunction(e).kind = "or"
  /\ HasBranches(Disjunction(e)) /\ ~DisjunctsRaise(Class, Disjunction(e))
  /\ \A i \in DOMAIN Disjunction(e).parts : Fits(r, Branch(Disjunction(e).parts[i]))

LEMMA OrStays ==
  ASSUME graph \in Graphs, NEW T, NEW free, NEW r \in Subjects, NEW R, NEW c, NEW E,
         Model(T, free, r, R, c, E), NEW e, AsksBlocks(r, e),
         NEW d, d = FilterStep(c, e), c.next .. d.next - 1 \subseteq free
  PROVE  \E els, G : Stays(T, free, r, c, d, els, G, {e})
<1>0. /\ e.kind \in {"or", "not"} /\ Disjunction(e).kind = "or"
      /\ HasBranches(Disjunction(e)) /\ ~DisjunctsRaise(Class, Disjunction(e))
      /\ \A i \in DOMAIN Disjunction(e).parts : Fits(r, Branch(Disjunction(e).parts[i]))
  BY DEF AsksBlocks
<1> DEFINE dis == Disjunction(e)
           D == OrBlocks(c, Class, dis.parts, query.use_not_exists_for_ne)
           g == IF e.kind = "not" THEN NoneF(D.blocks) ELSE AnyF(D.blocks)
           els == <<>>
<1>1. /\ DOMAIN c = StateFields /\ IsSeq(c.group) /\ IsSeq(c.filters) /\ c.next \in Nat
      /\ free \subseteq Nat /\ c.next > 0
      /\ \A p \in DOMAIN c.joins : c.joins[p] \in 0 .. c.next - 1
  BY ModelFacts DEF Model, Shape
<1>2. d = [c EXCEPT !.filters = Append(@, g), !.next = D.next]
  <2>1. CASE e.kind = "or"
    BY <2>1 DEF FilterStep, CompileFilter, CompileOr, AddBlocks, Disjunction
  <2>2. CASE e.kind = "not"
    BY <1>0, <2>2 DEF FilterStep, CompileFilter, CompileNot, AddBlocks, Disjunction
  <2> QED
    BY <1>0, <2>1, <2>2
<1>3. PICK B : dis.parts \in Seq(B) /\ \A b \in B : Conjunction(Branch(b))
  BY <1>0, DisjunctsAnswer
<1>4. /\ D.next \in Nat /\ D.next >= c.next /\ DOMAIN D.blocks = DOMAIN dis.parts
      /\ \A i \in DOMAIN dis.parts : BranchSays(D, dis.parts, c.next, i)
  BY <1>1, <1>3, BlocksMean
<1>5. \A i \in DOMAIN dis.parts : Fits(r, Branch(dis.parts[i]))
  BY <1>0
<1>6. FilterMeans(r, e) <=>
        IF e.kind = "not" THEN ~\E i \in DOMAIN dis.parts : ConjunctionMeans(r, Branch(dis.parts[i]))
        ELSE \E i \in DOMAIN dis.parts : ConjunctionMeans(r, Branch(dis.parts[i]))
  BY <1>0 DEF FilterMeans, DisjunctionMeans, Disjunction
<1>7. \A nu : Holds(graph, nu, g) <=>
        IF e.kind = "not" THEN ~\E i \in DOMAIN D.blocks : ExistsHolds(graph, nu, D.blocks[i])
        ELSE \E i \in DOMAIN D.blocks : ExistsHolds(graph, nu, D.blocks[i])
  <2> HIDE DEF D
  <2>1. /\ NoneF(D.blocks).kind = "none" /\ NoneF(D.blocks).blocks = D.blocks
        /\ AnyF(D.blocks).kind = "any" /\ AnyF(D.blocks).blocks = D.blocks
    BY DEF NoneF, AnyF
  <2> HIDE DEF g
  <2>2. CASE e.kind = "not"
    <3>1. g.kind = "none" /\ g.blocks = D.blocks
      BY <2>1, <2>2 DEF g
    <3> QED
      BY <2>2, <3>1 DEF Holds
  <2>3. CASE e.kind # "not"
    <3>1. g.kind = "any" /\ g.blocks = D.blocks
      BY <2>1, <2>3 DEF g
    <3> QED
      BY <2>3, <3>1 DEF Holds
  <2> QED
    BY <2>2, <2>3
<1> HIDE DEF dis, D, g
<1>8. /\ DOMAIN d = StateFields /\ d.group = c.group /\ d.filters = Append(c.filters, g)
      /\ d.joins = c.joins /\ d.next = D.next
  BY <1>1, <1>2 DEF StateFields
<1>9. ASSUME NEW nu, Root \in DOMAIN nu, nu[Root] = r, DOMAIN nu \cap (c.next .. d.next - 1) = {}
      PROVE  Holds(graph, nu, g) <=> FilterMeans(r, e)
  <2>1. \A i \in DOMAIN dis.parts :
          ExistsHolds(graph, nu, D.blocks[i]) <=> ConjunctionMeans(r, Branch(dis.parts[i]))
    BY <1>4, <1>5, <1>8, <1>9 DEF BranchSays, BlockSays
  <2> QED
    BY <1>4, <1>6, <1>7, <2>1
<1>10. c.group = c.group \o els
  BY <1>1, ConcatEmptySeq DEF IsSeq
<1>11. \A mu : Onward(mu, els) = {mu} /\ IsSeq(els)
  BY OnwardNone
<1> HIDE DEF els
<1>12. (NodesOf(d) \cup Fresh(free, d.next)) \cap (c.next .. d.next - 1) = {}
  <2>1. \A n \in 0 .. c.next - 1 : n \notin c.next .. d.next - 1
    BY <1>1
  <2>2. \A n \in Nat : n >= d.next => n \notin c.next .. d.next - 1
    BY <1>4, <1>8
  <2> QED
    BY <1>1, <1>8, <2>1, <2>2 DEF NodesOf, Fresh
<1>13. ASSUME NEW mu \in At(T, c.group, r)
       PROVE  /\ Settled(mu, g, NodesOf(d), Fresh(free, d.next))
              /\ Holds(graph, mu, g) <=> FilterMeans(r, e)
  <2>1. Root \in DOMAIN mu /\ mu[Root] = r /\ DOMAIN mu \cap Fresh(free, c.next) = {}
    BY DEF At, Model, Standing
  <2>2. c.next .. d.next - 1 \subseteq Fresh(free, c.next)
    BY <1>1, <1>4, <1>8, FreshLater
  <2>3. ASSUME NEW nu, NEW xs, xs \subseteq NodesOf(d) \cup Fresh(free, d.next), Widens(nu, mu, xs)
        PROVE  Holds(graph, nu, g) <=> FilterMeans(r, e)
    <3>1. DOMAIN nu \cap (c.next .. d.next - 1) = {}
      BY <1>12, <2>1, <2>2, <2>3 DEF Widens
    <3>2. Root \in DOMAIN nu /\ nu[Root] = r
      BY <2>1, <2>3 DEF Widens, Extends
    <3> QED
      BY <1>9, <3>1, <3>2
  <2>4. Holds(graph, mu, g) <=> FilterMeans(r, e)
    BY <1>9, <2>1, <2>2
  <2> QED
    BY <2>3, <2>4 DEF Settled
<1>14. ~OfPath(e)
  BY <1>0 DEF OfPath
<1>15. \A f : SayAll(r, {e}, f) <=> FilterMeans(r, e)
  BY <1>14 DEF SayAll, Says
<1>16. ASSUME NEW mu \in At(T, c.group, r) PROVE StaysOn(mu, free, r, c, d, els, {g}, {e})
  <2>1. /\ Settled(mu, g, NodesOf(d), Fresh(free, d.next))
        /\ Holds(graph, mu, g) <=> FilterMeans(r, e)
    BY <1>13
  <2>2. Onward(mu, els) = {mu}
    BY <1>11
  <2> QED
    BY <1>15, <2>1, <2>2, FilterStays
<1>17. IsSeq(d.filters) /\ FiltersOf(d) = FiltersOf(c) \cup {g}
  <2>1. AddsFilter(c, d, g)
    BY <1>1, <1>8 DEF AddsFilter
  <2> QED
    BY <2>1, OneFilter
<1>18. \A mu : Extends(mu, mu)
  BY DEF Extends
<1>19. Stays(T, free, r, c, d, els, {g}, {e})
  BY <1>4, <1>8, <1>10, <1>11, <1>14, <1>16, <1>17, <1>18 DEF Stays
<1> QED
  BY <1>19

-----------------------------------------------------------------------------
(* Property paths and comparisons of IRIs                                  *)

LEMMA PathAfter ==
  ASSUME NEW mu, Root \in DOMAIN mu, mu[Root] \in Subjects, NEW path, NEW v
  PROVE  After(mu, PathTo(Root, path, v)) =
           IF v \in PathEnds(graph, mu[Root], path) THEN {mu} ELSE {}
<1> DEFINE e == PathTo(Root, path, v)
           ends(n) == PathEnds(graph, n, path)
<1>1. e.kind = "path" /\ e.subject = Root /\ e.path = path /\ e.object = v
  BY DEF PathTo
<1> HIDE DEF e
<1>2. After(mu, e) = UNION {BindTo(mu, Root, n)
                            : n \in {t[1] : t \in {u \in graph : v \in ends(u[1])}}}
  BY <1>1 DEF After, Matches
<1>3. \A n : BindTo(mu, Root, n) = IF mu[Root] = n THEN {mu} ELSE {}
  BY DEF BindTo, Bound
<1>4. PICK t \in graph : t[1] = mu[Root]
  BY DEF Subjects
<1> HIDE DEF ends
<1>5. {n \in {u[1] : u \in {u \in graph : v \in ends(u[1])}} : n = mu[Root]}
        = IF v \in ends(mu[Root]) THEN {mu[Root]} ELSE {}
  BY <1>4
<1> QED
  BY <1>2, <1>3, <1>5 DEF e, ends

LEMMA PropertyStays ==
  ASSUME graph \in Graphs, NEW T, NEW free, NEW r \in Subjects, NEW R, NEW c, NEW E,
         Model(T, free, r, R, c, E), NEW e, e.kind = "property", NEW d, d = FilterStep(c, e)
  PROVE  \E els, G : Stays(T, free, r, c, d, els, G, {e})
<1> DEFINE t == PathTo(Root, e.path, e.right)
           els == <<t>>
<1>1. /\ DOMAIN c = StateFields /\ IsSeq(c.group) /\ IsSeq(c.filters) /\ c.next \in Nat
      /\ free \subseteq Nat
  BY ModelFacts
<1>2. d = [c EXCEPT !.group = Append(@, t)]
  BY DEF FilterStep, CompileFilter, CompileProperty
<1>3. /\ DOMAIN d = StateFields /\ d.group = Append(c.group, t) /\ d.filters = c.filters
      /\ d.joins = c.joins /\ d.next = c.next
  BY <1>1, <1>2 DEF StateFields
<1>4. Append(c.group, t) = c.group \o els
  BY <1>1, AppendIsSeq
<1>5. \A mu : Onward(mu, els) = After(mu, t) /\ IsSeq(els)
  BY OnwardOne
<1>6. c.next .. d.next - 1 = {}
  BY <1>1, <1>3
<1>7. FilterMeans(r, e) <=> e.right \in PathEnds(graph, r, e.path)
  BY DEF FilterMeans
<1>8. ~OfPath(e) /\ \A f : SayAll(r, {e}, f) <=> FilterMeans(r, e)
  BY DEF OfPath, SayAll, Says
<1>9. ASSUME NEW mu \in At(T, c.group, r)
      PROVE  Onward(mu, els) = IF FilterMeans(r, e) THEN {mu} ELSE {}
  <2>1. Root \in DOMAIN mu /\ mu[Root] = r
    BY DEF At, Model
  <2>2. After(mu, t) = IF e.right \in PathEnds(graph, r, e.path) THEN {mu} ELSE {}
    BY <2>1, PathAfter
  <2> QED
    BY <1>5, <1>7, <2>2
<1>10. \A mu : \A nu \in Onward(mu, els) : Extends(nu, mu)
  <2>1. Adds(t, {Root})
    BY ElementsAdd
  <2> QED
    BY <1>5, <2>1 DEF Adds
<1> HIDE DEF t, els
<1>11. ASSUME NEW mu \in At(T, c.group, r) PROVE StaysOn(mu, free, r, c, d, els, {}, {e})
  BY <1>8, <1>9 DEF StaysOn
<1>12. d.next \in Nat /\ d.next >= c.next /\ c.next .. d.next - 1 \subseteq free
  BY <1>1, <1>3, <1>6
<1>13. IsSeq(d.filters) /\ FiltersOf(d) = FiltersOf(c) \cup {}
  BY <1>1, <1>3, NoFilter
<1>14. Stays(T, free, r, c, d, els, {}, {e})
  BY <1>3, <1>4, <1>5, <1>8, <1>10, <1>11, <1>12, <1>13 DEF Stays
<1> QED
  BY <1>14

LEMMA IriStays ==
  ASSUME graph \in Graphs, NEW T, NEW free, NEW r, NEW R, NEW c, NEW E,
         Model(T, free, r, R, c, E), NEW e, e.kind = "iri_str",
         e.left.path \in DOMAIN c.joins, FullyLinked(r, e.left.path),
         NEW d, d = CompareNode(c, e)
  PROVE  \E els, G : Stays(T, free, r, c, d, els, G, {e})
<1> DEFINE path == e.left.path
           node == c.joins[path]
           g == CompareF(node, e.op, e.right)
           els == <<>>
<1>1. /\ DOMAIN c = StateFields /\ IsSeq(c.group) /\ IsSeq(c.filters) /\ c.next \in Nat
      /\ free \subseteq Nat
  BY ModelFacts
<1>2. d = [c EXCEPT !.filters = Append(@, g)]
  BY DEF CompareNode
<1>3. \A nu : Holds(graph, nu, g) <=> node \in DOMAIN nu /\ Compares(nu[node], e.op, e.right)
  <2>1. g.kind = "compare" /\ \A nu : SimpleHolds(graph, nu, g) <=>
                                 node \in DOMAIN nu /\ Compares(nu[node], e.op, e.right)
    BY FiltersHold
  <2> HIDE DEF g
  <2> QED
    BY <2>1, FiltersHold
<1> HIDE DEF g
<1>4. /\ DOMAIN d = StateFields /\ d.group = c.group /\ d.filters = Append(c.filters, g)
      /\ d.joins = c.joins /\ d.next = c.next
  BY <1>1, <1>2 DEF StateFields
<1>5. c.group = c.group \o els
  BY <1>1, ConcatEmptySeq DEF IsSeq
<1>6. \A mu : Onward(mu, els) = {mu} /\ IsSeq(els)
  BY OnwardNone
<1> HIDE DEF els
<1>7. OfPath(e) /\ \A f : SayAll(r, {e}, f) <=> Compares(f[path], e.op, e.right)
  <2>1. OfPath(e) /\ \A f : SayAll(r, {e}, f) <=> CompareMeans(e, f[path])
    BY DEF OfPath, SayAll, Says
  <2>2. \A n : CompareMeans(e, n) <=> Compares(n, e.op, e.right)
    BY DEF CompareMeans
  <2> QED
    BY <2>1, <2>2
<1>8. ASSUME NEW mu \in At(T, c.group, r), NEW f \in Paths(r, DOMAIN c.joins), Stands(mu, c.joins, f)
      PROVE  /\ Settled(mu, g, NodesOf(d), Fresh(free, d.next))
             /\ Holds(graph, mu, g) <=> SayAll(r, {e}, f)
  <2>1. node \in DOMAIN mu /\ mu[node] = f[path]
    BY <1>8, NodeHere
  <2>2. Holds(graph, mu, g) <=> SayAll(r, {e}, f)
    BY <1>3, <1>7, <2>1
  <2>3. \A pi : Extends(pi, mu) => (Holds(graph, pi, g) <=> Holds(graph, mu, g))
    <3>1. \A pi : Extends(pi, mu) => node \in DOMAIN pi /\ pi[node] = mu[node]
      BY <2>1 DEF Extends
    <3> QED
      BY <1>3, <2>1, <3>1
  <2> QED
    BY <2>2, <2>3, SettledAs
<1> HIDE DEF path, node
<1>9. ASSUME NEW mu \in At(T, c.group, r) PROVE StaysOn(mu, free, r, c, d, els, {g}, {e})
  <2>1. Onward(mu, els) = {mu}
    BY <1>6
  <2> QED
    BY <1>8, <2>1, FilterStays
<1>10. \A mu : Extends(mu, mu)
  BY DEF Extends
<1>11. c.next .. d.next - 1 = {}
  BY <1>1, <1>4
<1>12. d.next \in Nat /\ d.next >= c.next /\ c.next .. d.next - 1 \subseteq free
  BY <1>1, <1>4, <1>11
<1>13. IsSeq(d.filters) /\ FiltersOf(d) = FiltersOf(c) \cup {g}
  <2>1. AddsFilter(c, d, g)
    BY <1>1, <1>4 DEF AddsFilter
  <2> QED
    BY <2>1, OneFilter
<1>14. Stays(T, free, r, c, d, els, {g}, {e})
  BY <1>4, <1>5, <1>6, <1>7, <1>9, <1>10, <1>12, <1>13 DEF Stays
<1> QED
  BY <1>14

-----------------------------------------------------------------------------
(* The roots that a query starts from                                      *)

\* What values() and the type leave.
Chosen ==
  {n \in Subjects : IsRoot(n) /\ (query.values_bindings = <<>> \/ n \in ToSet(query.values_bindings))}

LEMMA BindReaches ==
  \A mu, x, v : (x \notin DOMAIN mu \/ mu[x] = v) => \E nu \in BindTo(mu, x, v) : Binds(nu, mu, x, v)
<1> SUFFICES ASSUME NEW mu, NEW x, NEW v, x \notin DOMAIN mu \/ mu[x] = v
             PROVE  \E nu \in BindTo(mu, x, v) : Binds(nu, mu, x, v)
  OBVIOUS
<1>1. BindTo(mu, x, v) # {}
  BY DEF BindTo, Bound
<1> QED
  BY <1>1, BindToBinds

\* The solutions before any pattern are the rows of values().
LEMMA ValuesRows ==
  /\ \A mu \in SolsOf(<<>>) : query.values_bindings # <<>> =>
       Root \in DOMAIN mu /\ mu[Root] \in ToSet(query.values_bindings)
  /\ \A r : (query.values_bindings = <<>> \/ r \in ToSet(query.values_bindings)) =>
       \E mu \in SolsOf(<<>>) : Root \notin DOMAIN mu \/ mu[Root] = r
<1> DEFINE rows == ToSet(query.values_bindings)
           e == ValuesOf(Root, rows)
<1>1. SolsOf(<<>>) = Joined(graph, Unit, Before)
  <2>1. Before \o <<>> = Before
    BY BeforeIsSeq, ConcatEmptySeq DEF IsSeq
  <2> QED
    BY <2>1 DEF SolsOf
<1>2. CASE query.values_bindings = <<>>
  <2>1. SolsOf(<<>>) = {Unit}
    BY <1>1, <1>2, JoinedNone DEF Before
  <2>2. DOMAIN Unit = {}
    BY DEF Unit
  <2> QED
    BY <1>2, <2>1, <2>2
<1>3. CASE query.values_bindings # <<>>
  <2>1. Before = <<e>>
    BY <1>3 DEF Before
  <2>2. SolsOf(<<>>) = After(Unit, e)
    BY <1>1, <2>1, JoinedFrom, OnwardOne DEF Onward
  <2>3. e.kind = "values" /\ e.variable = Root /\ e.terms = rows
    BY DEF ValuesOf
  <2> HIDE DEF e, rows
  <2>4. SolsOf(<<>>) = UNION {BindTo(Unit, Root, v) : v \in rows}
    BY <2>2, <2>3 DEF After, Matches
  <2>5. ASSUME NEW mu \in SolsOf(<<>>) PROVE Root \in DOMAIN mu /\ mu[Root] \in rows
    <3>1. PICK v \in rows : mu \in BindTo(Unit, Root, v)
      BY <2>4
    <3>2. Binds(mu, Unit, Root, v)
      BY <3>1, BindToBinds
    <3> QED
      BY <3>2 DEF Binds
  <2>6. ASSUME NEW r \in rows PROVE \E mu \in SolsOf(<<>>) : mu[Root] = r
    <3>1. Root \notin DOMAIN Unit
      BY DEF Unit
    <3>2. PICK nu \in BindTo(Unit, Root, r) : Binds(nu, Unit, Root, r)
      BY <3>1, BindReaches
    <3> QED
      BY <2>4, <3>2 DEF Binds
  <2> QED
    BY <1>3, <2>5, <2>6 DEF rows
<1> QED
  BY <1>2, <1>3

\* Patterns of the root find it.
LEMMA RootMatches ==
  ASSUME NEW mu, NEW r, Root \notin DOMAIN mu \/ mu[Root] = r, NEW t \in graph, t[1] = r, t[2] = Type
  PROVE  /\ \E nu \in Matches(graph, mu, TripleTo(Root, Type, t[3])) : nu[Root] = r
         /\ 1 \notin DOMAIN mu =>
              \E nu \in Matches(graph, mu, Triple(Root, Type, 1)) : nu[Root] = r /\ nu[1] = t[3]
<1> DEFINE e == TripleTo(Root, Type, t[3])
           a == Triple(Root, Type, 1)
<1>1. PICK nu \in BindTo(mu, Root, r) : Binds(nu, mu, Root, r)
  BY BindReaches
<1>2. nu[Root] = r /\ DOMAIN nu = DOMAIN mu \cup {Root}
  BY <1>1 DEF Binds
<1>3. nu \in Matches(graph, mu, e)
  <2>1. e.kind = "constant" /\ e.subject = Root /\ e.pred = Type /\ e.object = t[3]
    BY DEF TripleTo
  <2> HIDE DEF e
  <2> QED
    BY <1>1, <2>1 DEF Matches
<1>4. ASSUME 1 \notin DOMAIN mu
      PROVE  \E pi \in Matches(graph, mu, a) : pi[Root] = r /\ pi[1] = t[3]
  <2>1. 1 \notin DOMAIN nu /\ Root \in DOMAIN nu
    BY <1>2, <1>4 DEF Root
  <2>2. PICK pi \in BindTo(nu, 1, t[3]) : Binds(pi, nu, 1, t[3])
    BY <2>1, BindReaches
  <2>3. pi[1] = t[3] /\ pi[Root] = r
    BY <1>2, <2>1, <2>2 DEF Binds, Extends
  <2>4. a.kind = "triple" /\ a.subject = Root /\ a.pred = Type /\ a.object = 1
    BY DEF Triple
  <2> HIDE DEF a
  <2>5. pi \in Matches(graph, mu, a)
    BY <1>1, <2>2, <2>4 DEF Matches
  <2> QED
    BY <2>3, <2>5
<1> QED
  BY <1>2, <1>3, <1>4

\* One element behind the rows.
LEMMA TypeSols ==
  ASSUME graph \in Graphs, NEW e, NEW c, c.group = <<e>>
  PROVE  From(SolsOf(<<>>), c.group) = GroupStep(SolsOf(<<>>), e)
<1> DEFINE T == SolsOf(<<>>)
           none == <<>>
<1>1. c.group = Append(none, e) /\ IsSeq(none)
  BY Tuples
<1>2. From(T, none) = T
  BY FromNone
<1> HIDE DEF none, T
<1>3. From(T, Append(none, e)) = GroupStep(From(T, none), e)
  BY <1>1, FromAppend
<1>4. From(T, c.group) = GroupStep(T, e)
  BY <1>1, <1>2, <1>3, Zenon
<1> QED
  BY <1>4 DEF T

\* The one element and the filters of the type choose the roots.
Chooses(e, G) ==
  /\ \A mu : \A nu \in After(mu, e) :
       Extends(nu, mu) /\ Root \in DOMAIN nu /\ ((\A g \in G : Holds(graph, nu, g)) => IsRoot(nu[Root]))
  /\ \A mu, r : DOMAIN mu \subseteq {Root} /\ (Root \notin DOMAIN mu \/ mu[Root] = r) /\ IsRoot(r) =>
       \E nu \in After(mu, e) : nu[Root] = r /\ \A g \in G : Holds(graph, nu, g)
  /\ \A mu : \A nu \in After(mu, e) : \A g \in G : \A pi :
       Extends(pi, nu) => (Holds(graph, pi, g) <=> Holds(graph, nu, g))

LEMMA ChosenModel ==
  ASSUME graph \in Graphs, NEW r \in Subjects, NEW c, Good(c), DOMAIN c.joins = {<<>>},
         NEW e, c.group = <<e>>, IsSeq(c.filters), Chooses(e, FiltersOf(c))
  PROVE  Model(SolsOf(<<>>), Nat, r, Chosen, c, {})
<1> DEFINE T == SolsOf(<<>>)
<1>1. From(T, c.group) = GroupStep(T, e)
  BY TypeSols
<1>2. Shape(c) /\ c.next \in Nat /\ c.joins[<<>>] = Root /\ IsSeq(c.group)
  BY DEF Good, Shape
<1>3. \A nu \in From(T, c.group) : \E mu \in T : nu \in After(mu, e)
  BY <1>1 DEF GroupStep
<1>4. \A nu \in From(T, c.group) : Root \in DOMAIN nu /\ \E mu \in T : Extends(nu, mu)
  BY <1>3 DEF Chooses
<1>5. \A f \in Paths(r, {<<>>}) : f[<<>>] = r
  BY DEF Paths
<1>6. r # None
  BY SubjectsKnown
<1>7. \A nu \in At(T, c.group, r) : \A f \in Paths(r, DOMAIN c.joins) : Stands(nu, c.joins, f)
  BY <1>2, <1>4, <1>5, <1>6 DEF Stands, At
<1>8. Paths(r, DOMAIN c.joins) # {}
  <2>1. r \in Resources /\ Prefixes(<<>>) = {<<>>}
    BY SubjectsAreResources, EmptyPath
  <2> QED
    BY <2>1, WayOfRoot
<1>9. ASSUME NEW nu \in At(T, c.group, r) PROVE Standing(nu, Nat, r, Chosen, c, {})
  <2>1. PICK mu \in T : nu \in After(mu, e)
    BY <1>3 DEF At
  <2>2. nu[Root] = r /\ nu \in SolsOf(c.group)
    BY <1>2, SolsFrom DEF At
  <2>3. DOMAIN nu \subseteq 0 .. c.next - 1
    BY <2>2 DEF Good, Sound, Rooted
  <2>4. DOMAIN nu \cap Fresh(Nat, c.next) = {}
    <3>1. \A n \in 0 .. c.next - 1 : ~(n >= c.next)
      BY <1>2
    <3> QED
      BY <2>3, <3>1 DEF Fresh
  <2>5. \A g \in FiltersOf(c) : Settled(nu, g, NodesOf(c), Fresh(Nat, c.next))
    <3>1. \A g \in FiltersOf(c) : \A pi :
            Extends(pi, nu) => (Holds(graph, pi, g) <=> Holds(graph, nu, g))
      BY <2>1 DEF Chooses
    <3> QED
      BY <3>1, SettledAs
  <2>6. AllHold(nu, c) => r \in Chosen
    <3>1. AllHold(nu, c) => IsRoot(r)
      BY <2>1, <2>2 DEF Chooses, AllHold
    <3>2. query.values_bindings = <<>> \/ r \in ToSet(query.values_bindings)
      <4>1. Extends(nu, mu)
        BY <2>1 DEF Chooses
      <4>2. query.values_bindings # <<>> => Root \in DOMAIN mu /\ mu[Root] \in ToSet(query.values_bindings)
        BY ValuesRows
      <4>3. Root \in DOMAIN mu => mu[Root] = r
        BY <2>2, <4>1 DEF Extends
      <4> QED
        BY <4>2, <4>3
    <3> QED
      BY <3>1, <3>2 DEF Chosen
  <2>7. \A f : SayAll(r, {}, f)
    BY DEF SayAll
  <2> QED
    BY <1>7, <1>8, <2>4, <2>5, <2>6, <2>7 DEF Standing
<1>10. ASSUME r \in Chosen PROVE \E nu \in At(T, c.group, r) : AllHold(nu, c)
  <2>1. PICK mu \in T : Root \notin DOMAIN mu \/ mu[Root] = r
    BY <1>10, ValuesRows DEF Chosen
  <2>2. DOMAIN mu \subseteq {Root}
    BY BeforeBinds
  <2>3. PICK nu \in After(mu, e) : nu[Root] = r /\ \A g \in FiltersOf(c) : Holds(graph, nu, g)
    BY <1>10, <2>1, <2>2 DEF Chooses, Chosen
  <2>4. nu \in From(T, c.group)
    BY <1>1, <2>3 DEF GroupStep
  <2> QED
    BY <2>3, <2>4 DEF At, AllHold
<1>11. \A f \in Paths(r, DOMAIN c.joins) : r \in Chosen /\ SayAll(r, {}, f) =>
         \E mu \in At(T, c.group, r) : Stands(mu, c.joins, f) /\ AllHold(mu, c)
  BY <1>7, <1>10
<1> HIDE DEF T
<1> QED
  BY <1>2, <1>4, <1>9, <1>11 DEF Model, T

LEMMA IsRootSays ==
  ASSUME graph \in Graphs
  PROVE  /\ query.polymorphic => \A n : IsRoot(n) <=>
              \E t \in graph : t[1] = n /\ t[2] = Type /\ t[3] \in Schema[Class].subtypes
         /\ ~query.polymorphic => \A n : IsRoot(n) <=>
              \E t \in graph : t[1] = n /\ t[2] = Type /\ t[3] = Schema[Class].type
<1>1. \A t \in graph : t = <<t[1], t[2], t[3]>>
  BY GraphAssumption
<1>2. \A n, v : <<n, Type, v>> \in graph <=> \E t \in graph : t[1] = n /\ t[2] = Type /\ t[3] = v
  <2>1. ASSUME NEW n, NEW v, NEW t \in graph, t[1] = n, t[2] = Type, t[3] = v
        PROVE  <<n, Type, v>> \in graph
    BY <1>1, <2>1
  <2>2. \A n, v : <<n, Type, v>>[1] = n /\ <<n, Type, v>>[2] = Type /\ <<n, Type, v>>[3] = v
    OBVIOUS
  <2> QED
    BY <2>1, <2>2
<1> DEFINE is(n, v) == <<n, Type, v>> \in graph
<1>3. \A n : IsRoot(n) <=> \E v \in IF query.polymorphic THEN Schema[Class].subtypes
                                    ELSE {Schema[Class].type} : is(n, v)
  BY DEF IsRoot
<1>4. \A n, v : is(n, v) <=> \E t \in graph : t[1] = n /\ t[2] = Type /\ t[3] = v
  BY <1>2
<1> HIDE DEF is
<1>5. CASE query.polymorphic
  BY <1>3, <1>4, <1>5
<1>6. CASE ~query.polymorphic
  BY <1>3, <1>4, <1>6
<1> QED
  BY <1>5, <1>6

LEMMA SubtypesChoose ==
  ASSUME graph \in Graphs, query.polymorphic
  PROVE  Chooses(Triple(Root, Type, 1), {CompareF(1, "in", Schema[Class].subtypes)})
<1> DEFINE e == Triple(Root, Type, 1)
           types == Schema[Class].subtypes
           g == CompareF(1, "in", types)
<1>1. \A nu : Holds(graph, nu, g) <=> 1 \in DOMAIN nu /\ nu[1] \in types
  <2>1. g.kind = "compare" /\ \A nu : SimpleHolds(graph, nu, g) <=>
                                 1 \in DOMAIN nu /\ Compares(nu[1], "in", types)
    BY FiltersHold
  <2>2. \A v : Compares(v, "in", types) <=> v \in types
    BY DEF Compares
  <2> HIDE DEF g, types
  <2> QED
    BY <2>1, <2>2, FiltersHold
<1>2. \A mu : \A nu \in After(mu, e) : MatchesTriple(nu, mu, Root, Type, 1)
  BY AfterPattern, MatchFollows
<1>3. \A n : IsRoot(n) <=> \E t \in graph : t[1] = n /\ t[2] = Type /\ t[3] \in types
  BY IsRootSays
<1>4. \A mu, r : \A t \in graph :
        (Root \notin DOMAIN mu \/ mu[Root] = r) /\ t[1] = r /\ t[2] = Type /\ 1 \notin DOMAIN mu =>
          \E nu \in After(mu, e) : nu[Root] = r /\ nu[1] = t[3]
  BY AfterPattern, RootMatches
<1> HIDE DEF e, g, types
<1>5. ASSUME NEW mu, NEW nu \in After(mu, e)
      PROVE  /\ Extends(nu, mu) /\ Root \in DOMAIN nu /\ 1 \in DOMAIN nu
             /\ Holds(graph, nu, g) => IsRoot(nu[Root])
  <2>1. MatchesTriple(nu, mu, Root, Type, 1)
    BY <1>2
  <2> QED
    BY <1>1, <1>3, <2>1 DEF MatchesTriple
<1>6. ASSUME NEW mu, NEW r, DOMAIN mu \subseteq {Root}, Root \notin DOMAIN mu \/ mu[Root] = r, IsRoot(r)
      PROVE  \E nu \in After(mu, e) : nu[Root] = r /\ Holds(graph, nu, g)
  <2>1. PICK t \in graph : t[1] = r /\ t[2] = Type /\ t[3] \in types
    BY <1>3, <1>6
  <2>2. 1 \notin DOMAIN mu
    BY <1>6 DEF Root
  <2>3. PICK nu \in After(mu, e) : nu[Root] = r /\ nu[1] = t[3]
    BY <1>4, <1>6, <2>1, <2>2
  <2> QED
    BY <1>1, <1>5, <2>1, <2>3
<1>7. ASSUME NEW mu, NEW nu \in After(mu, e), NEW pi, Extends(pi, nu)
      PROVE  Holds(graph, pi, g) <=> Holds(graph, nu, g)
  <2>1. 1 \in DOMAIN pi /\ pi[1] = nu[1] /\ 1 \in DOMAIN nu
    BY <1>5, <1>7 DEF Extends
  <2> QED
    BY <1>1, <2>1
<1>8. Chooses(e, {g})
  BY <1>5, <1>6, <1>7 DEF Chooses
<1> QED
  BY <1>8 DEF e, g, types

LEMMA TypeChooses ==
  ASSUME graph \in Graphs, ~query.polymorphic
  PROVE  Chooses(TripleTo(Root, Type, Schema[Class].type), {})
<1> DEFINE type == Schema[Class].type
           e == TripleTo(Root, Type, type)
<1>1. \A mu : \A nu \in After(mu, e) : MatchesConstant(nu, mu, Root, Type, type)
  BY AfterPattern, MatchFollows
<1>2. \A n : IsRoot(n) <=> \E t \in graph : t[1] = n /\ t[2] = Type /\ t[3] = type
  BY IsRootSays
<1>3. \A mu, r : \A t \in graph :
        (Root \notin DOMAIN mu \/ mu[Root] = r) /\ t[1] = r /\ t[2] = Type /\ t[3] = type =>
          \E nu \in After(mu, e) : nu[Root] = r
  BY AfterPattern, RootMatches
<1> HIDE DEF e, type
<1>4. ASSUME NEW mu, NEW nu \in After(mu, e)
      PROVE  Extends(nu, mu) /\ Root \in DOMAIN nu /\ IsRoot(nu[Root])
  <2>1. MatchesConstant(nu, mu, Root, Type, type)
    BY <1>1
  <2> QED
    BY <1>2, <2>1 DEF MatchesConstant
<1>5. Chooses(e, {})
  BY <1>2, <1>3, <1>4 DEF Chooses
<1> QED
  BY <1>5 DEF e, type

\* The patterns of the type choose the roots.
LEMMA TypesModel ==
  ASSUME BuilderOK, NEW r \in Subjects
  PROVE  LET c == TypePatterns(Start(1), Class, query.polymorphic)
         IN  /\ Model(SolsOf(<<>>), Nat, r, Chosen, c, {}) /\ DOMAIN c.joins = {<<>>}
             /\ \A g \in FiltersOf(c) : g # NotSparql
<1> DEFINE c == TypePatterns(Start(1), Class, query.polymorphic)
           first == Start(1)
<1>1. graph \in Graphs /\ query.polymorphic \in BOOLEAN
  BY DEF BuilderOK
<1>2. Good(c)
  BY <1>1, TypesGood
<1>3. /\ DOMAIN first = StateFields /\ first.next = 1 /\ DOMAIN first.joins = {<<>>}
      /\ first.filters = <<>>
  BY StartShape DEF Shape
<1> HIDE DEF first
<1>4. CASE query.polymorphic
  <2> DEFINE e == Triple(Root, Type, 1)
             g == CompareF(1, "in", Schema[Class].subtypes)
             group == <<e>>
             filters == <<g>>
  <2>1. c = [first EXCEPT !.group = group, !.filters = filters, !.next = @ + 1]
    BY <1>3, <1>4 DEF TypePatterns, first
  <2>2. Chooses(e, {g})
    BY <1>1, <1>4, SubtypesChoose
  <2>3. IsSeq(filters) /\ {filters[i] : i \in DOMAIN filters} = {g}
    <3>1. IsSeq(filters)
      BY Tuples
    <3> HIDE DEF g
    <3> QED
      BY <3>1
  <2>4. g # NotSparql
    <3>1. g.kind = "compare"
      BY DEF CompareF
    <3>2. NotSparql.kind = "not sparql"
      BY DEF NotSparql
    <3> HIDE DEF g
    <3> QED
      BY <3>1, <3>2
  <2> HIDE DEF group, filters, g, e
  <2>5. c.group = group /\ c.filters = filters /\ c.joins = first.joins
    <3> HIDE DEF c
    <3> QED
      BY <1>3, <2>1 DEF StateFields
  <2> HIDE DEF c
  <2>6. FiltersOf(c) = {g} /\ IsSeq(c.filters) /\ c.group = <<e>>
    BY <2>3, <2>5 DEF FiltersOf, group
  <2>7. Model(SolsOf(<<>>), Nat, r, Chosen, c, {})
    BY <1>1, <1>2, <1>3, <2>2, <2>5, <2>6, ChosenModel
  <2> QED
    BY <1>3, <2>4, <2>5, <2>6, <2>7 DEF c
<1>5. CASE ~query.polymorphic
  <2> DEFINE e == TripleTo(Root, Type, Schema[Class].type)
             group == <<e>>
  <2>1. c = [first EXCEPT !.group = group]
    BY <1>5 DEF TypePatterns, first
  <2>2. Chooses(e, {})
    BY <1>1, <1>5, TypeChooses
  <2> HIDE DEF group, e
  <2>3. c.group = group /\ c.filters = <<>> /\ c.joins = first.joins
    <3> HIDE DEF c
    <3> QED
      BY <1>3, <2>1 DEF StateFields
  <2> HIDE DEF c
  <2>4. FiltersOf(c) = {} /\ IsSeq(c.filters) /\ c.group = <<e>>
    BY <2>3, OnwardNone DEF FiltersOf, group
  <2>5. Model(SolsOf(<<>>), Nat, r, Chosen, c, {})
    BY <1>1, <1>2, <1>3, <2>2, <2>3, <2>4, ChosenModel
  <2> QED
    BY <1>3, <2>3, <2>4, <2>5 DEF c
<1> QED
  BY <1>1, <1>4, <1>5

-----------------------------------------------------------------------------
(* All filters                                                             *)

\* Compiling on from c to d keeps filters.
KeepsFilters(c, d) == d.filters = c.filters \/ \E g : d.filters = Append(c.filters, g)

LEMMA KeptFilters ==
  \A c, d : KeepsFilters(c, d) /\ IsSeq(c.filters) =>
    IsSeq(d.filters) /\ FiltersOf(c) \subseteq FiltersOf(d)
<1> SUFFICES ASSUME NEW c, NEW d, KeepsFilters(c, d), IsSeq(c.filters)
             PROVE  IsSeq(d.filters) /\ FiltersOf(c) \subseteq FiltersOf(d)
  OBVIOUS
<1>1. CASE d.filters = c.filters
  BY <1>1 DEF FiltersOf
<1>2. ASSUME NEW g, d.filters = Append(c.filters, g)
      PROVE  IsSeq(d.filters) /\ FiltersOf(c) \subseteq FiltersOf(d)
  <2>1. AddsFilter(c, d, g)
    BY <1>2 DEF AddsFilter
  <2>2. IsSeq(d.filters) /\ FiltersOf(d) = FiltersOf(c) \cup {g}
    BY <2>1, OneFilter
  <2> QED
    BY <2>2
<1> QED
  BY <1>1, <1>2 DEF KeepsFilters

LEMMA FilterKeeps ==
  ASSUME NEW acc, DOMAIN acc = StateFields, acc.next \in Nat, NEW e, IsFilter(e),
         ~FilterRaises(Class, e)
  PROVE  KeepsFilters(acc, FilterStep(acc, e))
<1> DEFINE c == FollowPath(acc, Class, e.left.path)
           d == FilterStep(acc, e)
<1>1. e.kind \in {"compare", "iri_str"} => c.filters = acc.filters /\ DOMAIN c = StateFields
  <2>1. e.kind \in {"compare", "iri_str"} => e.left.path \in Path
    BY PathKnown DEF IsFilter
  <2> QED
    BY <2>1, FollowFilters, FollowLater DEF Later
<1>2. CASE e.kind = "compare"
  <2>1. d = CompileFollowed(acc, c, Class, e, query.use_not_exists_for_ne)
    BY <1>2 DEF FilterStep, CompileFilter, CompileCompare
  <2>2. c.filters = acc.filters /\ DOMAIN c = StateFields
    BY <1>1, <1>2
  <2> HIDE DEF c, d
  <2>3. d.filters = c.filters \/ \E g : d.filters = Append(c.filters, g)
    <3>1. CASE e.op \in {"is", "is_not"}
      BY <2>1, <2>2, <3>1 DEF CompileFollowed, CompilePresence, StateFields
    <3>2. CASE e.op = "eq"
      BY <2>1, <2>2, <3>2 DEF CompileFollowed, StateFields
    <3>3. CASE e.op = "in"
      BY <2>1, <2>2, <3>3 DEF CompileFollowed, StateFields
    <3>4. CASE e.op \notin {"is", "is_not", "eq", "in"}
      BY <2>1, <2>2, <3>4 DEF CompileFollowed, StateFields
    <3> QED
      BY <3>1, <3>2, <3>3, <3>4
  <2> QED
    BY <2>2, <2>3 DEF KeepsFilters, d
<1>3. CASE e.kind = "iri_str"
  <2>1. d = CompareNode(c, e)
    BY <1>3 DEF FilterStep, CompileFilter, CompileIriStr
  <2>2. c.filters = acc.filters /\ DOMAIN c = StateFields
    BY <1>1, <1>3
  <2> HIDE DEF c, d
  <2>3. \E g : d.filters = Append(c.filters, g)
    BY <2>1, <2>2 DEF CompareNode, StateFields
  <2> QED
    BY <2>2, <2>3 DEF KeepsFilters, d
<1>4. CASE e.kind = "property"
  <2>1. d.filters = acc.filters
    BY <1>4 DEF FilterStep, CompileFilter, CompileProperty, StateFields
  <2> QED
    BY <2>1 DEF KeepsFilters
<1>5. CASE e.kind = "not"
  <2>1. \E g : d.filters = Append(acc.filters, g)
    <3>1. CASE e.inner.kind = "or"
      BY <1>5, <3>1 DEF FilterStep, CompileFilter, CompileNot, AddBlocks, StateFields
    <3>2. CASE e.inner.kind # "or"
      BY <1>5, <3>2 DEF FilterStep, CompileFilter, CompileNot, StateFields
    <3> QED
      BY <3>1, <3>2
  <2> QED
    BY <2>1 DEF KeepsFilters
<1>6. CASE e.kind = "or"
  <2>1. \E g : d.filters = Append(acc.filters, g)
    BY <1>6 DEF FilterStep, CompileFilter, CompileOr, AddBlocks, StateFields
  <2> QED
    BY <2>1 DEF KeepsFilters
<1>7. e.kind \in {"compare", "iri_str", "property", "not", "or"}
  BY DEF FilterRaises
<1> QED
  BY <1>2, <1>3, <1>4, <1>5, <1>6, <1>7

\* What the links of r must be for e to be compiled on from c; what is not SPARQL is not.
Compilable(r, c, e) ==
  /\ OfPath(e) => Suffices(r, e, DOMAIN c.joins)
  /\ e.kind \in {"or", "not"} =>
       \A i \in DOMAIN Disjunction(e).parts : Fits(r, Branch(Disjunction(e).parts[i]))
  /\ NotSparql \notin FiltersOf(FilterStep(c, e))

Compiled(T, r, R, c, E, e) ==
  /\ Model(T, Nat, r, R, FilterStep(c, e), E \cup {e})
  /\ DOMAIN FilterStep(c, e).joins
       = DOMAIN c.joins \cup IF OfPath(e) THEN Prefixes(e.left.path) ELSE {}

LEMMA FilterModel ==
  ASSUME graph \in Graphs, NEW r \in Subjects
  PROVE  \A T, R, c, E, e :
           /\ Model(T, Nat, r, R, c, E) /\ IsFilter(e) /\ ~FilterRaises(Class, e)
           /\ Compilable(r, c, e)
           => Compiled(T, r, R, c, E, e)
<1> SUFFICES ASSUME NEW T, NEW R, NEW c, NEW E, NEW e, Model(T, Nat, r, R, c, E), IsFilter(e),
                    ~FilterRaises(Class, e), Compilable(r, c, e)
             PROVE  Compiled(T, r, R, c, E, e)
  OBVIOUS
<1> DEFINE d == FilterStep(c, e)
           path == e.left.path
<1>0. DOMAIN c = StateFields /\ c.next \in Nat /\ IsSeq(c.filters)
  BY ModelFacts
<1>1. DOMAIN c = StateFields /\ c.next \in Nat /\ IsSeq(c.filters) /\ Shape(c)
  BY <1>0 DEF Model
<1>2. \A n : c.next .. n \subseteq Nat
  BY <1>1
<1>3. ASSUME \E els, G : Stays(T, Nat, r, c, d, els, G, {e}), ~OfPath(e)
      PROVE  Compiled(T, r, R, c, E, e)
  <2>1. PICK els, G : Stays(T, Nat, r, c, d, els, G, {e})
    BY <1>3
  <2>2. d.joins = c.joins
    BY <2>1 DEF Stays
  <2>3. Model(T, Nat, r, R, d, E \cup {e})
    BY <2>1, ModelStays
  <2> HIDE DEF d
  <2>4. DOMAIN d.joins = DOMAIN c.joins \cup IF OfPath(e) THEN Prefixes(e.left.path) ELSE {}
    BY <1>3, <2>2
  <2> QED
    BY <2>3, <2>4 DEF Compiled, d
<1>4. ASSUME OfPath(e) PROVE path \in Path
  BY <1>4, PathKnown DEF OfPath, IsFilter
<1>5. CASE e.kind = "compare"
  <2>1. OfPath(e) /\ Suffices(r, e, DOMAIN c.joins) /\ path \in Path
    BY <1>4, <1>5 DEF OfPath, Compilable
  <2>2. ClassAt(Class, path) # None
    <3>1. ~CompareRaises(Class, e)
      BY <1>5 DEF FilterRaises
    <3>2. ~FieldRaises(Class, e.left, Links) \/ ~FieldRaises(Class, e.left, Scalars)
      BY <3>1 DEF CompareRaises
    <3> QED
      BY <3>2, FieldLeads
  <2>3. Takes(T, Nat, r, R, c, E, e)
    BY <1>2, <1>5, <2>1, <2>2 DEF Takes
  <2>4. Taken(T, Nat, r, R, c, E, e)
    BY <2>3, CompareModel
  <2>5. d = CompareStep(c, e)
    BY <1>5 DEF FilterStep, CompileFilter, CompareStep
  <2> HIDE DEF d
  <2>6. Model(T, Nat, r, R, d, E \cup {e}) /\ DOMAIN d.joins = DOMAIN c.joins \cup Prefixes(path)
    BY <2>4, <2>5 DEF Taken
  <2> QED
    BY <2>1, <2>6 DEF Compiled, d
<1>6. CASE e.kind = "iri_str"
  <2> DEFINE f == FollowPath(c, Class, path)
  <2>1. OfPath(e) /\ FullyLinked(r, path) /\ path \in Path
    BY <1>4, <1>6 DEF OfPath, Compilable, Suffices
  <2>2. ClassAt(Class, path) # None
    <3>1. ~FieldRaises(Class, e.left, IriFields)
      BY <1>6 DEF FilterRaises
    <3> QED
      BY <3>1, FieldLeads
  <2>3. path = <<>> \/ FullyLinked(r, Front(path))
    <3>1. path = <<>> \/ Front(path) \in Prefixes(path)
      BY <2>1, PrefixesOfPath, FrontOfPrefix
    <3> QED
      BY <2>1, <3>1, LinkedBefore
  <2>4. Tracks(T, Nat, r, R, c, path, E)
    BY <1>2, <2>2, <2>3 DEF Tracks
  <2>5. Model(T, Nat, r, R, f, E) /\ DOMAIN f.joins = DOMAIN c.joins \cup Prefixes(path)
    BY <2>1, <2>4, FollowModel
  <2>6. d = CompareNode(f, e)
    BY <1>6 DEF FilterStep, CompileFilter, CompileIriStr
  <2>7. path \in DOMAIN f.joins
    BY <2>1, <2>5, PrefixesOfPath
  <2> HIDE DEF d, f
  <2>8. PICK els, G : Stays(T, Nat, r, f, d, els, G, {e})
    BY <1>6, <2>1, <2>5, <2>6, <2>7, IriStays
  <2>9. Model(T, Nat, r, R, d, E \cup {e})
    BY <2>5, <2>8, ModelStays
  <2>10. d.joins = f.joins
    BY <2>8 DEF Stays
  <2>11. DOMAIN d.joins = DOMAIN c.joins \cup Prefixes(path)
    BY <2>5, <2>10
  <2> QED
    BY <2>1, <2>9, <2>11 DEF Compiled, d
<1>7. CASE e.kind = "property"
  BY <1>3, <1>7, PropertyStays DEF OfPath
<1>8. CASE e.kind \in {"or", "not"}
  <2> DEFINE dis == Disjunction(e)
  <2>1. dis.kind = "or" /\ HasBranches(dis) /\ ~DisjunctsRaise(Class, dis)
    <3>1. CASE e.kind = "or"
      BY <3>1 DEF Disjunction, IsFilter, FilterRaises
    <3>2. CASE e.kind = "not"
      <4>1. ASSUME e.inner.kind # "or" PROVE FALSE
        <5>1. d.filters = Append(c.filters, NotSparql)
          BY <1>1, <3>2, <4>1 DEF FilterStep, CompileFilter, CompileNot, StateFields
        <5>2. AddsFilter(c, d, NotSparql)
          BY <1>1, <5>1 DEF AddsFilter
        <5>3. NotSparql \in FiltersOf(d)
          <6>1. FiltersOf(d) = FiltersOf(c) \cup {NotSparql}
            BY <5>2, OneFilter
          <6> QED
            BY <6>1
        <5> QED
          BY <5>3 DEF Compilable
      <4> QED
        BY <3>2, <4>1 DEF Disjunction, IsFilter, FilterRaises
    <3> QED
      BY <1>8, <3>1, <3>2
  <2>2. \A i \in DOMAIN dis.parts : Fits(r, Branch(dis.parts[i]))
    BY <1>8 DEF Compilable
  <2>3. d = FilterStep(c, e) /\ c.next .. d.next - 1 \subseteq Nat
    BY <1>2
  <2>5. AsksBlocks(r, e)
    BY <1>8, <2>1, <2>2 DEF AsksBlocks
  <2> HIDE DEF d
  <2>4. \E els, G : Stays(T, Nat, r, c, d, els, G, {e})
    BY <2>3, <2>5, OrStays
  <2> USE DEF d
  <2> QED
    BY <1>3, <1>8, <2>4 DEF OfPath
<1>9. e.kind \in {"compare", "iri_str", "property", "not", "or"}
  BY DEF FilterRaises
<1> QED
  BY <1>5, <1>6, <1>7, <1>8, <1>9

-----------------------------------------------------------------------------
(* All filters, one after the other                                        *)

\* The conjunctions that e has blocks for fit.
GroupFits(r, e) ==
  e.kind \in {"or", "not"} =>
    \A i \in DOMAIN Disjunction(e).parts : Fits(r, Branch(Disjunction(e).parts[i]))

\* Parts of a conjunction that can be compiled.
Compiles(r) == {e \in Parted : ~FilterRaises(Class, e) /\ GroupFits(r, e)}

PickStep(s, e) == IF OfPath(e) THEN Append(s, e) ELSE s

Picking == INSTANCE Folding WITH Op <- PickStep

Picked(s) == Picking!Result(<<>>, s)

LEMMA PickedEach ==
  ASSUME NEW S
  PROVE  /\ Picked(<<>>) = <<>> /\ \A s \in Seq(S) : Picked(s) \in Seq(S)
         /\ \A s \in Seq(S) : \A e \in S :
              Picked(Append(s, e)) = IF OfPath(e) THEN Append(Picked(s), e) ELSE Picked(s)
<1> DEFINE T == {s \in Seq(S) : Picked(s) \in Seq(S)}
<1>1. Picked(<<>>) = <<>>
  BY Picking!FoldEmpty DEF Picked
<1>2. ASSUME NEW s \in Seq(S), NEW e \in S
      PROVE  Picked(Append(s, e)) = IF OfPath(e) THEN Append(Picked(s), e) ELSE Picked(s)
  <2>1. Picked(Append(s, e)) = PickStep(Picked(s), e)
    BY Picking!FoldAppend DEF Picked
  <2> QED
    BY <2>1 DEF PickStep
<1>3. <<>> \in T
  BY <1>1, EmptySeq
<1>4. ASSUME NEW s \in Seq(S), NEW e \in S, s \in T PROVE Append(s, e) \in T
  <2>1. Append(s, e) \in Seq(S)
    BY AppendProperties
  <2>2. Picked(s) \in Seq(S)
    BY <1>4
  <2>3. Append(Picked(s), e) \in Seq(S)
    BY <2>2, AppendProperties
  <2>4. Picked(Append(s, e)) \in Seq(S)
    BY <1>2, <2>2, <2>3
  <2> QED
    BY <2>1, <2>4
<1> HIDE DEF T
<1>5. Seq(S) \subseteq T
  BY <1>3, <1>4, SeqSet
<1>6. \A s \in Seq(S) : Picked(s) \in Seq(S)
  BY <1>5 DEF T
<1> QED
  BY <1>1, <1>2, <1>6

LEMMA PickedIs == Compared = Picked(Parts)
  BY DEF Compared, Picked, PickStep, FoldLeft, MapThenFoldSet, Max, Picking!Result,
         Picking!MapThenFoldSet, Picking!Max

\* What is compiled of the parts in s, on from the patterns of the type.
Made(s) == Filtering!Result(TypePatterns(Start(1), Class, query.polymorphic), s)

LEMMA MadeEach ==
  /\ CompileFilters(Class, query) = Made(Parts)
  /\ Made(<<>>) = TypePatterns(Start(1), Class, query.polymorphic)
  /\ \A S : \A s \in Seq(S) : \A e \in S : Made(Append(s, e)) = FilterStep(Made(s), e)
<1>1. CompileFilters(Class, query) = Made(Parts)
  BY DEF Parts, Made, CompileFilters, FilterStep, FoldLeft, MapThenFoldSet, Max,
         Filtering!Result, Filtering!MapThenFoldSet, Filtering!Max
<1>2. Made(<<>>) = TypePatterns(Start(1), Class, query.polymorphic)
  BY Filtering!FoldEmpty DEF Made
<1>3. ASSUME NEW S, NEW s \in Seq(S), NEW e \in S
      PROVE  Made(Append(s, e)) = FilterStep(Made(s), e)
  BY Filtering!FoldAppend DEF Made
<1> QED
  BY <1>1, <1>2, <1>3

\* The parts in s are compiled to what means them.
MadeMeans(r, s) ==
  Fits(r, Picked(s)) /\ NotSparql \notin FiltersOf(Made(s)) =>
    /\ Model(SolsOf(<<>>), Nat, r, Chosen, Made(s), PartsOf(s))
    /\ DOMAIN Made(s).joins = PathsOf(Picked(s))

LEMMA MadeStep ==
  ASSUME BuilderOK, NEW r \in Subjects, NEW s \in Seq(Compiles(r)), NEW e \in Compiles(r),
         Good(Made(s)), IsSeq(Made(s).filters), MadeMeans(r, s)
  PROVE  /\ Good(Made(Append(s, e))) /\ IsSeq(Made(Append(s, e)).filters)
         /\ MadeMeans(r, Append(s, e))
<1> DEFINE S == Compiles(r)
           c == Made(s)
           d == FilterStep(c, e)
           t == Append(s, e)
<1>1. Made(t) = d
  BY MadeEach
<1>2. IsFilter(e) /\ ~FilterRaises(Class, e) /\ GroupFits(r, e)
  BY PartedFilters DEF Compiles
<1>3. graph \in Graphs
  BY DEF BuilderOK
<1>4. Grows(c, d)
  BY <1>2, <1>3, FilterGrows
<1>5. Good(d)
  BY <1>4 DEF Grows
<1>6. DOMAIN c = StateFields /\ c.next \in Nat
  BY DEF Good, Shape
<1>7. KeepsFilters(c, d)
  BY <1>2, <1>6, FilterKeeps
<1>8. IsSeq(d.filters) /\ FiltersOf(c) \subseteq FiltersOf(d)
  BY <1>7, KeptFilters
<1>9. Picked(s) \in Seq(S) /\ Picked(t) = IF OfPath(e) THEN Append(Picked(s), e) ELSE Picked(s)
  BY PickedEach
<1>10. PartsOf(t) = PartsOf(s) \cup {e}
  BY AppendParts
<1> HIDE DEF c, d, t, S
<1>11. ASSUME Fits(r, Picked(t)), NotSparql \notin FiltersOf(d)
       PROVE  /\ Model(SolsOf(<<>>), Nat, r, Chosen, d, PartsOf(t))
              /\ DOMAIN d.joins = PathsOf(Picked(t))
  <2>1. Fits(r, Picked(s)) /\ (OfPath(e) => Suffices(r, e, PathsOf(Picked(s))))
    <3>1. CASE OfPath(e)
      <4>1. Fits(r, Append(Picked(s), e)) /\ e \in S
        BY <1>9, <1>11, <3>1 DEF S
      <4> QED
        BY <1>9, <4>1, FitsBefore
    <3>2. CASE ~OfPath(e)
      BY <1>9, <1>11, <3>2
    <3> QED
      BY <3>1, <3>2
  <2>2. NotSparql \notin FiltersOf(c)
    BY <1>8, <1>11
  <2>3. /\ Model(SolsOf(<<>>), Nat, r, Chosen, c, PartsOf(s))
        /\ DOMAIN c.joins = PathsOf(Picked(s))
    BY <2>1, <2>2 DEF MadeMeans, c
  <2>4. Compilable(r, c, e)
    <3>1. OfPath(e) => Suffices(r, e, DOMAIN c.joins)
      BY <2>1, <2>3
    <3>2. NotSparql \notin FiltersOf(FilterStep(c, e))
      BY <1>11 DEF d
    <3> QED
      BY <1>2, <3>1, <3>2 DEF Compilable, GroupFits
  <2>5. Compiled(SolsOf(<<>>), r, Chosen, c, PartsOf(s), e)
    BY <1>2, <1>3, <2>3, <2>4, FilterModel
  <2>6. /\ Model(SolsOf(<<>>), Nat, r, Chosen, d, PartsOf(s) \cup {e})
        /\ DOMAIN d.joins = DOMAIN c.joins \cup IF OfPath(e) THEN Prefixes(e.left.path) ELSE {}
    BY <2>5 DEF Compiled, d
  <2>7. DOMAIN d.joins = PathsOf(Picked(t))
    <3>1. CASE OfPath(e)
      <4>1. Picked(s) \in Seq(S) /\ e \in S /\ Picked(t) = Append(Picked(s), e)
        BY <1>9, <3>1 DEF S
      <4>2. PathsOf(Picked(t)) = PathsOf(Picked(s)) \cup Prefixes(e.left.path)
        BY <4>1, AppendParts
      <4> QED
        BY <2>3, <2>6, <3>1, <4>2
    <3>2. CASE ~OfPath(e)
      BY <1>9, <2>3, <2>6, <3>2
    <3> QED
      BY <3>1, <3>2
  <2> QED
    BY <1>10, <2>6, <2>7
<1> QED
  BY <1>1, <1>5, <1>8, <1>11 DEF MadeMeans, t

\* The parts of a query that can be run for r.
LEMMA PartsCompile ==
  ASSUME BuilderOK, NEW r, LinksSuffice(r), \A i \in DOMAIN Parts : ~FilterRaises(Class, Parts[i])
  PROVE  Parts \in Seq(Compiles(r)) /\ Fits(r, Compared)
<1>1. Parts \in Seq(Parted)
  BY InOrderParted DEF BuilderOK, Parts
<1>2. \A compares \in Groups : Fits(r, compares)
  BY DEF LinksSuffice, Fits
<1>3. Compared \in Groups
  BY DEF Groups
<1>4. ASSUME NEW i \in DOMAIN Parts PROVE Parts[i] \in Compiles(r)
  <2> DEFINE e == Parts[i]
  <2>1. e \in Parted /\ ~FilterRaises(Class, e)
    BY <1>1
  <2>2. ASSUME e.kind \in {"or", "not"}, NEW j \in DOMAIN Disjunction(e).parts
        PROVE  Branch(Disjunction(e).parts[j]) \in Groups
    BY <2>2 DEF Groups, Disjunction
  <2>3. GroupFits(r, e)
    BY <1>2, <2>2 DEF GroupFits
  <2> QED
    BY <2>1, <2>3 DEF Compiles
<1>5. Parts \in Seq(Compiles(r))
  BY <1>1, <1>4, SeqWithin
<1> QED
  BY <1>2, <1>3, <1>5

\* What filters compile to means them.
LEMMA FiltersModel ==
  ASSUME BuilderOK, NEW r \in Subjects, LinksSuffice(r),
         \A i \in DOMAIN Parts : ~FilterRaises(Class, Parts[i]),
         NEW c, c = CompileFilters(Class, query), NotSparql \notin FiltersOf(c)
  PROVE  /\ Model(SolsOf(<<>>), Nat, r, Chosen, c, PartsOf(Parts))
         /\ DOMAIN c.joins = PathsOf(Compared)
<1> DEFINE S == Compiles(r)
           T == {s \in Seq(S) : Good(Made(s)) /\ IsSeq(Made(s).filters) /\ MadeMeans(r, s)}
<1>1. <<>> \in T
  <2> DEFINE first == TypePatterns(Start(1), Class, query.polymorphic)
  <2>1. Good(first)
    BY TypesGood DEF BuilderOK
  <2>2. /\ Model(SolsOf(<<>>), Nat, r, Chosen, first, {}) /\ DOMAIN first.joins = {<<>>}
    BY TypesModel
  <2>3. IsSeq(first.filters)
    BY <2>2, ModelFacts
  <2>4. Made(<<>>) = first /\ Picked(<<>>) = <<>>
    BY MadeEach, PickedEach
  <2> HIDE DEF first
  <2>5. PartsOf(<<>>) = {} /\ PathsOf(<<>>) = {<<>>}
    BY AppendParts, EmptySeq
  <2>6. MadeMeans(r, <<>>)
    BY <2>2, <2>4, <2>5 DEF MadeMeans
  <2>7. <<>> \in Seq(S)
    BY EmptySeq
  <2> QED
    BY <2>1, <2>3, <2>4, <2>6, <2>7
<1>2. ASSUME NEW s \in Seq(S), NEW e \in S, s \in T PROVE Append(s, e) \in T
  <2>1. Append(s, e) \in Seq(S)
    BY AppendProperties
  <2>2. Good(Made(s)) /\ IsSeq(Made(s).filters) /\ MadeMeans(r, s)
    BY <1>2
  <2>3. /\ Good(Made(Append(s, e))) /\ IsSeq(Made(Append(s, e)).filters)
        /\ MadeMeans(r, Append(s, e))
    BY <2>2, MadeStep
  <2> QED
    BY <2>1, <2>3
<1> HIDE DEF T
<1>3. Seq(S) \subseteq T
  BY <1>1, <1>2, SeqSet
<1>4. Parts \in Seq(S) /\ Fits(r, Compared)
  BY PartsCompile
<1>5. MadeMeans(r, Parts)
  BY <1>3, <1>4 DEF T
<1> QED
  BY <1>4, <1>5, MadeEach, PickedIs DEF MadeMeans

-----------------------------------------------------------------------------
(* Sort keys                                                               *)

\* Ways go on along a path that leads on from the root.
LEMMA GrowAlong ==
  ASSUME NEW used, Closed(used), NEW r, NEW p \in Path, ClassAt(Class, p) # None, GoesOn(r, p)
  PROVE  \A f \in Paths(r, used) : \E h \in Paths(r, used \cup Prefixes(p)) : Agree(h, f, used)
<1> DEFINE T == {q \in Path : ClassAt(Class, q) # None /\ GoesOn(r, q) =>
                                \A f \in Paths(r, used) :
                                  \E h \in Paths(r, used \cup Prefixes(q)) : Agree(h, f, used)}
<1>1. <<>> \in T
  <2>1. used \cup Prefixes(<<>>) = used
    BY EmptyPath DEF Closed
  <2>2. \A f : Agree(f, f, used)
    BY DEF Agree
  <2> QED
    BY <2>1, <2>2, EmptyPath
<1>2. ASSUME NEW q \in Path, NEW link \in Field, q \in T PROVE Append(q, link) \in T
  <2> DEFINE s == Append(q, link)
             U == used \cup Prefixes(q)
             V == used \cup Prefixes(s)
  <2>1. s \in Path /\ s # <<>> /\ Front(s) = q /\ Prefixes(s) = Prefixes(q) \cup {s}
    BY PathAppend
  <2> SUFFICES ASSUME ClassAt(Class, s) # None, GoesOn(r, s), NEW f \in Paths(r, used)
               PROVE  \E h \in Paths(r, V) : Agree(h, f, used)
    BY <2>1
  <2>2. ClassAt(Class, q) # None
    BY ClassBefore, SchemaAssumption
  <2>3. GoesOn(r, q)
    BY <2>1 DEF GoesOn
  <2>4. PICK g \in Paths(r, U) : Agree(g, f, used)
    BY <1>2, <2>2, <2>3
  <2>5. Closed(Prefixes(q)) /\ q \in Prefixes(q)
    BY PrefixesClosed, PrefixesOfPath
  <2>6. Closed(U)
    BY <2>5 DEF Closed
  <2>7. CASE s \in U
    <3>1. V = U
      BY <2>1, <2>7
    <3> QED
      BY <2>4, <3>1
  <2>8. CASE s \notin U
    <3>1. Restr(g, Prefixes(q)) \in Paths(r, Prefixes(q)) /\ Restr(g, Prefixes(q))[q] = g[q]
      <4>1. Prefixes(q) \subseteq U
        OBVIOUS
      <4>2. /\ Restr(g, Prefixes(q)) \in Paths(r, Prefixes(q))
            /\ Agree(Restr(g, Prefixes(q)), g, Prefixes(q))
        BY <2>5, <4>1, RestrictWay
      <4> QED
        BY <2>5, <4>2 DEF Agree
    <3>2. Targets(g[q], s) # {}
      <4>1. \A h \in Paths(r, Prefixes(q)) : Targets(h[q], s) # {}
        BY <2>1 DEF GoesOn
      <4> QED
        BY <3>1, <4>1
    <3>3. PICK w : w \in Targets(g[q], s)
      BY <3>2
    <3>4. /\ Bind(g, s, w) \in Paths(r, U \cup {s})
          /\ Agree(Bind(g, s, w), g, U)
      <4>1. q \in U
        BY <2>5
      <4> QED
        BY <2>6, <2>8, <3>3, <4>1, GrowWay
    <3>5. U \cup {s} = V
      BY <2>1
    <3>6. Agree(Bind(g, s, w), f, used)
      BY <2>4, <3>4 DEF Agree
    <3> QED
      BY <3>4, <3>5, <3>6
  <2> QED
    BY <2>7, <2>8
<1> HIDE DEF T
<1>3. Path \subseteq T
  BY <1>1, <1>2, SeqSet DEF Path
<1> QED
  BY <1>3 DEF T

\* The pattern of a sort key takes no root away that has its key.
LEMMA OrderStays ==
  ASSUME graph \in Graphs, NEW T, NEW r, NEW R, NEW acc, NEW c, NEW E,
         Model(T, Nat, r, R, c, E), NEW key, key.ref.path \in DOMAIN c.joins,
         NEW v, HasKey(r, key.ref, v), NEW d, d = AddOrder(acc, c, key)
  PROVE  \E els : Stays(T, Nat, r, c, d, els, {}, {})
<1> DEFINE path == key.ref.path
           field == key.ref.field
           node == c.joins[path]
           x == c.next
           line == Triple(node, field, x)
           el == IF AddsOptional(acc, c) THEN Optional(<<line>>) ELSE line
           els == <<el>>
<1>1. /\ DOMAIN c = StateFields /\ IsSeq(c.group) /\ IsSeq(c.filters) /\ c.next \in Nat
      /\ Closed(DOMAIN c.joins) /\ node \in 0 .. c.next - 1
  BY ModelFacts
<1>2. d = [c EXCEPT !.group = Append(@, el), !.next = @ + 1]
  BY DEF AddOrder
<1>3. Adds(el, {node, x})
  <2>1. Adds(line, {node, x}) /\ Adds(Optional(<<line>>), {node, x})
    BY ElementsAdd
  <2> QED
    BY <2>1
<1>4. \A mu : Onward(mu, els) = After(mu, el) /\ IsSeq(els)
  BY OnwardOne
<1>5. ASSUME NEW mu, node \in DOMAIN mu, x \notin DOMAIN mu, v \in KeyValues(mu[node], key.ref)
      PROVE  After(mu, el) # {}
  <2>1. PICK u \in graph : u[1] = mu[node] /\ u[2] = field /\ u[3] = v
    BY <1>5 DEF KeyValues
  <2>2. Matches(graph, mu, line) # {}
    BY <1>5, <2>1, TripleMatches
  <2>3. CASE AddsOptional(acc, c)
    <3>1. After(mu, el) = LeftJoin(graph, mu, <<line>>)
      BY <2>3, AfterPattern
    <3>2. JoinAll(graph, {mu}, <<line>>) = Matches(graph, mu, line)
      BY JoinAllOne
    <3> QED
      BY <2>2, <3>1, <3>2 DEF LeftJoin
  <2>4. CASE ~AddsOptional(acc, c)
    BY <2>2, <2>4, AfterPattern
  <2> QED
    BY <2>3, <2>4
<1> HIDE DEF line, el, els
<1>6. /\ DOMAIN d = StateFields /\ d.group = Append(c.group, el) /\ d.filters = c.filters
      /\ d.joins = c.joins /\ d.next = x + 1
  BY <1>1, <1>2 DEF StateFields
<1>7. Append(c.group, el) = c.group \o els
  BY <1>1, AppendIsSeq DEF els
<1>8. x .. d.next - 1 = {x}
  BY <1>1, <1>6
<1>9. FullyLinked(r, path) /\ \A f \in Paths(r, Prefixes(path)) : KeyValues(f[path], key.ref) = {v}
  BY DEF HasKey
<1>10. ASSUME NEW mu \in At(T, c.group, r), NEW f \in Paths(r, DOMAIN c.joins), Stands(mu, c.joins, f)
       PROVE  /\ \A nu \in Onward(mu, els) : DOMAIN nu \subseteq DOMAIN mu \cup {x}
              /\ Onward(mu, els) # {}
  <2>1. node \in DOMAIN mu /\ mu[node] = f[path]
    BY <1>9, <1>10, NodeHere
  <2>2. x \notin DOMAIN mu
    BY <1>1, WayHere
  <2>3. KeyValues(f[path], key.ref) = {v}
    <3>1. path \in Path /\ Prefixes(path) \subseteq DOMAIN c.joins
      BY <1>1 DEF Closed
    <3>2. Closed(Prefixes(path)) /\ path \in Prefixes(path)
      BY <3>1, PrefixesClosed, PrefixesOfPath
    <3>3. /\ Restr(f, Prefixes(path)) \in Paths(r, Prefixes(path))
          /\ Agree(Restr(f, Prefixes(path)), f, Prefixes(path))
      BY <3>1, <3>2, RestrictWay
    <3>4. Restr(f, Prefixes(path))[path] = f[path]
      BY <3>2, <3>3 DEF Agree
    <3> QED
      BY <1>9, <3>3, <3>4
  <2>4. After(mu, el) # {}
    BY <1>5, <2>1, <2>2, <2>3
  <2> QED
    BY <1>3, <1>4, <2>1, <2>4 DEF Adds
<1>11. \A f : SayAll(r, {}, f)
  BY DEF SayAll
<1>12. \A mu \in At(T, c.group, r) : StaysOn(mu, Nat, r, c, d, els, {}, {})
  BY <1>8, <1>10, <1>11 DEF StaysOn
<1>13. \A mu \in From(T, c.group) : \A nu \in Onward(mu, els) : Extends(nu, mu)
  BY <1>3, <1>4 DEF Adds
<1>14. d.next \in Nat /\ d.next >= c.next /\ c.next .. d.next - 1 \subseteq Nat
  BY <1>1, <1>6, <1>8
<1>15. FiltersOf(d) = FiltersOf(c) \cup {}
  BY <1>6, NoFilter
<1>16. Stays(T, Nat, r, c, d, els, {}, {})
  BY <1>1, <1>4, <1>6, <1>7, <1>12, <1>13, <1>14, <1>15 DEF Stays
<1> QED
  BY <1>16

LEMMA OrderModel ==
  ASSUME graph \in Graphs, NEW T, NEW r, NEW R, NEW c, NEW E, Model(T, Nat, r, R, c, E),
         NEW key \in SortKeys, ~FieldRaises(Class, key.ref, Scalars),
         NEW v, HasKey(r, key.ref, v), NEW d, d = OrderPatterns(c, Class, key)
  PROVE  /\ Model(T, Nat, r, R, d, E)
         /\ DOMAIN d.joins = DOMAIN c.joins \cup Prefixes(key.ref.path)
<1> DEFINE path == key.ref.path
           g == FollowPath(c, Class, path)
<1>1. path \in Path
  BY QueryAssumption, StringPaths
<1>2. ClassAt(Class, path) # None
  BY FieldLeads
<1>3. FullyLinked(r, path)
  BY DEF HasKey
<1>4. path = <<>> \/ FullyLinked(r, Front(path))
  <2>1. path = <<>> \/ Front(path) \in Prefixes(path)
    BY <1>1, PrefixesOfPath, FrontOfPrefix
  <2> QED
    BY <1>1, <1>3, <2>1, LinkedBefore
<1>5. c.next .. g.next - 1 \subseteq Nat
  <2>1. c.next \in Nat
    BY ModelFacts
  <2> QED
    BY <2>1
<1>6. Tracks(T, Nat, r, R, c, path, E)
  BY <1>2, <1>4, <1>5 DEF Tracks
<1>7. Model(T, Nat, r, R, g, E) /\ DOMAIN g.joins = DOMAIN c.joins \cup Prefixes(path)
  BY <1>1, <1>6, FollowModel
<1>8. d = AddOrder(c, g, key)
  BY DEF OrderPatterns
<1>9. path \in DOMAIN g.joins
  BY <1>1, <1>7, PrefixesOfPath
<1> HIDE DEF g
<1>10. PICK els : Stays(T, Nat, r, g, d, els, {}, {})
  BY <1>7, <1>8, <1>9, OrderStays
<1>11. Model(T, Nat, r, R, d, E \cup {}) /\ d.joins = g.joins
  <2>1. Model(T, Nat, r, R, d, E \cup {})
    BY <1>7, <1>10, ModelStays
  <2>2. d.joins = g.joins
    BY <1>10 DEF Stays
  <2> QED
    BY <2>1, <2>2
<1>12. E \cup {} = E
  OBVIOUS
<1> QED
  BY <1>7, <1>11, <1>12

\* The sort keys of r that can be compiled.
KeysOf(r) ==
  {key \in SortKeys : ~FieldRaises(Class, key.ref, Scalars) /\ \E v : HasKey(r, key.ref, v)}

\* Ways along what c has followed go on along what d has.
WaysGo(r, c, d) ==
  \A f \in Paths(r, DOMAIN c.joins) : \E h \in Paths(r, DOMAIN d.joins) :
    Agree(h, f, DOMAIN c.joins)

\* What is compiled of the sort keys in s.
SortedOn(c, s) == Ordering!Result([compiled |-> c, keys |-> <<>>], s).compiled

LEMMA SortedEach ==
  /\ \A c, s : CompileOrder(Class, c, s).compiled = SortedOn(c, s)
  /\ \A c : SortedOn(c, <<>>) = c
  /\ \A S : \A s \in Seq(S) : \A key \in S : \A c :
       SortedOn(c, Append(s, key)) = OrderPatterns(SortedOn(c, s), Class, key)
<1>1. ASSUME NEW c, NEW s PROVE CompileOrder(Class, c, s).compiled = SortedOn(c, s)
  BY DEF SortedOn, CompileOrder, OrderStep, FoldLeft, MapThenFoldSet, Max, Ordering!Result,
         Ordering!MapThenFoldSet, Ordering!Max
<1>2. ASSUME NEW c PROVE SortedOn(c, <<>>) = c
  <2> DEFINE first == [compiled |-> c, keys |-> <<>>]
  <2>1. first.compiled = c
    OBVIOUS
  <2> HIDE DEF first
  <2>2. Ordering!Result(first, <<>>) = first
    BY Ordering!FoldEmpty
  <2> QED
    BY <2>1, <2>2 DEF SortedOn, first
<1>3. ASSUME NEW S, NEW s \in Seq(S), NEW key \in S, NEW c
      PROVE  SortedOn(c, Append(s, key)) = OrderPatterns(SortedOn(c, s), Class, key)
  <2> DEFINE first == [compiled |-> c, keys |-> <<>>]
  <2> HIDE DEF first
  <2>1. Ordering!Result(first, Append(s, key)) = OrderStep(Ordering!Result(first, s), key)
    BY Ordering!FoldAppend
  <2>2. \A before : OrderStep(before, key).compiled = OrderPatterns(before.compiled, Class, key)
    BY DEF OrderStep, AddKey
  <2> QED
    BY <2>1, <2>2 DEF SortedOn, first
<1> QED
  BY <1>1, <1>2, <1>3

LEMMA SortedModel ==
  ASSUME graph \in Graphs, NEW T, NEW r, NEW R, NEW c, NEW E, Model(T, Nat, r, R, c, E),
         NEW keys \in Seq(KeysOf(r))
  PROVE  /\ Model(T, Nat, r, R, SortedOn(c, keys), E) /\ WaysGo(r, c, SortedOn(c, keys))
         /\ DOMAIN c.joins \subseteq DOMAIN SortedOn(c, keys).joins
<1> DEFINE S == KeysOf(r)
           U == {s \in Seq(S) : /\ Model(T, Nat, r, R, SortedOn(c, s), E)
                                /\ DOMAIN c.joins \subseteq DOMAIN SortedOn(c, s).joins
                                /\ WaysGo(r, c, SortedOn(c, s))}
<1>1. <<>> \in U
  <2>1. WaysGo(r, c, c)
    BY DEF WaysGo, Agree
  <2> QED
    BY <2>1, SortedEach, EmptySeq
<1>2. ASSUME NEW s \in Seq(S), NEW key \in S, s \in U PROVE Append(s, key) \in U
  <2> DEFINE a == SortedOn(c, s)
             d == SortedOn(c, Append(s, key))
             path == key.ref.path
  <2>1. Append(s, key) \in Seq(S)
    BY AppendProperties
  <2>2. /\ Model(T, Nat, r, R, a, E) /\ DOMAIN c.joins \subseteq DOMAIN a.joins /\ WaysGo(r, c, a)
    BY <1>2
  <2>3. PICK v : HasKey(r, key.ref, v)
    BY DEF KeysOf
  <2>4. key \in SortKeys /\ ~FieldRaises(Class, key.ref, Scalars)
    BY DEF KeysOf
  <2>5. d = OrderPatterns(a, Class, key)
    BY SortedEach
  <2> HIDE DEF a, d
  <2>6. Model(T, Nat, r, R, d, E) /\ DOMAIN d.joins = DOMAIN a.joins \cup Prefixes(path)
    <3>1. Model(T, Nat, r, R, a, E) /\ graph \in Graphs
      BY <2>2
    <3>2. key \in SortKeys
      BY <2>4
    <3>3. ~FieldRaises(Class, key.ref, Scalars)
      BY <2>4
    <3> QED
      BY <2>3, <2>5, <3>1, <3>2, <3>3, OrderModel
  <2>7. WaysGo(r, a, d)
    <3>1. path \in Path /\ ClassAt(Class, path) # None
      BY <2>4, QueryAssumption, StringPaths, FieldLeads
    <3>2. Closed(DOMAIN a.joins) /\ GoesOn(r, path)
      BY <2>2, <2>3, ModelFacts DEF HasKey
    <3>3. \A f \in Paths(r, DOMAIN a.joins) : \E h \in Paths(r, DOMAIN a.joins \cup Prefixes(path)) :
            Agree(h, f, DOMAIN a.joins)
      BY <3>1, <3>2, GrowAlong
    <3> QED
      BY <2>6, <3>3 DEF WaysGo
  <2>8. WaysGo(r, c, d)
    BY <2>2, <2>7 DEF WaysGo, Agree
  <2>9. DOMAIN c.joins \subseteq DOMAIN d.joins
    BY <2>2, <2>6
  <2> QED
    BY <2>1, <2>6, <2>8, <2>9 DEF d
<1> HIDE DEF U
<1>3. Seq(S) \subseteq U
  BY <1>1, <1>2, SeqSet
<1> QED
  BY <1>3 DEF U

-----------------------------------------------------------------------------
(* What is compiled of sort keys only adds to what it is compiled on from  *)

Ready(c) == DOMAIN c = StateFields /\ c.next \in Nat /\ IsSeq(c.group) /\ <<>> \in DOMAIN c.joins

Beyond(T, c, d) ==
  /\ d.next >= c.next /\ d.filters = c.filters
  /\ NodesOf(d) \subseteq NodesOf(c) \cup Fresh(Nat, c.next)
  /\ \A nu \in From(T, d.group) : \E mu \in From(T, c.group) :
       Widens(nu, mu, NodesOf(c) \cup Fresh(Nat, c.next))

LEMMA BeyondSelf == \A T, c : c.next \in Nat => Beyond(T, c, c)
  BY DEF Beyond, Widens, Extends

LEMMA BeyondTwice ==
  \A T, c, d, e :
    c.next \in Nat /\ d.next \in Nat /\ e.next \in Nat /\ Beyond(T, c, d) /\ Beyond(T, d, e)
      => Beyond(T, c, e)
<1> SUFFICES ASSUME NEW T, NEW c, NEW d, NEW e, c.next \in Nat, d.next \in Nat, e.next \in Nat,
                    Beyond(T, c, d), Beyond(T, d, e)
             PROVE  Beyond(T, c, e)
  OBVIOUS
<1> DEFINE old == NodesOf(c) \cup Fresh(Nat, c.next)
           new == NodesOf(d) \cup Fresh(Nat, d.next)
<1>1. Fresh(Nat, d.next) \subseteq Fresh(Nat, c.next)
  BY DEF Fresh, Beyond
<1>2. new \subseteq old
  BY <1>1 DEF Beyond
<1>3. NodesOf(e) \subseteq old
  BY <1>2 DEF Beyond
<1>4. e.next >= c.next /\ e.filters = c.filters
  BY DEF Beyond
<1>5. ASSUME NEW pi \in From(T, e.group)
      PROVE  \E mu \in From(T, c.group) : Widens(pi, mu, old)
  <2>1. PICK nu \in From(T, d.group) : Widens(pi, nu, new)
    BY DEF Beyond
  <2>2. PICK mu \in From(T, c.group) : Widens(nu, mu, old)
    BY DEF Beyond
  <2> HIDE DEF old, new
  <2>3. old \cup new \subseteq old
    BY <1>2
  <2>4. Widens(pi, mu, old)
    BY <2>1, <2>2, <2>3, WidensTwice
  <2> QED
    BY <2>4
<1> QED
  BY <1>3, <1>4, <1>5 DEF Beyond

\* Elements that bind the node of p or a new variable are added.
AddsAt(c, d, els, p) ==
  /\ Ready(c) /\ IsSeq(els) /\ d.group = c.group \o els /\ p \in DOMAIN c.joins
  /\ \A mu : \A nu \in Onward(mu, els) :
       Extends(nu, mu) /\ DOMAIN nu \subseteq DOMAIN mu \cup {c.joins[p], c.next}
  /\ d.next = c.next + 1 /\ d.filters = c.filters
  /\ NodesOf(d) \subseteq NodesOf(c) \cup {c.next}

LEMMA AddsBeyond == \A T, c, d, els, p : AddsAt(c, d, els, p) => Beyond(T, c, d)
<1> SUFFICES ASSUME NEW T, NEW c, NEW d, NEW els, NEW p, AddsAt(c, d, els, p)
             PROVE  Beyond(T, c, d)
  OBVIOUS
<1> DEFINE old == NodesOf(c) \cup Fresh(Nat, c.next)
<1>0. /\ IsSeq(els) /\ d.group = c.group \o els /\ p \in DOMAIN c.joins
      /\ \A mu : \A nu \in Onward(mu, els) :
           Extends(nu, mu) /\ DOMAIN nu \subseteq DOMAIN mu \cup {c.joins[p], c.next}
      /\ d.next = c.next + 1 /\ d.filters = c.filters
      /\ NodesOf(d) \subseteq NodesOf(c) \cup {c.next}
  BY DEF AddsAt
<1>1. c.next \in Nat /\ IsSeq(c.group)
  BY DEF AddsAt, Ready
<1>2. c.next \in Fresh(Nat, c.next) /\ c.joins[p] \in NodesOf(c)
  BY <1>0, <1>1 DEF Fresh, NodesOf
<1>3. {c.joins[p], c.next} \subseteq old /\ NodesOf(d) \subseteq old
  BY <1>0, <1>2
<1>4. d.next >= c.next
  BY <1>0, <1>1
<1>5. From(T, d.group) = UNION {Onward(mu, els) : mu \in From(T, c.group)}
  BY <1>0, <1>1, FromConcat
<1> HIDE DEF old
<1>6. ASSUME NEW nu \in From(T, d.group) PROVE \E mu \in From(T, c.group) : Widens(nu, mu, old)
  <2>1. PICK mu \in From(T, c.group) : nu \in Onward(mu, els)
    BY <1>5
  <2>2. Extends(nu, mu) /\ DOMAIN nu \subseteq DOMAIN mu \cup {c.joins[p], c.next}
    BY <1>0, <2>1
  <2> QED
    BY <1>3, <2>2 DEF Widens
<1> QED
  BY <1>0, <1>3, <1>4, <1>6 DEF Beyond, old

LEMMA HopBeyond ==
  ASSUME graph \in Graphs, NEW T, NEW c, Ready(c), NEW p \in Path, p \in DOMAIN c.joins,
         NEW link \in Field
  PROVE  LET d == Hop(c, Class, Append(p, link))
         IN  Ready(d) /\ Append(p, link) \in DOMAIN d.joins /\ Beyond(T, c, d)
<1> DEFINE s == Append(p, link)
           d == Hop(c, Class, s)
           rel == RelAt(s)
           els == HopElements(c.joins[p], link, c.next, rel)
<1>1. DOMAIN c = StateFields /\ c.next \in Nat /\ IsSeq(c.group) /\ <<>> \in DOMAIN c.joins
  BY DEF Ready
<1>2. /\ DOMAIN d = StateFields /\ d.next = c.next + 1
      /\ d.joins = Bind(c.joins, s, c.next) /\ d.group = c.group \o els
  BY <1>1, HopState
<1>3. d.filters = c.filters
  BY <1>1, HopFilters
<1>4. /\ IsSeq(els)
      /\ \A mu : Onward(mu, els) =
           IF rel.nullable /\ Hopped(mu, c.joins[p], link, c.next, rel) = {} THEN {mu}
           ELSE Hopped(mu, c.joins[p], link, c.next, rel)
  BY OnwardHop
<1> HIDE DEF s, d, els, rel
<1>5. ASSUME NEW mu, NEW nu \in Onward(mu, els)
      PROVE  Extends(nu, mu) /\ DOMAIN nu \subseteq DOMAIN mu \cup {c.joins[p], c.next}
  <2>1. HopsTo(nu, mu, c.joins[p], link, c.next, rel)
    BY <1>4 DEF HopsTo
  <2> QED
    BY <2>1, HopBinds
<1>6. DOMAIN d.joins = DOMAIN c.joins \cup {s}
  BY <1>2 DEF Bind
<1>7. NodesOf(d) \subseteq NodesOf(c) \cup {c.next}
  BY <1>2 DEF NodesOf, Bind
<1>8. Beyond(T, c, d)
  <2>1. AddsAt(c, d, els, p)
    BY <1>2, <1>3, <1>4, <1>5, <1>7 DEF AddsAt
  <2> QED
    BY <2>1, AddsBeyond
<1>9. IsSeq(d.group)
  <2>1. PICK S : c.group \o els \in Seq(S)
    BY <1>1, <1>4, ConcatIsSeq
  <2> QED
    BY <1>2, <2>1 DEF IsSeq
<1>10. Ready(d)
  BY <1>1, <1>2, <1>6, <1>9 DEF Ready
<1> QED
  BY <1>6, <1>8, <1>10 DEF d, s

LEMMA FollowBeyond ==
  ASSUME graph \in Graphs, NEW T, NEW c, Ready(c), NEW p \in Path
  PROVE  LET d == FollowPath(c, Class, p)
         IN  Ready(d) /\ p \in DOMAIN d.joins /\ Beyond(T, c, d)
<1> DEFINE D(q) == FollowPath(c, Class, q)
           U == {q \in Path : Ready(D(q)) /\ q \in DOMAIN D(q).joins /\ Beyond(T, c, D(q))}
<1>1. <<>> \in U
  <2>1. D(<<>>) = c
    BY FollowEach
  <2>2. Beyond(T, c, c) /\ <<>> \in DOMAIN c.joins
    BY BeyondSelf DEF Ready
  <2> QED
    BY <2>1, <2>2, EmptyPath
<1>2. ASSUME NEW q \in Path, NEW link \in Field, q \in U PROVE Append(q, link) \in U
  <2> DEFINE s == Append(q, link)
             a == D(q)
             b == D(s)
  <2>1. s \in Path
    BY PathAppend
  <2>2. Ready(a) /\ q \in DOMAIN a.joins /\ Beyond(T, c, a)
    BY <1>2
  <2>3. b = FollowStep(a, s)
    BY FollowEach
  <2> HIDE DEF D, a, b
  <2>4. CASE s \in DOMAIN a.joins
    <3>1. b = a
      BY <2>3, <2>4 DEF FollowStep
    <3> QED
      BY <2>1, <2>2, <2>4, <3>1 DEF b
  <2>5. CASE s \notin DOMAIN a.joins
    <3>1. b = Hop(a, Class, s)
      BY <2>3, <2>5 DEF FollowStep
    <3>2. Ready(b) /\ s \in DOMAIN b.joins /\ Beyond(T, a, b)
      BY <2>2, <3>1, HopBeyond
    <3>3. c.next \in Nat /\ a.next \in Nat /\ b.next \in Nat
      BY <2>2, <3>2 DEF Ready
    <3>4. Beyond(T, c, b)
      BY <2>2, <3>2, <3>3, BeyondTwice
    <3> QED
      BY <2>1, <3>2, <3>4 DEF b
  <2> QED
    BY <2>4, <2>5
<1> HIDE DEF U
<1>3. Path \subseteq U
  BY <1>1, <1>2, SeqSet DEF Path
<1> QED
  BY <1>3 DEF U

LEMMA OrderBeyond ==
  ASSUME graph \in Graphs, NEW T, NEW c, Ready(c), NEW key \in SortKeys
  PROVE  Ready(OrderPatterns(c, Class, key)) /\ Beyond(T, c, OrderPatterns(c, Class, key))
<1> DEFINE path == key.ref.path
           a == FollowPath(c, Class, path)
           node == a.joins[path]
           line == Triple(node, key.ref.field, a.next)
           el == IF AddsOptional(c, a) THEN Optional(<<line>>) ELSE line
           els == <<el>>
           d == OrderPatterns(c, Class, key)
<1>1. path \in Path
  BY QueryAssumption, StringPaths
<1>2. Ready(a) /\ path \in DOMAIN a.joins /\ Beyond(T, c, a)
  BY <1>1, FollowBeyond
<1>3. d = [a EXCEPT !.group = Append(@, el), !.next = @ + 1]
  BY DEF OrderPatterns, AddOrder
<1>4. Adds(el, {node, a.next})
  <2>1. Adds(line, {node, a.next}) /\ Adds(Optional(<<line>>), {node, a.next})
    BY ElementsAdd
  <2> QED
    BY <2>1
<1>5. \A mu : Onward(mu, els) = After(mu, el) /\ IsSeq(els)
  BY OnwardOne
<1> HIDE DEF line, el, els, d, a
<1>6. DOMAIN a = StateFields /\ a.next \in Nat /\ IsSeq(a.group) /\ <<>> \in DOMAIN a.joins
  BY <1>2 DEF Ready
<1>7. /\ DOMAIN d = StateFields /\ d.group = Append(a.group, el) /\ d.filters = a.filters
      /\ d.joins = a.joins /\ d.next = a.next + 1
  BY <1>3, <1>6 DEF StateFields
<1>8. Append(a.group, el) = a.group \o els /\ IsSeq(Append(a.group, el))
  BY <1>6, AppendIsSeq DEF els
<1>9. NodesOf(d) \subseteq NodesOf(a) \cup {a.next}
  BY <1>7 DEF NodesOf
<1>10. Beyond(T, a, d)
  <2>1. \A mu : \A nu \in Onward(mu, els) :
          Extends(nu, mu) /\ DOMAIN nu \subseteq DOMAIN mu \cup {a.joins[path], a.next}
    BY <1>4, <1>5 DEF Adds
  <2>2. IsSeq(els) /\ d.group = a.group \o els
    BY <1>5, <1>7, <1>8
  <2>3. Ready(a) /\ path \in DOMAIN a.joins
    BY <1>2
  <2>4. d.next = a.next + 1 /\ d.filters = a.filters
    BY <1>7
  <2>5. AddsAt(a, d, els, path)
    BY <1>9, <2>1, <2>2, <2>3, <2>4 DEF AddsAt
  <2> QED
    BY <2>5, AddsBeyond
<1>11. Ready(d)
  BY <1>6, <1>7, <1>8 DEF Ready
<1>12. c.next \in Nat /\ d.next \in Nat
  BY <1>11 DEF Ready
<1>13. Beyond(T, c, d)
  BY <1>2, <1>6, <1>10, <1>12, BeyondTwice
<1> QED
  BY <1>11, <1>13 DEF d

LEMMA SortedBeyond ==
  ASSUME graph \in Graphs, NEW T, NEW c, Ready(c), NEW keys \in Seq(SortKeys)
  PROVE  Ready(SortedOn(c, keys)) /\ Beyond(T, c, SortedOn(c, keys))
<1> DEFINE U == {s \in Seq(SortKeys) : Ready(SortedOn(c, s)) /\ Beyond(T, c, SortedOn(c, s))}
<1>1. <<>> \in U
  <2>1. Beyond(T, c, c)
    BY BeyondSelf DEF Ready
  <2> QED
    BY <2>1, SortedEach, EmptySeq
<1>2. ASSUME NEW s \in Seq(SortKeys), NEW key \in SortKeys, s \in U PROVE Append(s, key) \in U
  <2> DEFINE a == SortedOn(c, s)
             d == SortedOn(c, Append(s, key))
  <2>1. Append(s, key) \in Seq(SortKeys)
    BY AppendProperties
  <2>2. Ready(a) /\ Beyond(T, c, a)
    BY <1>2
  <2>3. d = OrderPatterns(a, Class, key)
    BY SortedEach
  <2> HIDE DEF a, d
  <2>4. Ready(d) /\ Beyond(T, a, d)
    BY <2>2, <2>3, OrderBeyond
  <2>5. c.next \in Nat /\ a.next \in Nat /\ d.next \in Nat
    BY <2>2, <2>4 DEF Ready
  <2>6. Beyond(T, c, d)
    BY <2>2, <2>4, <2>5, BeyondTwice
  <2> QED
    BY <2>1, <2>4, <2>6 DEF d
<1> HIDE DEF U
<1>3. Seq(SortKeys) \subseteq U
  BY <1>1, <1>2, SeqSet
<1> QED
  BY <1>3 DEF U

-----------------------------------------------------------------------------
(* The roots of the rows                                                   *)

\* The parts that compare what paths lead to.
LEMMA PickedParts ==
  ASSUME NEW S, NEW s \in Seq(S)
  PROVE  PartsOf(Picked(s)) = {e \in PartsOf(s) : OfPath(e)}
<1> DEFINE U == {q \in Seq(S) : PartsOf(Picked(q)) = {e \in PartsOf(q) : OfPath(e)}}
<1>1. <<>> \in U
  <2>1. Picked(<<>>) = <<>>
    BY PickedEach
  <2>2. PartsOf(<<>>) = {}
    BY DEF PartsOf
  <2>3. <<>> \in Seq(S)
    BY EmptySeq
  <2> QED
    BY <2>1, <2>2, <2>3
<1>2. ASSUME NEW q \in Seq(S), NEW e \in S, q \in U PROVE Append(q, e) \in U
  <2> DEFINE t == Append(q, e)
  <2>1. t \in Seq(S)
    BY AppendProperties
  <2>2. PartsOf(t) = PartsOf(q) \cup {e}
    BY AppendParts
  <2>3. Picked(q) \in Seq(S) /\ Picked(t) = IF OfPath(e) THEN Append(Picked(q), e) ELSE Picked(q)
    BY PickedEach
  <2>4. PartsOf(Picked(q)) = {x \in PartsOf(q) : OfPath(x)}
    BY <1>2
  <2> HIDE DEF t
  <2>5. PartsOf(Picked(t)) = {x \in PartsOf(t) : OfPath(x)}
    <3>1. CASE OfPath(e)
      <4>1. PartsOf(Append(Picked(q), e)) = PartsOf(Picked(q)) \cup {e}
        BY <2>3, AppendParts
      <4> QED
        BY <2>2, <2>3, <2>4, <3>1, <4>1
    <3>2. CASE ~OfPath(e)
      BY <2>2, <2>3, <2>4, <3>2
    <3> QED
      BY <3>1, <3>2
  <2> QED
    BY <2>1, <2>5 DEF t
<1> HIDE DEF U
<1>3. Seq(S) \subseteq U
  BY <1>1, <1>2, SeqSet
<1> QED
  BY <1>3 DEF U

\* What is meant is that all parts hold of one way.
LEMMA MeansWay ==
  ASSUME BuilderOK, NEW r \in Subjects,
         \A e \in PartsOf(Parts) : OfPath(e) => e.left.path \in PathsOf(Compared)
  PROVE  Means(r) <=> r \in Chosen /\ \E f \in Paths(r, PathsOf(Compared)) :
                                        SayAll(r, PartsOf(Parts), f)
<1>1. Parts \in Seq(Parted)
  BY InOrderParted DEF BuilderOK, Parts
<1>2. PartsOf(Compared) = {e \in PartsOf(Parts) : OfPath(e)}
  BY <1>1, PickedParts, PickedIs
<1>3. \A f : (\A i \in DOMAIN Compared : CompareMeans(Compared[i], f[Compared[i].left.path]))
               <=> \A e \in PartsOf(Compared) : CompareMeans(e, f[e.left.path])
  BY DEF PartsOf
<1>4. (\A i \in DOMAIN Parts : ~OfPath(Parts[i]) => FilterMeans(r, Parts[i]))
        <=> \A e \in PartsOf(Parts) : ~OfPath(e) => FilterMeans(r, e)
  BY DEF PartsOf
<1>5. \A f : SayAll(r, PartsOf(Parts), f)
               <=> /\ \A e \in PartsOf(Compared) : CompareMeans(e, f[e.left.path])
                   /\ \A e \in PartsOf(Parts) : ~OfPath(e) => FilterMeans(r, e)
  BY <1>2 DEF SayAll, Says
<1>6. ConjunctionMeans(r, Compared) <=>
        \E f \in Paths(r, PathsOf(Compared)) :
          \A e \in PartsOf(Compared) : CompareMeans(e, f[e.left.path])
  BY <1>3 DEF ConjunctionMeans
<1>7. r \in Chosen <=>
        IsRoot(r) /\ (query.values_bindings = <<>> \/ r \in ToSet(query.values_bindings))
  BY DEF Chosen
<1>8. Means(r) <=> /\ r \in Chosen
                   /\ ConjunctionMeans(r, Compared)
                   /\ \A e \in PartsOf(Parts) : ~OfPath(e) => FilterMeans(r, e)
  BY <1>4, <1>7 DEF Means
<1> QED
  BY <1>5, <1>6, <1>8

\* What is compiled of a query, with its sort keys or without.
SelectOf(count) ==
  SortedOn(CompileFilters(Class, query), IF count THEN <<>> ELSE query.order_by)

RootsOf(count) == {mu[Root] : mu \in Rows(CompileWhere(Class, query, count))}

LEMMA RowsAre ==
  ASSUME NEW count, IsSeq(SelectOf(count).group)
  PROVE  /\ Rows(CompileWhere(Class, query, count)) =
              {mu \in From(SolsOf(<<>>), SelectOf(count).group) : AllHold(mu, SelectOf(count))}
         /\ ToSet(CompileWhere(Class, query, count).filters) = FiltersOf(SelectOf(count))
<1> DEFINE d == SelectOf(count)
           c == CompileWhere(Class, query, count)
           keys == IF count THEN <<>> ELSE query.order_by
<1>1. d = CompileOrder(Class, CompileFilters(Class, query), keys).compiled
  BY SortedEach DEF SelectOf
<1>2. c.group = Before \o d.group /\ c.filters = d.filters
  BY <1>1 DEF CompileWhere, Select, Before
<1>3. SolsOf(d.group) = From(SolsOf(<<>>), d.group)
  BY SolsFrom
<1> HIDE DEF c, d
<1>4. \A mu : AllHold(mu, d) <=> \A i \in DOMAIN d.filters : Holds(graph, mu, d.filters[i])
  BY DEF AllHold, FiltersOf
<1>5. Rows(c) = {mu \in SolsOf(d.group) : \A i \in DOMAIN d.filters : Holds(graph, mu, d.filters[i])}
  BY <1>2 DEF Rows, Solutions, SolsOf
<1>6. Rows(c) = {mu \in From(SolsOf(<<>>), d.group) : AllHold(mu, d)}
  BY <1>3, <1>4, <1>5
<1>7. ToSet(c.filters) = FiltersOf(d)
  BY <1>2 DEF ToSet, FiltersOf
<1> QED
  BY <1>6, <1>7 DEF c, d

\* A query that can be run: what its filters compile to, and what its sort keys add.
LEMMA SelectBuilt ==
  ASSUME BuilderOK, ~Fails(FALSE), NEW count \in BOOLEAN, NEW c, c = CompileFilters(Class, query)
  PROVE  /\ Good(c) /\ NotSparql \notin FiltersOf(c) /\ SelectOf(TRUE) = c
         /\ IsSeq(SelectOf(count).group) /\ Beyond(SolsOf(<<>>), c, SelectOf(count))
<1>1. /\ graph \in Graphs /\ query.polymorphic \in BOOLEAN
      /\ query.expressions \in Seq(Filters) /\ query.order_by \in Seq(SortKeys)
      /\ ~WhereRaises(Class, query, FALSE)
  BY DEF BuilderOK, Fails
<1>2. Good(c)
  BY <1>1, FiltersGood
<1>3. Ready(c)
  BY <1>2 DEF Good, Shape, Ready
<1>4. \A keys \in Seq(SortKeys) : Ready(SortedOn(c, keys)) /\ Beyond(SolsOf(<<>>), c, SortedOn(c, keys))
  BY <1>1, <1>3, SortedBeyond
<1>5. <<>> \in Seq(SortKeys)
  BY EmptySeq
<1>6. \A b \in BOOLEAN : Ready(SelectOf(b)) /\ Beyond(SolsOf(<<>>), c, SelectOf(b))
  BY <1>1, <1>4, <1>5 DEF SelectOf
<1>7. \A b \in BOOLEAN : IsSeq(SelectOf(b).group) /\ SelectOf(b).filters = c.filters
  BY <1>6 DEF Ready, Beyond
<1>8. NotSparql \notin FiltersOf(c)
  <2>1. NotSparql \notin ToSet(CompileWhere(Class, query, FALSE).filters)
    BY DEF Fails
  <2>2. ToSet(CompileWhere(Class, query, FALSE).filters) = FiltersOf(SelectOf(FALSE))
    BY <1>7, RowsAre
  <2>3. FiltersOf(SelectOf(FALSE)) = FiltersOf(c)
    BY <1>7 DEF FiltersOf
  <2> QED
    BY <2>1, <2>2, <2>3
<1>9. SelectOf(TRUE) = c
  BY SortedEach DEF SelectOf
<1> QED
  BY <1>2, <1>6, <1>7, <1>8, <1>9

LEMMA QueryModel ==
  ASSUME BuilderOK, ~Fails(FALSE), NEW r \in Subjects, LinksSuffice(r),
         NEW c, c = CompileFilters(Class, query)
  PROVE  /\ Model(SolsOf(<<>>), Nat, r, Chosen, c, PartsOf(Parts))
         /\ DOMAIN c.joins = PathsOf(Compared)
<1>1. NotSparql \notin FiltersOf(c)
  BY SelectBuilt
<1>2. \A i \in DOMAIN Parts : ~FilterRaises(Class, Parts[i])
  BY DEF Fails, WhereRaises, Parts
<1> QED
  BY <1>1, <1>2, FiltersModel

\* The rows that count() and all() take from the store name the roots that are meant.
LEMMA RowsMean ==
  ASSUME BuilderOK, ~Fails(FALSE), NEW count \in BOOLEAN, NEW r \in Subjects, LinksSuffice(r),
         count \/ Sortable(r)
  PROVE  r \in RootsOf(count) <=> Means(r)
<1> DEFINE c == CompileFilters(Class, query)
           keys == IF count THEN <<>> ELSE query.order_by
           d == SelectOf(count)
           T == SolsOf(<<>>)
           E == PartsOf(Parts)
<1>1. Model(T, Nat, r, Chosen, c, E) /\ DOMAIN c.joins = PathsOf(Compared)
  BY QueryModel
<1>2. keys \in Seq(KeysOf(r))
  <2>1. CASE count
    BY <2>1, EmptySeq
  <2>2. CASE ~count
    <3>1. query.order_by \in Seq(SortKeys)
      BY DEF BuilderOK
    <3>2. \A i \in DOMAIN query.order_by : ~FieldRaises(Class, query.order_by[i].ref, Scalars)
      BY DEF Fails, WhereRaises
    <3>3. \A i \in DOMAIN query.order_by : \E v : HasKey(r, query.order_by[i].ref, v)
      BY <2>2 DEF Sortable
    <3>4. \A i \in DOMAIN query.order_by : query.order_by[i] \in KeysOf(r)
      BY <3>1, <3>2, <3>3 DEF KeysOf
    <3> QED
      BY <2>2, <3>1, <3>4, SeqWithin
  <2> QED
    BY <2>1, <2>2
<1>3. graph \in Graphs
  BY DEF BuilderOK
<1>4. /\ Model(T, Nat, r, Chosen, d, E) /\ WaysGo(r, c, d)
      /\ DOMAIN c.joins \subseteq DOMAIN d.joins
  BY <1>1, <1>2, <1>3, SortedModel DEF SelectOf
<1>5. Rows(CompileWhere(Class, query, count)) = {mu \in From(T, d.group) : AllHold(mu, d)}
  <2>1. IsSeq(d.group)
    BY SelectBuilt
  <2> QED
    BY <2>1, RowsAre
<1> HIDE DEF c, d, keys, T, E
<1>6. Closed(DOMAIN c.joins) /\ \A e \in E : OfPath(e) => e.left.path \in DOMAIN c.joins
  <2>1. Closed(DOMAIN c.joins)
    BY <1>1, ModelFacts
  <2>2. \A e \in E : OfPath(e) => e.left.path \in DOMAIN c.joins
    BY <1>1 DEF Model
  <2> QED
    BY <2>1, <2>2
<1>7. Means(r) <=> r \in Chosen /\ \E f \in Paths(r, DOMAIN c.joins) : SayAll(r, E, f)
  BY <1>1, <1>6, MeansWay DEF E
<1>8. \A f, h : Agree(h, f, DOMAIN c.joins) => (SayAll(r, E, h) <=> SayAll(r, E, f))
  BY <1>6 DEF Agree, SayAll, Says
<1>9. r \in RootsOf(count) <=> \E mu \in At(T, d.group, r) : AllHold(mu, d)
  BY <1>5 DEF RootsOf, At
<1>10. ASSUME NEW mu \in At(T, d.group, r), AllHold(mu, d) PROVE Means(r)
  <2>1. PICK h \in Paths(r, DOMAIN d.joins) : r \in Chosen /\ SayAll(r, E, h)
    BY <1>4, <1>10 DEF Model, Standing
  <2>2. /\ Restr(h, DOMAIN c.joins) \in Paths(r, DOMAIN c.joins)
        /\ Agree(Restr(h, DOMAIN c.joins), h, DOMAIN c.joins)
    BY <1>4, <1>6, RestrictWay
  <2>3. Agree(h, Restr(h, DOMAIN c.joins), DOMAIN c.joins)
    BY <2>2 DEF Agree
  <2>4. SayAll(r, E, Restr(h, DOMAIN c.joins))
    BY <1>8, <2>1, <2>3
  <2> QED
    BY <1>7, <2>1, <2>2, <2>4
<1>11. ASSUME Means(r) PROVE \E mu \in At(T, d.group, r) : AllHold(mu, d)
  <2>1. PICK f \in Paths(r, DOMAIN c.joins) : SayAll(r, E, f)
    BY <1>7, <1>11
  <2>2. PICK h \in Paths(r, DOMAIN d.joins) : Agree(h, f, DOMAIN c.joins)
    BY <1>4 DEF WaysGo
  <2>3. r \in Chosen /\ SayAll(r, E, h)
    BY <1>7, <1>8, <1>11, <2>1, <2>2
  <2> QED
    BY <1>4, <2>2, <2>3 DEF Model
<1> QED
  BY <1>9, <1>10, <1>11

LEMMA RootsKnown ==
  ASSUME BuilderOK, ~Fails(FALSE), NEW count \in BOOLEAN
  PROVE  RootsOf(count) \subseteq Subjects
<1> DEFINE c == CompileFilters(Class, query)
           d == SelectOf(count)
           T == SolsOf(<<>>)
<1>1. Good(c) /\ IsSeq(d.group) /\ Beyond(T, c, d)
  BY SelectBuilt
<1>2. Rows(CompileWhere(Class, query, count)) = {mu \in From(T, d.group) : AllHold(mu, d)}
  BY <1>1, RowsAre
<1> HIDE DEF c, d
<1>3. ASSUME NEW mu \in From(T, c.group) PROVE Root \in DOMAIN mu /\ mu[Root] \in Subjects
  <2>1. IsSeq(c.group)
    BY <1>1 DEF Good, Shape
  <2>2. mu \in SolsOf(c.group)
    BY <2>1, SolsFrom
  <2> QED
    BY <1>1, <2>2 DEF Good, Sound, Rooted
<1>4. ASSUME NEW nu \in From(T, d.group) PROVE nu[Root] \in Subjects
  <2>1. PICK mu \in From(T, c.group) : Widens(nu, mu, NodesOf(c) \cup Fresh(Nat, c.next))
    BY <1>1 DEF Beyond
  <2> QED
    BY <1>3, <2>1 DEF Widens, Extends
<1> QED
  BY <1>2, <1>4 DEF RootsOf

\* Sort keys add no root.
LEMMA SortedRootsWithin ==
  ASSUME BuilderOK, ~Fails(FALSE), \A r \in Subjects : LinksSuffice(r)
  PROVE  RootsOf(FALSE) \subseteq RootsOf(TRUE)
<1> DEFINE c == CompileFilters(Class, query)
           d == SelectOf(FALSE)
           T == SolsOf(<<>>)
           E == PartsOf(Parts)
<1>1. /\ Good(c) /\ SelectOf(TRUE) = c /\ IsSeq(c.group) /\ IsSeq(d.group)
      /\ Beyond(T, c, d)
  <2>1. Good(c) /\ SelectOf(TRUE) = c /\ IsSeq(d.group) /\ Beyond(T, c, d)
    BY SelectBuilt
  <2>2. IsSeq(c.group)
    BY <2>1 DEF Good, Shape
  <2> QED
    BY <2>1, <2>2
<1>2. /\ Rows(CompileWhere(Class, query, TRUE)) = {mu \in From(T, c.group) : AllHold(mu, c)}
      /\ Rows(CompileWhere(Class, query, FALSE)) = {mu \in From(T, d.group) : AllHold(mu, d)}
  <2>1. Rows(CompileWhere(Class, query, FALSE)) = {mu \in From(T, d.group) : AllHold(mu, d)}
    BY <1>1, RowsAre
  <2>2. Rows(CompileWhere(Class, query, TRUE)) =
          {mu \in From(T, SelectOf(TRUE).group) : AllHold(mu, SelectOf(TRUE))}
    BY <1>1, RowsAre
  <2> QED
    BY <1>1, <2>1, <2>2
<1>3. \A r \in Subjects : Model(T, Nat, r, Chosen, c, E)
  BY QueryModel
<1> HIDE DEF c, d, T, E
<1>4. ASSUME NEW nu \in From(T, d.group), AllHold(nu, d)
      PROVE  \E mu \in From(T, c.group) : AllHold(mu, c) /\ mu[Root] = nu[Root]
  <2>1. PICK mu \in From(T, c.group) : Widens(nu, mu, NodesOf(c) \cup Fresh(Nat, c.next))
    BY <1>1 DEF Beyond
  <2>2. Root \in DOMAIN mu /\ mu[Root] \in Subjects
    <3>1. mu \in SolsOf(c.group)
      BY <1>1, SolsFrom DEF T
    <3> QED
      BY <1>1, <3>1 DEF Good, Sound, Rooted
  <2>3. mu \in At(T, c.group, mu[Root])
    BY DEF At
  <2>4. \A g \in FiltersOf(c) : Settled(mu, g, NodesOf(c), Fresh(Nat, c.next))
    BY <1>3, <2>2, <2>3 DEF Model, Standing
  <2>5. FiltersOf(d) = FiltersOf(c)
    BY <1>1 DEF Beyond, FiltersOf
  <2>6. AllHold(mu, c)
    BY <1>4, <2>1, <2>4, <2>5 DEF AllHold, Settled
  <2>7. nu[Root] = mu[Root]
    BY <2>1, <2>2 DEF Widens, Extends
  <2> QED
    BY <2>6, <2>7
<1> QED
  BY <1>2, <1>4 DEF RootsOf

-----------------------------------------------------------------------------
(* Every answer of every query is what is meant                            *)

\* The sequences in which the rows are answered hold each of their roots once.
LEMMA OrdersAre ==
  ASSUME BuilderOK, ~Fails(FALSE), NEW s \in Orders(CompileWhere(Class, query, FALSE))
  PROVE  /\ s \in Seq(RootsOf(FALSE)) /\ ToSet(s) = RootsOf(FALSE)
         /\ Len(s) = Cardinality(RootsOf(FALSE))
<1> DEFINE c == CompileWhere(Class, query, FALSE)
           D == RootsOf(FALSE)
           n == Cardinality(D)
<1>1. IsFiniteSet(D)
  <2>1. D \subseteq Subjects
    BY RootsKnown
  <2>2. D \subseteq Resources /\ graph \in Graphs
    BY <2>1, SubjectsAreResources DEF BuilderOK
  <2> QED
    BY <2>2, ResourcesFinite, FS_Subset
<1>2. n \in Nat
  BY <1>1, FS_CardinalityType
<1>3. DOMAIN RootKeys(Rows(c), c.keys) = D
  BY DEF RootKeys, RootsOf
<1>4. s \in Sorted(RootKeys(Rows(c), c.keys))
  BY DEF Orders
<1> HIDE DEF c, D
<1>5. s \in [1 .. n -> D] /\ \A i, j \in 1 .. n : i # j => s[i] # s[j]
  BY <1>3, <1>4 DEF Sorted, SetToSeqs
<1> HIDE DEF n
<1>6. s \in Injection(1 .. n, D)
  BY <1>5, Fun_IsInj
<1>7. IsFiniteSet(1 .. n) /\ Cardinality(1 .. n) = n
  <2>1. IsFiniteSet(1 .. n) /\ Cardinality(1 .. n) = IF 1 > n THEN 0 ELSE n - 1 + 1
    BY <1>2, FS_Interval
  <2> QED
    BY <1>2, <2>1
<1>8. s \in Surjection(1 .. n, D)
  BY <1>1, <1>6, <1>7, FS_Injection DEF n
<1>9. \A d \in D : \E i \in 1 .. n : s[i] = d
  BY <1>8 DEF Surjection
<1>10. s \in Seq(D) /\ Len(s) = n
  BY <1>2, <1>5, SeqDef, LenProperties
<1>11. ToSet(s) = D
  BY <1>5, <1>9 DEF ToSet
<1> QED
  BY <1>10, <1>11 DEF D, n

LEMMA WholePage ==
  ASSUME NEW S, NEW s \in Seq(S)
  PROVE  Page(s, None, None) = s
<1>1. SubSeq(s, 1, Len(s)) = s
  BY SubSeqFull
<1>2. 0 + 1 = 1
  OBVIOUS
<1> QED
  BY <1>1, <1>2 DEF Page

LEMMA FirstPage ==
  ASSUME NEW S, NEW s \in Seq(S)
  PROVE  Page(s, None, 1) = IF s = <<>> THEN <<>> ELSE <<Head(s)>>
<1>1. SubSeq(s, 1, Len(s)) = s /\ Len(s) \in Nat
  BY SubSeqFull, LenProperties
<1>2. 0 + 1 = 1 /\ None # 1
  BY QueryAssumption
<1>3. Page(s, None, 1) = IF 1 >= Len(s) THEN s ELSE SubSeq(s, 1, 1)
  BY <1>1, <1>2 DEF Page
<1>4. CASE s = <<>>
  <2>1. Len(s) = 0
    BY <1>4
  <2>2. 1 >= Len(s)
    BY <2>1
  <2> QED
    BY <1>3, <1>4, <2>2
<1>5. CASE s # <<>>
  <2>1. Len(s) # 0 /\ Head(s) = s[1] /\ DOMAIN s = 1 .. Len(s) /\ s \in [1 .. Len(s) -> S]
    BY <1>5, EmptySeq, HeadTailProperties, LenProperties
  <2>2. 1 \in 1 .. Len(s) /\ Len(s) >= 1
    BY <1>1, <2>1
  <2>3. CASE 1 >= Len(s)
    <3>1. Len(s) = 1
      BY <1>1, <2>2, <2>3
    <3>2. s = <<s[1]>>
      BY <3>1
    <3> QED
      BY <1>3, <1>5, <2>1, <2>3, <3>2
  <2>4. CASE ~(1 >= Len(s))
    <3>1. \A i \in 1 .. 1 : s[i] \in S
      BY <2>1, <2>2
    <3>2. /\ SubSeq(s, 1, 1) \in Seq(S) /\ Len(SubSeq(s, 1, 1)) = IF 1 <= 1 THEN 1 - 1 + 1 ELSE 0
          /\ \A i \in 1 .. 1 - 1 + 1 : SubSeq(s, 1, 1)[i] = s[1 + i - 1]
      BY <3>1, SubSeqProperties
    <3> DEFINE p == SubSeq(s, 1, 1)
    <3>3. Len(p) = 1 /\ p[1] = s[1] /\ p \in Seq(S)
      BY <3>2
    <3> HIDE DEF p
    <3>4. p = <<s[1]>>
      BY <3>3
    <3> QED
      BY <1>3, <1>5, <2>1, <2>4, <3>4 DEF p
  <2> QED
    BY <2>3, <2>4
<1> QED
  BY <1>4, <1>5

\* The pages of a query that is not paged, and those of first().
LEMMA PagesAre ==
  ASSUME BuilderOK, ~Fails(FALSE)
  PROVE  /\ Pages(None, None) = Orders(CompileWhere(Class, query, FALSE))
         /\ Pages(None, 1) = {IF s = <<>> THEN <<>> ELSE <<Head(s)>> :
                                s \in Orders(CompileWhere(Class, query, FALSE))}
<1>1. \A s \in Orders(CompileWhere(Class, query, FALSE)) :
        /\ Page(s, None, None) = s
        /\ Page(s, None, 1) = IF s = <<>> THEN <<>> ELSE <<Head(s)>>
  BY OrdersAre, WholePage, FirstPage
<1> QED
  BY <1>1 DEF Pages

\* An answer is one that its call can give of the query as it is.
Answered ==
  /\ answer.call = "all" => ~Fails(FALSE) /\ answer.result \in Pages(query.offset, query.limit)
  /\ answer.call = "first" => ~Fails(FALSE) /\ answer.result \in Pages(None, 1)
  /\ answer.call = "count" => answer.result = Cardinality(RootsOf(TRUE))

AnswerInv == SortedInv /\ Answered

LEMMA AskedSame ==
  ASSUME UNCHANGED <<graph, query>>
  PROVE  /\ \A count : Fails(count)' = Fails(count) /\ RootsOf(count)' = RootsOf(count)
         /\ \A offset, limit : Pages(offset, limit)' = Pages(offset, limit)
<1>1. \A count : Fails(count)' = Fails(count)
  BY DEF Fails
<1>2. \A count : RootsOf(count)' = RootsOf(count)
  BY DEF RootsOf, Rows
<1>3. \A offset, limit : Pages(offset, limit)' = Pages(offset, limit)
  BY DEF Pages, Orders, Rows
<1> QED
  BY <1>1, <1>2, <1>3

LEMMA BuiltAnswered ==
  ASSUME NEW call, NEW q, Built(call, q)
  PROVE  Answered'
<1>1. answer'.call = "none"
  BY DEF Built, NoAnswer
<1> QED
  BY <1>1 DEF Answered

LEMMA BuildersAnswered ==
  \/ Where \/ OrderBy \/ Limit \/ Offset \/ Polymorphic \/ Values
  \/ UseNotExists \/ UseInequality \/ UseOptional
  => Answered'
<1>1. Where => Answered'
  BY BuiltAnswered DEF Where
<1>2. OrderBy => Answered'
  BY BuiltAnswered DEF OrderBy
<1>3. Limit => Answered'
  BY BuiltAnswered DEF Limit
<1>4. Offset => Answered'
  BY BuiltAnswered DEF Offset
<1>5. Polymorphic => Answered'
  BY BuiltAnswered DEF Polymorphic
<1>6. Values => Answered'
  BY BuiltAnswered DEF Values
<1>7. UseNotExists => Answered'
  BY BuiltAnswered DEF UseNotExists
<1>8. UseInequality => Answered'
  BY BuiltAnswered DEF UseInequality
<1>9. UseOptional => Answered'
  BY BuiltAnswered DEF UseOptional
<1> QED
  BY <1>1, <1>2, <1>3, <1>4, <1>5, <1>6, <1>7, <1>8, <1>9

LEMMA RunsAnswered == All \/ First \/ Count \/ RunRaises => Answered'
<1>1. ASSUME All PROVE Answered'
  <2>1. ~Fails(FALSE)
    BY <1>1 DEF All
  <2>2. PICK s \in Pages(query.offset, query.limit) : Answers("all", s)
    BY <1>1 DEF All
  <2>3. UNCHANGED <<graph, query>> /\ answer'.call = "all" /\ answer'.result = s
    BY <2>2 DEF Answers
  <2>4. Fails(FALSE)' = Fails(FALSE) /\ Pages(query.offset, query.limit)' = Pages(query.offset, query.limit)
    BY <2>3, AskedSame
  <2> QED
    BY <2>1, <2>2, <2>3, <2>4 DEF Answered
<1>2. ASSUME First PROVE Answered'
  <2>1. ~Fails(FALSE)
    BY <1>2 DEF First
  <2>2. PICK s \in Pages(None, 1) : Answers("first", s)
    BY <1>2 DEF First
  <2>3. UNCHANGED <<graph, query>> /\ answer'.call = "first" /\ answer'.result = s
    BY <2>2 DEF Answers
  <2>4. Fails(FALSE)' = Fails(FALSE) /\ Pages(None, 1)' = Pages(None, 1)
    BY <2>3, AskedSame
  <2> QED
    BY <2>1, <2>2, <2>3, <2>4 DEF Answered
<1>3. ASSUME Count PROVE Answered'
  <2>1. Answers("count", Cardinality(RootsOf(TRUE)))
    BY <1>3 DEF Count, RootsOf
  <2>2. /\ UNCHANGED <<graph, query>> /\ answer'.call = "count"
        /\ answer'.result = Cardinality(RootsOf(TRUE))
    BY <2>1 DEF Answers
  <2>3. RootsOf(TRUE)' = RootsOf(TRUE)
    BY <2>2, AskedSame
  <2> QED
    BY <2>2, <2>3 DEF Answered
<1>4. ASSUME RunRaises PROVE Answered'
  <2>1. answer'.call = "raises"
    BY <1>4 DEF RunRaises, Answers
  <2> QED
    BY <2>1 DEF Answered
<1> QED
  BY <1>1, <1>2, <1>3, <1>4

LEMMA StutterAnswered == Answered /\ UNCHANGED vars => Answered'
<1> SUFFICES ASSUME Answered, UNCHANGED vars PROVE Answered'
  OBVIOUS
<1>1. UNCHANGED <<graph, query>> /\ answer' = answer /\ query' = query
  BY DEF vars
<1>2. /\ Fails(FALSE)' = Fails(FALSE) /\ RootsOf(TRUE)' = RootsOf(TRUE)
      /\ \A offset, limit : Pages(offset, limit)' = Pages(offset, limit)
  BY <1>1, AskedSame
<1> QED
  BY <1>1, <1>2 DEF Answered

LEMMA InitAnswered == Init => AnswerInv
<1> SUFFICES ASSUME Init PROVE AnswerInv
  OBVIOUS
<1>1. answer.call = "none"
  BY DEF Init, NoAnswer
<1> QED
  BY <1>1, InitSorted DEF AnswerInv, Answered

LEMMA AnswerStep == AnswerInv /\ [Next]_vars => AnswerInv'
<1> SUFFICES ASSUME AnswerInv, [Next]_vars PROVE AnswerInv'
  OBVIOUS
<1>1. SortedInv'
  BY SortedStep DEF AnswerInv
<1>2. Answered'
  <2>1. CASE Next
    BY <2>1, BuildersAnswered, RunsAnswered DEF Next
  <2>2. CASE UNCHANGED vars
    BY <2>2, StutterAnswered DEF AnswerInv
  <2> QED
    BY <2>1, <2>2
<1> QED
  BY <1>1, <1>2 DEF AnswerInv

LEMMA AnsweredMean == AnswerInv => AnswersMean
<1> SUFFICES ASSUME AnswerInv, answer.call = "all", Unpaged, NEW root \in Subjects,
                    LinksSuffice(root), Sortable(root)
             PROVE  root \in ToSet(answer.result) <=> Means(root)
  BY DEF AnswersMean, Subjects
<1>1. /\ BuilderOK /\ ~Fails(FALSE)
      /\ answer.result \in Pages(None, None)
  BY DEF AnswerInv, Answered, SortedInv, Unpaged
<1>2. answer.result \in Orders(CompileWhere(Class, query, FALSE))
  BY <1>1, PagesAre
<1>3. ToSet(answer.result) = RootsOf(FALSE)
  BY <1>1, <1>2, OrdersAre
<1>4. root \in RootsOf(FALSE) <=> Means(root)
  BY <1>1, RowsMean
<1> QED
  BY <1>3, <1>4

LEMMA CountAgrees ==
  ASSUME BuilderOK, ~Fails(FALSE), \A r \in Subjects : LinksSuffice(r),
         NEW s \in Pages(None, None)
  PROVE  /\ Len(s) <= Cardinality(RootsOf(TRUE))
         /\ (\A r \in Subjects : Sortable(r)) => Len(s) = Cardinality(RootsOf(TRUE))
<1>1. Len(s) = Cardinality(RootsOf(FALSE))
  BY PagesAre, OrdersAre
<1>2. RootsOf(FALSE) \subseteq RootsOf(TRUE)
  BY SortedRootsWithin
<1>3. RootsOf(TRUE) \subseteq Subjects /\ RootsOf(FALSE) \subseteq Subjects
  BY RootsKnown
<1>4. IsFiniteSet(RootsOf(TRUE))
  <2>1. RootsOf(TRUE) \subseteq Resources /\ graph \in Graphs
    BY <1>3, SubjectsAreResources DEF BuilderOK
  <2> QED
    BY <2>1, ResourcesFinite, FS_Subset
<1>5. Cardinality(RootsOf(FALSE)) <= Cardinality(RootsOf(TRUE))
  BY <1>2, <1>4, FS_Subset
<1>6. ASSUME \A r \in Subjects : Sortable(r) PROVE RootsOf(TRUE) = RootsOf(FALSE)
  <2>1. \A r \in Subjects : r \in RootsOf(TRUE) <=> Means(r)
    BY RowsMean
  <2>2. \A r \in Subjects : r \in RootsOf(FALSE) <=> Means(r)
    BY <1>6, RowsMean
  <2> QED
    BY <1>3, <2>1, <2>2
<1> QED
  BY <1>1, <1>5, <1>6

LEMMA AnsweredAgree == AnswerInv => CallsAgree
<1> SUFFICES ASSUME AnswerInv PROVE CallsAgree
  OBVIOUS
<1>1. BuilderOK /\ Answered
  BY DEF AnswerInv, SortedInv
<1>2. ASSUME answer.call = "count", ~Fails(FALSE), \A r \in Subjects : LinksSuffice(r),
             NEW s \in Pages(None, None)
      PROVE  /\ Len(s) <= answer.result
             /\ (\A r \in Subjects : Sortable(r)) => Len(s) = answer.result
  <2>1. answer.result = Cardinality(RootsOf(TRUE))
    BY <1>1, <1>2 DEF Answered
  <2> QED
    BY <1>1, <1>2, <2>1, CountAgrees
<1>3. ASSUME answer.call = "first"
      PROVE  \E s \in Pages(None, None) :
               answer.result = IF s = <<>> THEN <<>> ELSE <<Head(s)>>
  <2>1. ~Fails(FALSE) /\ answer.result \in Pages(None, 1)
    BY <1>1, <1>3 DEF Answered
  <2> QED
    BY <1>1, <2>1, PagesAre
<1> QED
  BY <1>2, <1>3 DEF CallsAgree, Subjects

\* For every schema, every store and every sequence of calls of the builder: of the
\* resources whose links along the query's paths suffice and that have one value of
\* every sort key, all() answers those for which the filters mean what they say,
\* whichever of them share the variable of a path, whatever their order, and with
\* every toggle, values() and polymorphic() (compile_where, compile_compare,
\* compile_or, compile_not, _follow_path).
THEOREM AnswersAlwaysMean == Spec => []AnswersMean
<1>1. Init => AnswerInv
  BY InitAnswered
<1>2. AnswerInv /\ [Next]_vars => AnswerInv'
  BY AnswerStep
<1>3. AnswerInv => AnswersMean
  BY AnsweredMean
<1> QED
  BY <1>1, <1>2, <1>3, PTL DEF Spec

\* For every schema, every store and every sequence of calls of the builder: count()
\* is never less than the number of resources that all() would answer, and is that
\* number when every one has its sort keys; first() is a first of them (Query.count,
\* Query.first, QueryState.compile).
THEOREM CallsAlwaysAgree == Spec => []CallsAgree
<1>1. Init => AnswerInv
  BY InitAnswered
<1>2. AnswerInv /\ [Next]_vars => AnswerInv'
  BY AnswerStep
<1>3. AnswerInv => CallsAgree
  BY AnsweredAgree
<1> QED
  BY <1>1, <1>2, <1>3, PTL DEF Spec
=============================================================================
