----------------------------- MODULE QueryProofs -----------------------------
(***************************************************************************)
(* Theorems about compiled queries: every variable of a solution stands    *)
(* for the end of the path that it was made for, and answers are sorted.   *)
(***************************************************************************)
EXTENDS QueryMeaning, RecursionTheorems, FiniteSetTheorems, SequenceTheorems

-----------------------------------------------------------------------------
(* Sequences                                                               *)

\* A set with <<>> and all that its sequences are extended to has all sequences.
LEMMA SeqSet ==
  ASSUME NEW S, NEW T, <<>> \in T,
         \A s \in Seq(S) : \A e \in S : s \in T => Append(s, e) \in T
  PROVE  Seq(S) \subseteq T
<1> DEFINE N == {n \in Nat : \A s \in Seq(S) : Len(s) = n => s \in T}
<1>1. 0 \in N
  BY EmptySeq
<1>2. ASSUME NEW n \in Nat, n \in N PROVE n + 1 \in N
  <2> SUFFICES ASSUME NEW s \in Seq(S), Len(s) = n + 1 PROVE s \in T
    OBVIOUS
  <2>1. s # <<>>
    OBVIOUS
  <2>2. PICK r \in Seq(S), e \in S : s = Append(r, e)
    BY <2>1, SequenceEmptyOrAppend
  <2>3. Len(s) = Len(r) + 1 /\ Len(r) \in Nat
    BY <2>2, AppendProperties, LenProperties
  <2>4. Len(r) = n
    BY <2>3
  <2> QED
    BY <1>2, <2>2, <2>4
<1> HIDE DEF N
<1>3. Nat \subseteq N
  BY <1>1, <1>2, NatSet
<1> QED
  BY <1>3, LenProperties DEF N

\* A sequence of something.
IsSeq(q) == \E S : q \in Seq(S)

LEMMA AppendIsSeq ==
  ASSUME NEW q, IsSeq(q), NEW e
  PROVE  /\ \E S : q \in Seq(S) /\ e \in S
         /\ IsSeq(Append(q, e)) /\ q \o <<e>> = Append(q, e)
<1>1. PICK S : q \in Seq(S)
  BY DEF IsSeq
<1>2. q \in Seq(S \cup {e}) /\ e \in S \cup {e}
  BY <1>1, SeqMonotonic
<1>3. Append(q, e) \in Seq(S \cup {e}) /\ q \o <<e>> = Append(q, e)
  BY <1>2, AppendProperties, AppendIsConcat
<1> QED
  BY <1>2, <1>3 DEF IsSeq

LEMMA ConcatIsSeq ==
  ASSUME NEW q, IsSeq(q), NEW r, IsSeq(r)
  PROVE  \E S : q \in Seq(S) /\ r \in Seq(S) /\ q \o r \in Seq(S)
<1>1. PICK S : q \in Seq(S)
  BY DEF IsSeq
<1>2. PICK T : r \in Seq(T)
  BY DEF IsSeq
<1>3. q \in Seq(S \cup T) /\ r \in Seq(S \cup T)
  BY <1>1, <1>2, SeqMonotonic
<1> QED
  BY <1>3, ConcatProperties

LEMMA ConcatAppend ==
  ASSUME NEW q, IsSeq(q), NEW r, IsSeq(r), NEW e
  PROVE  q \o Append(r, e) = Append(q \o r, e)
<1>1. PICK S : q \in Seq(S) /\ r \in Seq(S)
  BY ConcatIsSeq
<1> DEFINE U == S \cup {e}
<1>2. q \in Seq(U) /\ r \in Seq(U) /\ e \in U /\ <<e>> \in Seq(U)
  BY <1>1, SeqMonotonic
<1> HIDE DEF U
<1>3. Append(r, e) = r \o <<e>>
  BY <1>2, AppendIsConcat
<1>4. q \o r \in Seq(U)
  BY <1>2, ConcatProperties
<1>5. Append(q \o r, e) = (q \o r) \o <<e>>
  BY <1>2, <1>4, AppendIsConcat
<1>6. (q \o r) \o <<e>> = q \o (r \o <<e>>)
  BY <1>2, ConcatAssociative
<1> QED
  BY <1>3, <1>5, <1>6

-----------------------------------------------------------------------------
(* Paths                                                                   *)

\* The names of fields.
Field == STRING

Path == Seq(Field)

LEMMA PathAppend ==
  ASSUME NEW p \in Path, NEW link \in Field
  PROVE  /\ Append(p, link) \in Path /\ Append(p, link) # <<>>
         /\ Len(Append(p, link)) = Len(p) + 1
         /\ Front(Append(p, link)) = p /\ Last(Append(p, link)) = link
         /\ \A n \in 0 .. Len(p) : SubSeq(Append(p, link), 1, n) = SubSeq(p, 1, n)
         /\ SubSeq(Append(p, link), 1, Len(p) + 1) = Append(p, link)
         /\ Prefixes(Append(p, link)) = Prefixes(p) \cup {Append(p, link)}
<1> DEFINE L == Len(p)
           r == Append(p, link)
<1>1. /\ L \in Nat /\ r \in Path /\ r # <<>> /\ Len(r) = L + 1
      /\ \A i \in 1 .. L : r[i] = p[i]
      /\ r[L + 1] = link
  BY AppendProperties, LenProperties DEF Path
<1> HIDE DEF r
<1>2. p \in Seq(Field) /\ r \in Seq(Field)
  BY <1>1 DEF Path
<1>3. ASSUME NEW n \in 0 .. L PROVE SubSeq(r, 1, n) = SubSeq(p, 1, n)
  <2>0. \A i \in 1 .. L : p[i] \in Field
    BY <1>2, ElementOfSeq
  <2> HIDE DEF L
  <2>1. \A i \in 1 .. n : r[i] = p[i] /\ p[i] \in Field
    BY <1>1, <2>0
  <2>2. n \in Int /\ 1 \in Int
    BY <1>1
  <2>3. /\ SubSeq(r, 1, n) \in Seq(Field)
        /\ Len(SubSeq(r, 1, n)) = IF 1 <= n THEN n - 1 + 1 ELSE 0
        /\ \A i \in 1 .. n - 1 + 1 : SubSeq(r, 1, n)[i] = r[1 + i - 1]
    BY <2>1, <2>2, SubSeqProperties
  <2>4. /\ SubSeq(p, 1, n) \in Seq(Field)
        /\ Len(SubSeq(p, 1, n)) = IF 1 <= n THEN n - 1 + 1 ELSE 0
        /\ \A i \in 1 .. n - 1 + 1 : SubSeq(p, 1, n)[i] = p[1 + i - 1]
    BY <2>1, <2>2, SubSeqProperties
  <2>5. /\ Len(SubSeq(r, 1, n)) = n /\ Len(SubSeq(p, 1, n)) = n
        /\ \A i \in 1 .. n : i \in 1 .. n - 1 + 1 /\ 1 + i - 1 = i
    BY <1>1, <2>3, <2>4
  <2>6. \A i \in 1 .. n : SubSeq(r, 1, n)[i] = SubSeq(p, 1, n)[i]
    BY <2>1, <2>3, <2>4, <2>5
  <2> QED
    BY <2>3, <2>4, <2>5, <2>6, SeqEqual
<1>4. SubSeq(r, 1, L + 1) = r /\ SubSeq(p, 1, L) = p
  BY <1>1, <1>2, SubSeqFull
<1>5. Front(r) = p
  <2>1. Len(r) - 1 = L /\ L \in 0 .. L
    BY <1>1
  <2> QED
    BY <1>3, <1>4, <2>1 DEF Front
<1>6. Last(r) = link
  BY <1>1 DEF Last
<1>7. Prefixes(r) = Prefixes(p) \cup {r}
  <2>1. 0 .. Len(r) = (0 .. L) \cup {L + 1}
    BY <1>1
  <2> HIDE DEF L
  <2>2. Prefixes(r) = {SubSeq(r, 1, n) : n \in 0 .. L} \cup {SubSeq(r, 1, L + 1)}
    BY <2>1 DEF Prefixes
  <2>3. {SubSeq(r, 1, n) : n \in 0 .. L} = {SubSeq(p, 1, n) : n \in 0 .. L}
    BY <1>3
  <2> QED
    BY <1>4, <2>2, <2>3 DEF Prefixes, L
<1> QED
  BY <1>1, <1>3, <1>4, <1>5, <1>6, <1>7 DEF r

LEMMA EmptyPath == <<>> \in Path /\ Prefixes(<<>>) = {<<>>}
<1>1. SubSeq(<<>>, 1, 0) = <<>> /\ Len(<<>>) = 0
  BY SubSeqEmpty
<1>2. <<>> \in Path
  BY EmptySeq DEF Path
<1>3. 0 .. Len(<<>>) = {0}
  BY <1>1
<1> QED
  BY <1>1, <1>2, <1>3 DEF Prefixes

\* The paths on the way of a path are closed under having a way.
LEMMA PrefixesOfPath ==
  ASSUME NEW p \in Path
  PROVE  /\ p \in Prefixes(p) /\ <<>> \in Prefixes(p) /\ Prefixes(p) \subseteq Path
         /\ \A q \in Prefixes(p) : Prefixes(q) \subseteq Prefixes(p)
<1> DEFINE T == {q \in Path : /\ q \in Prefixes(q) /\ <<>> \in Prefixes(q) /\ Prefixes(q) \subseteq Path
                              /\ \A r \in Prefixes(q) : Prefixes(r) \subseteq Prefixes(q)}
<1>1. <<>> \in T
  BY EmptyPath
<1>2. ASSUME NEW q \in Path, NEW link \in Field, q \in T PROVE Append(q, link) \in T
  <2>1. Append(q, link) \in Path /\ Prefixes(Append(q, link)) = Prefixes(q) \cup {Append(q, link)}
    BY PathAppend
  <2> QED
    BY <1>2, <2>1
<1> HIDE DEF T
<1>3. Path \subseteq T
  BY <1>1, <1>2, SeqSet DEF Path
<1> QED
  BY <1>3 DEF T

-----------------------------------------------------------------------------
(* The classes along a path                                                *)

Hops == INSTANCE Folding WITH Op <- NextClass

LEMMA ClassAlong ==
  /\ \A cls : ClassAt(cls, <<>>) = cls
  /\ \A cls : \A p \in Path, link \in Field :
       ClassAt(cls, Append(p, link)) = NextClass(ClassAt(cls, p), link)
<1>1. \A cls, p : ClassAt(cls, p) = Hops!Result(cls, p)
  BY DEF ClassAt, FoldLeft, MapThenFoldSet, Max, Hops!Result,
         Hops!MapThenFoldSet, Hops!Max
<1> QED
  BY <1>1, Hops!FoldEmpty, Hops!FoldAppend DEF Path

\* A path that can be followed leads to a class of the schema.
LEMMA ClassKnown ==
  ASSUME NEW p \in Path PROVE ClassAt(Class, p) \in DOMAIN Schema \cup {None}
<1> DEFINE T == {q \in Path : ClassAt(Class, q) \in DOMAIN Schema \cup {None}}
<1>1. <<>> \in T
  BY EmptyPath, ClassAlong, SchemaAssumption
<1>2. ASSUME NEW q \in Path, NEW link \in Field, q \in T PROVE Append(q, link) \in T
  <2>1. Append(q, link) \in Path
    BY PathAppend
  <2> QED
    BY <1>2, <2>1, ClassAlong, SchemaAssumption DEF NextClass
<1> HIDE DEF T
<1>3. Path \subseteq T
  BY <1>1, <1>2, SeqSet DEF Path
<1> QED
  BY <1>3 DEF T

\* So does every path on the way, and each hop is a relationship.
LEMMA ClassBefore ==
  ASSUME NEW p \in Path, NEW link \in Field, ClassAt(Class, Append(p, link)) # None
  PROVE  /\ ClassAt(Class, p) \in DOMAIN Schema
         /\ link \in DOMAIN Schema[ClassAt(Class, p)].links
         /\ RelAt(Append(p, link)) = Schema[ClassAt(Class, p)].links[link]
<1>1. ClassAt(Class, Append(p, link)) = NextClass(ClassAt(Class, p), link)
  BY ClassAlong
<1>2. ClassAt(Class, p) # None /\ link \in DOMAIN Schema[ClassAt(Class, p)].links
  BY <1>1 DEF NextClass
<1>3. ClassAt(Class, p) \in DOMAIN Schema
  BY <1>2, ClassKnown
<1>4. Front(Append(p, link)) = p /\ Last(Append(p, link)) = link
  BY PathAppend
<1> QED
  BY <1>2, <1>3, <1>4 DEF RelAt

-----------------------------------------------------------------------------
(* Solutions of patterns                                                   *)

\* nu binds all that mu binds, and alike.
Extends(nu, mu) == DOMAIN mu \subseteq DOMAIN nu /\ \A x \in DOMAIN mu : nu[x] = mu[x]

LEMMA ExtendsTwice ==
  ASSUME NEW mu, NEW nu, NEW pi, Extends(nu, mu), Extends(pi, nu)
  PROVE  Extends(pi, mu)
  BY DEF Extends

LEMMA BindExtends ==
  ASSUME NEW mu, NEW x, NEW v, NEW nu \in BindTo(mu, x, v)
  PROVE  Extends(nu, mu) /\ DOMAIN nu = DOMAIN mu \cup {x} /\ nu[x] = v
  BY DEF BindTo, Bind, Bound, Extends

\* What a binding adds.
Binds(nu, mu, x, v) == Extends(nu, mu) /\ DOMAIN nu = DOMAIN mu \cup {x} /\ nu[x] = v

LEMMA BindToBinds == \A mu, x, v : \A nu \in BindTo(mu, x, v) : Binds(nu, mu, x, v)
  BY BindExtends DEF Binds

\* nu extends mu by what a triple of the graph gives the variables of a pattern.
MatchesTriple(nu, mu, s, pred, o) ==
  /\ Extends(nu, mu) /\ DOMAIN nu = DOMAIN mu \cup {s, o}
  /\ \E t \in graph : t[2] = pred /\ t[1] = nu[s] /\ t[3] = nu[o]

MatchesConstant(nu, mu, s, pred, v) ==
  /\ Extends(nu, mu) /\ DOMAIN nu = DOMAIN mu \cup {s}
  /\ \E t \in graph : t[1] = nu[s] /\ t[2] = pred /\ t[3] = v

LEMMA TripleMatch ==
  ASSUME NEW mu, NEW s, NEW pred, NEW o, NEW nu \in Matches(graph, mu, Triple(s, pred, o))
  PROVE  MatchesTriple(nu, mu, s, pred, o)
<1> DEFINE e == Triple(s, pred, o)
<1>1. e.kind = "triple" /\ e.subject = s /\ e.pred = pred /\ e.object = o
  BY DEF Triple
<1> HIDE DEF e
<1>2. nu \in UNION {UNION {BindTo(pi, o, t[3]) : pi \in BindTo(mu, s, t[1])}
                    : t \in {u \in graph : u[2] = pred}}
  BY <1>1 DEF Matches, e
<1>3. PICK t \in graph : t[2] = pred /\ nu \in UNION {BindTo(pi, o, t[3]) : pi \in BindTo(mu, s, t[1])}
  BY <1>2
<1>4. PICK pi \in BindTo(mu, s, t[1]) : nu \in BindTo(pi, o, t[3])
  BY <1>3
<1>5. Binds(pi, mu, s, t[1]) /\ Binds(nu, pi, o, t[3])
  BY <1>4, BindToBinds
<1>6. /\ Extends(pi, mu) /\ DOMAIN pi = DOMAIN mu \cup {s} /\ pi[s] = t[1]
      /\ Extends(nu, pi) /\ DOMAIN nu = DOMAIN pi \cup {o} /\ nu[o] = t[3]
  BY <1>5 DEF Binds
<1>7. nu[s] = t[1]
  BY <1>6 DEF Extends
<1>8. Extends(nu, mu) /\ DOMAIN nu = DOMAIN mu \cup {s, o}
  BY <1>6, ExtendsTwice
<1> QED
  BY <1>3, <1>6, <1>7, <1>8 DEF MatchesTriple

LEMMA TripleMatches ==
  ASSUME NEW mu, NEW s, NEW pred, NEW o, s \in DOMAIN mu, o \notin DOMAIN mu,
         NEW t \in graph, t[1] = mu[s], t[2] = pred
  PROVE  \E nu \in Matches(graph, mu, Triple(s, pred, o)) : nu[o] = t[3]
<1> DEFINE e == Triple(s, pred, o)
<1>1. e.kind = "triple" /\ e.subject = s /\ e.pred = pred /\ e.object = o
  BY DEF Triple
<1> HIDE DEF e
<1>2. mu \in BindTo(mu, s, t[1])
  BY DEF BindTo, Bound
<1>3. Bind(mu, o, t[3]) \in BindTo(mu, o, t[3]) /\ Bind(mu, o, t[3])[o] = t[3]
  BY DEF BindTo, Bound, Bind
<1>4. Bind(mu, o, t[3]) \in UNION {BindTo(pi, o, t[3]) : pi \in BindTo(mu, s, t[1])}
  BY <1>2, <1>3
<1>5. Bind(mu, o, t[3]) \in
        UNION {UNION {BindTo(pi, o, u[3]) : pi \in BindTo(mu, s, u[1])}
               : u \in {u \in graph : u[2] = pred}}
  BY <1>4
<1>6. Bind(mu, o, t[3]) \in Matches(graph, mu, e)
  BY <1>1, <1>5 DEF Matches
<1> QED
  BY <1>3, <1>6 DEF e

LEMMA ConstantMatch ==
  ASSUME NEW mu, NEW s, NEW pred, NEW v, NEW nu \in Matches(graph, mu, TripleTo(s, pred, v))
  PROVE  MatchesConstant(nu, mu, s, pred, v)
<1> DEFINE e == TripleTo(s, pred, v)
<1>1. e.kind = "constant" /\ e.subject = s /\ e.pred = pred /\ e.object = v
  BY DEF TripleTo
<1> HIDE DEF e
<1>2. nu \in UNION {BindTo(mu, s, t[1]) : t \in {u \in graph : u[2] = pred /\ u[3] = v}}
  BY <1>1 DEF Matches, e
<1>3. PICK t \in graph : t[2] = pred /\ t[3] = v /\ nu \in BindTo(mu, s, t[1])
  BY <1>2
<1>4. Binds(nu, mu, s, t[1])
  BY <1>3, BindToBinds
<1> QED
  BY <1>3, <1>4 DEF Binds, MatchesConstant

LEMMA ConstantMatches ==
  ASSUME NEW mu, NEW s, NEW pred, NEW v, s \in DOMAIN mu,
         NEW t \in graph, t[1] = mu[s], t[2] = pred, t[3] = v
  PROVE  mu \in Matches(graph, mu, TripleTo(s, pred, v))
<1> DEFINE e == TripleTo(s, pred, v)
<1>1. e.kind = "constant" /\ e.subject = s /\ e.pred = pred /\ e.object = v
  BY DEF TripleTo
<1> HIDE DEF e
<1>2. mu \in BindTo(mu, s, t[1])
  BY DEF BindTo, Bound
<1>3. mu \in UNION {BindTo(mu, s, u[1]) : u \in {u \in graph : u[2] = pred /\ u[3] = v}}
  BY <1>2
<1> QED
  BY <1>1, <1>3 DEF Matches, e

LEMMA PathMatch ==
  ASSUME NEW mu, NEW s, NEW path, NEW v, NEW nu \in Matches(graph, mu, PathTo(s, path, v))
  PROVE  \E n : Binds(nu, mu, s, n)
<1> DEFINE e == PathTo(s, path, v)
<1>1. e.kind = "path" /\ e.subject = s
  BY DEF PathTo
<1> HIDE DEF e
<1>2. \E n : nu \in BindTo(mu, s, n)
  BY <1>1 DEF Matches, e
<1> QED
  BY <1>2, BindToBinds

LEMMA ValuesMatch ==
  ASSUME NEW mu, NEW x, NEW terms, NEW nu \in Matches(graph, mu, ValuesOf(x, terms))
  PROVE  \E n : Binds(nu, mu, x, n)
<1> DEFINE e == ValuesOf(x, terms)
<1>1. e.kind = "values" /\ e.variable = x
  BY DEF ValuesOf
<1> HIDE DEF e
<1>2. \E n : nu \in BindTo(mu, x, n)
  BY <1>1 DEF Matches, e
<1> QED
  BY <1>2, BindToBinds

-----------------------------------------------------------------------------
(* Solutions of groups                                                     *)

\* The solutions that an element of a group makes of one.
After(mu, e) ==
  IF e.kind = "optional" THEN LeftJoin(graph, mu, e.group) ELSE Matches(graph, mu, e)

GroupStep(S, e) == UNION {After(mu, e) : mu \in S}

MatchStep(S, e) == UNION {Matches(graph, mu, e) : mu \in S}

Joining == INSTANCE Folding WITH Op <- GroupStep

Matching == INSTANCE Folding WITH Op <- MatchStep

LEMMA JoinedNone == \A mu : Joined(graph, mu, <<>>) = {mu}
<1>1. \A mu : Joined(graph, mu, <<>>) = Joining!Result({mu}, <<>>)
  BY DEF Joined, GroupStep, After, FoldLeft, MapThenFoldSet, Max, Joining!Result,
         Joining!MapThenFoldSet, Joining!Max
<1>2. \A T : Joining!Result(T, <<>>) = T
  BY Joining!FoldEmpty
<1> QED
  <2> TAKE mu
  <2>1. Joined(graph, mu, <<>>) = Joining!Result({mu}, <<>>)
    BY <1>1
  <2> QED
    BY <2>1, <1>2

LEMMA JoinedEach ==
  \A mu, q, e : IsSeq(q) => Joined(graph, mu, Append(q, e)) = GroupStep(Joined(graph, mu, q), e)
<1>1. \A mu, q : Joined(graph, mu, q) = Joining!Result({mu}, q)
  BY DEF Joined, GroupStep, After, FoldLeft, MapThenFoldSet, Max, Joining!Result,
         Joining!MapThenFoldSet, Joining!Max
<1>2. \A T, S : \A q \in Seq(S), e \in S :
        Joining!Result(T, Append(q, e)) = GroupStep(Joining!Result(T, q), e)
  BY Joining!FoldAppend
<1> SUFFICES ASSUME NEW mu, NEW q, NEW e, IsSeq(q)
             PROVE  Joined(graph, mu, Append(q, e)) = GroupStep(Joined(graph, mu, q), e)
  OBVIOUS
<1>3. /\ Joined(graph, mu, Append(q, e)) = Joining!Result({mu}, Append(q, e))
      /\ Joined(graph, mu, q) = Joining!Result({mu}, q)
  BY <1>1
<1>4. PICK S : q \in Seq(S) /\ e \in S
  BY AppendIsSeq
<1>5. Joining!Result({mu}, Append(q, e)) = GroupStep(Joining!Result({mu}, q), e)
  BY <1>2, <1>4
<1> QED
  BY <1>3, <1>5

LEMMA JoinAllNone == \A T : JoinAll(graph, T, <<>>) = T
<1>1. \A T : JoinAll(graph, T, <<>>) = Matching!Result(T, <<>>)
  BY DEF JoinAll, MatchStep, FoldLeft, MapThenFoldSet, Max, Matching!Result,
         Matching!MapThenFoldSet, Matching!Max
<1>2. \A T : Matching!Result(T, <<>>) = T
  BY Matching!FoldEmpty
<1> QED
  BY <1>1, <1>2

LEMMA JoinAllEach ==
  \A T, q, e : IsSeq(q) => JoinAll(graph, T, Append(q, e)) = MatchStep(JoinAll(graph, T, q), e)
<1>1. \A T, q : JoinAll(graph, T, q) = Matching!Result(T, q)
  BY DEF JoinAll, MatchStep, FoldLeft, MapThenFoldSet, Max, Matching!Result,
         Matching!MapThenFoldSet, Matching!Max
<1>2. \A T, S : \A q \in Seq(S), e \in S :
        Matching!Result(T, Append(q, e)) = MatchStep(Matching!Result(T, q), e)
  BY Matching!FoldAppend
<1> SUFFICES ASSUME NEW T, NEW q, NEW e, IsSeq(q)
             PROVE  JoinAll(graph, T, Append(q, e)) = MatchStep(JoinAll(graph, T, q), e)
  OBVIOUS
<1>3. PICK S : q \in Seq(S) /\ e \in S
  BY AppendIsSeq
<1> QED
  BY <1>1, <1>2, <1>3

LEMMA Tuples ==
  /\ IsSeq(<<>>)
  /\ \A a : IsSeq(<<a>>) /\ Append(<<>>, a) = <<a>> /\ <<a>> \o <<>> = <<a>>
  /\ \A a, b : Append(<<a>>, b) = <<a, b>> /\ <<a>> \o <<b>> = <<a, b>>
<1>1. ASSUME NEW a PROVE IsSeq(<<a>>) /\ Append(<<>>, a) = <<a>> /\ <<a>> \o <<>> = <<a>>
  <2>1. <<>> \in Seq({a}) /\ Append(<<>>, a) = <<a>>
    BY EmptySeq
  <2>2. <<a>> \in Seq({a})
    OBVIOUS
  <2> QED
    BY <2>1, <2>2, ConcatEmptySeq DEF IsSeq
<1>2. ASSUME NEW a, NEW b
      PROVE  Append(<<a>>, b) = <<a, b>> /\ <<a>> \o <<b>> = <<a, b>>
  <2>1. <<a>> \in Seq({a, b}) /\ b \in {a, b}
    OBVIOUS
  <2>2. Append(<<a>>, b) = <<a, b>>
    <3> DEFINE S == {a, b}
               q == <<a>>
               r == <<a, b>>
    <3>1. q \in Seq(S) /\ b \in S
      OBVIOUS
    <3>2. Len(q) = 1 /\ q[1] = a
      OBVIOUS
    <3>3. r \in Seq(S) /\ Len(r) = 2 /\ r[1] = a /\ r[2] = b
      OBVIOUS
    <3> HIDE DEF S, q, r
    <3>4. /\ Append(q, b) \in Seq(S) /\ Len(Append(q, b)) = Len(q) + 1
          /\ \A i \in 1 .. Len(q) : Append(q, b)[i] = q[i]
          /\ Append(q, b)[Len(q) + 1] = b
      BY <3>1, AppendProperties
    <3>5. Len(Append(q, b)) = 2 /\ Append(q, b)[1] = a /\ Append(q, b)[2] = b
      BY <3>2, <3>4
    <3>6. \A i \in 1 .. 2 : i = 1 \/ i = 2
      OBVIOUS
    <3>7. Len(r) = Len(Append(q, b)) /\ \A i \in 1 .. Len(r) : r[i] = Append(q, b)[i]
      BY <3>3, <3>5, <3>6
    <3>8. r = Append(q, b)
      BY <3>3, <3>4, <3>7, SeqEqual
    <3> QED
      BY <3>8 DEF q, r
  <2>3. Append(<<a>>, b) = <<a>> \o <<b>>
    BY <2>1, AppendIsConcat
  <2> QED
    BY <2>1, <2>2, <2>3
<1>3. IsSeq(<<>>)
  BY EmptySeq DEF IsSeq
<1> QED
  BY <1>1, <1>2, <1>3

LEMMA JoinAllOne ==
  ASSUME NEW mu, NEW a PROVE JoinAll(graph, {mu}, <<a>>) = Matches(graph, mu, a)
<1> DEFINE T == {mu}
           q == <<>>
<1>1. IsSeq(q) /\ Append(q, a) = <<a>>
  BY Tuples
<1>2. JoinAll(graph, T, q) = T
  BY JoinAllNone
<1>3. MatchStep(T, a) = Matches(graph, mu, a)
  BY DEF MatchStep
<1> HIDE DEF T, q
<1>4. JoinAll(graph, T, Append(q, a)) = MatchStep(JoinAll(graph, T, q), a)
  BY <1>1, JoinAllEach
<1>5. JoinAll(graph, T, <<a>>) = Matches(graph, mu, a)
  BY <1>1, <1>2, <1>3, <1>4
<1> QED
  BY <1>5 DEF T

LEMMA JoinAllTwo ==
  ASSUME NEW mu, NEW a, NEW b
  PROVE  JoinAll(graph, {mu}, <<a, b>>)
           = UNION {Matches(graph, nu, b) : nu \in Matches(graph, mu, a)}
<1> DEFINE T == {mu}
           q == <<a>>
<1>1. IsSeq(q) /\ Append(q, b) = <<a, b>>
  BY Tuples
<1>2. JoinAll(graph, T, q) = Matches(graph, mu, a)
  BY JoinAllOne
<1> HIDE DEF T, q
<1>3. JoinAll(graph, T, Append(q, b)) = MatchStep(JoinAll(graph, T, q), b)
  BY <1>1, JoinAllEach
<1>4. JoinAll(graph, T, <<a, b>>) = UNION {Matches(graph, nu, b) : nu \in Matches(graph, mu, a)}
  BY <1>1, <1>2, <1>3 DEF MatchStep
<1> QED
  BY <1>4 DEF T

-----------------------------------------------------------------------------
(* Solutions of hops                                                       *)

Hopped(mu, from, link, to, rel) == JoinAll(graph, {mu}, HopPatterns(from, link, to, rel))

LEMMA HopPatternsAre ==
  ASSUME NEW from, NEW link, NEW to, NEW rel
  PROVE  HopPatterns(from, link, to, rel) =
           IF rel.iri THEN <<Triple(from, link, to)>>
           ELSE <<Triple(from, link, to), TripleTo(to, Type, Schema[rel.to].type)>>
<1> DEFINE a == Triple(from, link, to)
           b == TripleTo(to, Type, Schema[rel.to].type)
<1>1. HopPatterns(from, link, to, rel) = <<a>> \o IF rel.iri THEN <<>> ELSE <<b>>
  BY DEF HopPatterns
<1> HIDE DEF a, b
<1>2. <<a>> \o <<>> = <<a>> /\ <<a>> \o <<b>> = <<a, b>>
  BY Tuples
<1>3. HopPatterns(from, link, to, rel) = IF rel.iri THEN <<a>> ELSE <<a, b>>
  BY <1>1, <1>2
<1> QED
  BY <1>3 DEF a, b

LEMMA MatchFollows ==
  /\ \A mu, s, pred, o : \A nu \in Matches(graph, mu, Triple(s, pred, o)) :
       MatchesTriple(nu, mu, s, pred, o)
  /\ \A mu, s, pred, v : \A nu \in Matches(graph, mu, TripleTo(s, pred, v)) :
       MatchesConstant(nu, mu, s, pred, v)
<1>1. ASSUME NEW mu, NEW s, NEW pred, NEW o, NEW nu \in Matches(graph, mu, Triple(s, pred, o))
      PROVE  MatchesTriple(nu, mu, s, pred, o)
  BY TripleMatch
<1>2. ASSUME NEW mu, NEW s, NEW pred, NEW v, NEW nu \in Matches(graph, mu, TripleTo(s, pred, v))
      PROVE  MatchesConstant(nu, mu, s, pred, v)
  BY ConstantMatch
<1> QED
  BY <1>1, <1>2

\* A hop leads to what its first node links.
Arrives(nu, mu, from, link, to, rel) ==
  /\ Extends(nu, mu) /\ DOMAIN nu = DOMAIN mu \cup {from, to}
  /\ nu[to] \in Linked(nu[from], link, rel)

LEMMA HoppedLinks ==
  ASSUME graph \in Graphs
  PROVE  \A mu, from, link, to, rel : \A nu \in Hopped(mu, from, link, to, rel) :
           Arrives(nu, mu, from, link, to, rel)
<1> SUFFICES ASSUME NEW mu, NEW from, NEW link, NEW to, NEW rel,
                    NEW nu \in Hopped(mu, from, link, to, rel)
             PROVE  Arrives(nu, mu, from, link, to, rel)
  OBVIOUS
<1> DEFINE a == Triple(from, link, to)
           type == Schema[rel.to].type
           b == TripleTo(to, Type, type)
<1>1. CASE rel.iri
  <2>1. nu \in Matches(graph, mu, a)
    BY <1>1, HopPatternsAre, JoinAllOne DEF Hopped
  <2>2. MatchesTriple(nu, mu, from, link, to)
    BY <2>1, MatchFollows
  <2> QED
    BY <1>1, <2>2 DEF Linked, MatchesTriple, Arrives
<1>2. CASE ~rel.iri
  <2>1. nu \in UNION {Matches(graph, pi, b) : pi \in Matches(graph, mu, a)}
    BY <1>2, HopPatternsAre, JoinAllTwo DEF Hopped
  <2>2. PICK pi \in Matches(graph, mu, a) : nu \in Matches(graph, pi, b)
    BY <2>1
  <2>3. MatchesTriple(pi, mu, from, link, to) /\ MatchesConstant(nu, pi, to, Type, type)
    BY <2>2, MatchFollows
  <2> HIDE DEF a, b, type
  <2>4. DOMAIN nu = DOMAIN mu \cup {from, to} /\ Extends(nu, mu)
    BY <2>3, ExtendsTwice DEF MatchesTriple, MatchesConstant
  <2>5. nu[from] = pi[from] /\ nu[to] = pi[to]
    BY <2>3 DEF Extends, MatchesTriple, MatchesConstant
  <2>6. <<nu[to], Type, type>> \in graph
    BY <2>3, GraphAssumption DEF MatchesConstant
  <2>7. \E t \in graph : t[2] = link /\ t[1] = nu[from] /\ t[3] = nu[to]
    BY <2>3, <2>5 DEF MatchesTriple
  <2> QED
    BY <2>4, <2>6, <2>7 DEF Linked, type, Arrives
<1> QED
  BY <1>1, <1>2

\* There is a hop when something is linked and the end is not bound yet.
LEMMA HoppedExists ==
  ASSUME NEW mu, NEW from, NEW link, NEW to, NEW rel, from \in DOMAIN mu, to \notin DOMAIN mu,
         Linked(mu[from], link, rel) # {}
  PROVE  Hopped(mu, from, link, to, rel) # {}
<1> DEFINE a == Triple(from, link, to)
           type == Schema[rel.to].type
           b == TripleTo(to, Type, type)
<1>1. PICK t \in graph : /\ t[1] = mu[from] /\ t[2] = link
                         /\ rel.iri \/ <<t[3], Type, type>> \in graph
  BY DEF Linked
<1>2. PICK nu \in Matches(graph, mu, a) : nu[to] = t[3]
  BY <1>1, TripleMatches
<1>3. CASE rel.iri
  BY <1>2, <1>3, HopPatternsAre, JoinAllOne DEF Hopped
<1>4. CASE ~rel.iri
  <2>0. MatchesTriple(nu, mu, from, link, to)
    BY MatchFollows
  <2>1. to \in DOMAIN nu
    BY <2>0 DEF MatchesTriple
  <2>2. nu \in Matches(graph, nu, b)
    <3> DEFINE u == <<t[3], Type, type>>
    <3>1. u \in graph /\ u[1] = nu[to] /\ u[2] = Type /\ u[3] = type
      BY <1>1, <1>2, <1>4
    <3> HIDE DEF u, type
    <3> QED
      BY <2>1, <3>1, ConstantMatches
  <2>3. nu \in UNION {Matches(graph, pi, b) : pi \in Matches(graph, mu, a)}
    BY <2>2
  <2> QED
    BY <1>4, <2>3, HopPatternsAre, JoinAllTwo DEF Hopped
<1> QED
  BY <1>3, <1>4

-----------------------------------------------------------------------------
(* The group of a query, behind the rows of values()                       *)

Before ==
  IF query.values_bindings = <<>> THEN <<>>
  ELSE <<ValuesOf(Root, ToSet(query.values_bindings))>>

SolsOf(group) == Joined(graph, Unit, Before \o group)

LEMMA BeforeIsSeq == IsSeq(Before)
  BY Tuples DEF Before

LEMMA SolsAppend ==
  \A g, e : IsSeq(g) => IsSeq(Append(g, e)) /\ SolsOf(Append(g, e)) = GroupStep(SolsOf(g), e)
<1> SUFFICES ASSUME NEW g, NEW e, IsSeq(g)
             PROVE  IsSeq(Append(g, e)) /\ SolsOf(Append(g, e)) = GroupStep(SolsOf(g), e)
  OBVIOUS
<1>1. IsSeq(Append(g, e))
  BY AppendIsSeq
<1>2. Before \o Append(g, e) = Append(Before \o g, e)
  BY BeforeIsSeq, ConcatAppend
<1>3. IsSeq(Before \o g)
  BY BeforeIsSeq, ConcatIsSeq DEF IsSeq
<1>4. Joined(graph, Unit, Append(Before \o g, e)) = GroupStep(Joined(graph, Unit, Before \o g), e)
  BY <1>3, JoinedEach
<1> QED
  BY <1>1, <1>2, <1>4 DEF SolsOf

\* Solutions of a group before and after an element.
LEMMA SolsStep ==
  ASSUME NEW g, IsSeq(g), NEW e, NEW nu \in SolsOf(Append(g, e))
  PROVE  \E mu \in SolsOf(g) : nu \in After(mu, e)
<1>1. nu \in GroupStep(SolsOf(g), e)
  BY SolsAppend
<1> QED
  BY <1>1 DEF GroupStep

LEMMA AfterPattern ==
  /\ \A mu, s, pred, o : After(mu, Triple(s, pred, o)) = Matches(graph, mu, Triple(s, pred, o))
  /\ \A mu, s, pred, v : After(mu, TripleTo(s, pred, v)) = Matches(graph, mu, TripleTo(s, pred, v))
  /\ \A mu, group : After(mu, Optional(group)) = LeftJoin(graph, mu, group)
<1>1. ASSUME NEW mu, NEW s, NEW pred, NEW o
      PROVE  After(mu, Triple(s, pred, o)) = Matches(graph, mu, Triple(s, pred, o))
  <2>1. Triple(s, pred, o).kind # "optional"
    BY DEF Triple
  <2> QED
    BY <2>1 DEF After
<1>2. ASSUME NEW mu, NEW s, NEW pred, NEW v
      PROVE  After(mu, TripleTo(s, pred, v)) = Matches(graph, mu, TripleTo(s, pred, v))
  <2>1. TripleTo(s, pred, v).kind # "optional"
    BY DEF TripleTo
  <2> QED
    BY <2>1 DEF After
<1>3. ASSUME NEW mu, NEW group PROVE After(mu, Optional(group)) = LeftJoin(graph, mu, group)
  <2>1. Optional(group).kind = "optional" /\ Optional(group).group = group
    BY DEF Optional
  <2> QED
    BY <2>1 DEF After
<1> QED
  BY <1>1, <1>2, <1>3

\* What a hop makes of a solution.
HopsTo(nu, mu, from, link, to, rel) ==
  \/ nu \in Hopped(mu, from, link, to, rel)
  \/ rel.nullable /\ nu = mu /\ Hopped(mu, from, link, to, rel) = {}

HopElements(from, link, to, rel) ==
  IF rel.nullable THEN <<Optional(HopPatterns(from, link, to, rel))>>
  ELSE HopPatterns(from, link, to, rel)

LEMMA HopSols ==
  ASSUME NEW g, IsSeq(g), NEW from, NEW link, NEW to, NEW rel
  PROVE  /\ IsSeq(g \o HopElements(from, link, to, rel))
         /\ \A nu \in SolsOf(g \o HopElements(from, link, to, rel)) :
              \E mu \in SolsOf(g) : HopsTo(nu, mu, from, link, to, rel)
<1> DEFINE a == Triple(from, link, to)
           b == TripleTo(to, Type, Schema[rel.to].type)
           hop == HopPatterns(from, link, to, rel)
           r == g \o HopElements(from, link, to, rel)
<1>1. CASE rel.nullable
  <2>1. r = Append(g, Optional(hop))
    BY <1>1, AppendIsSeq DEF HopElements
  <2>2. IsSeq(r)
    BY <2>1, SolsAppend
  <2>3. ASSUME NEW nu \in SolsOf(r)
        PROVE  \E mu \in SolsOf(g) : HopsTo(nu, mu, from, link, to, rel)
    <3>1. PICK mu \in SolsOf(g) : nu \in After(mu, Optional(hop))
      BY <2>1, SolsStep
    <3>2. nu \in LeftJoin(graph, mu, hop)
      BY <3>1, AfterPattern
    <3> QED
      BY <1>1, <3>2 DEF LeftJoin, HopsTo, Hopped
  <2> QED
    BY <2>2, <2>3
<1>2. CASE ~rel.nullable /\ rel.iri
  <2>1. r = Append(g, a)
    BY <1>2, AppendIsSeq, HopPatternsAre DEF HopElements
  <2>2. IsSeq(r)
    BY <2>1, SolsAppend
  <2>3. ASSUME NEW nu \in SolsOf(r)
        PROVE  \E mu \in SolsOf(g) : HopsTo(nu, mu, from, link, to, rel)
    <3>1. PICK mu \in SolsOf(g) : nu \in After(mu, a)
      BY <2>1, SolsStep
    <3>2. nu \in Matches(graph, mu, a)
      BY <3>1, AfterPattern
    <3>3. nu \in Hopped(mu, from, link, to, rel)
      BY <1>2, <3>2, HopPatternsAre, JoinAllOne DEF Hopped
    <3> QED
      BY <3>3 DEF HopsTo
  <2> QED
    BY <2>2, <2>3
<1>3. CASE ~rel.nullable /\ ~rel.iri
  <2>1. r = Append(Append(g, a), b)
    <3>1. HopElements(from, link, to, rel) = <<a, b>>
      BY <1>3, HopPatternsAre DEF HopElements
    <3> HIDE DEF a, b
    <3>2. <<a, b>> = Append(<<a>>, b) /\ IsSeq(<<a>>)
      BY Tuples
    <3>3. g \o Append(<<a>>, b) = Append(g \o <<a>>, b)
      BY <3>2, ConcatAppend
    <3>4. g \o <<a>> = Append(g, a)
      BY AppendIsSeq
    <3> QED
      BY <3>1, <3>2, <3>3, <3>4
  <2>2. IsSeq(r) /\ IsSeq(Append(g, a))
    BY <2>1, SolsAppend
  <2>3. ASSUME NEW nu \in SolsOf(r)
        PROVE  \E mu \in SolsOf(g) : HopsTo(nu, mu, from, link, to, rel)
    <3>1. PICK pi \in SolsOf(Append(g, a)) : nu \in After(pi, b)
      BY <2>1, <2>2, SolsStep
    <3>2. PICK mu \in SolsOf(g) : pi \in After(mu, a)
      BY SolsStep
    <3>3. pi \in Matches(graph, mu, a) /\ nu \in Matches(graph, pi, b)
      BY <3>1, <3>2, AfterPattern
    <3>4. nu \in UNION {Matches(graph, ro, b) : ro \in Matches(graph, mu, a)}
      BY <3>3
    <3>5. nu \in Hopped(mu, from, link, to, rel)
      BY <1>3, <3>4, HopPatternsAre, JoinAllTwo DEF Hopped
    <3> QED
      BY <3>5 DEF HopsTo
  <2> QED
    BY <2>2, <2>3
<1> QED
  BY <1>1, <1>2, <1>3

-----------------------------------------------------------------------------
(* Ways along a path                                                       *)

LEMMA PrefixLength ==
  ASSUME NEW p \in Path PROVE \A q \in Prefixes(p) : Len(q) <= Len(p)
<1> DEFINE T == {q \in Path : \A r \in Prefixes(q) : Len(r) <= Len(q)}
<1>1. <<>> \in T
  BY EmptyPath
<1>2. ASSUME NEW q \in Path, NEW link \in Field, q \in T PROVE Append(q, link) \in T
  <2>1. /\ Append(q, link) \in Path /\ Prefixes(Append(q, link)) = Prefixes(q) \cup {Append(q, link)}
        /\ Len(Append(q, link)) = Len(q) + 1
    BY PathAppend
  <2>2. \A r \in Prefixes(q) : Len(r) <= Len(q) /\ Len(r) \in Nat
    BY <1>2, PrefixesOfPath, LenProperties DEF Path
  <2>3. Len(q) \in Nat
    BY LenProperties DEF Path
  <2>4. \A r \in Prefixes(Append(q, link)) : Len(r) <= Len(Append(q, link))
    BY <2>1, <2>2, <2>3
  <2> QED
    BY <2>1, <2>4
<1> HIDE DEF T
<1>3. Path \subseteq T
  BY <1>1, <1>2, SeqSet DEF Path
<1> QED
  BY <1>3 DEF T

LEMMA LongerPath ==
  ASSUME NEW p \in Path, NEW link \in Field PROVE Append(p, link) \notin Prefixes(p)
<1> DEFINE r == Append(p, link)
<1>1. Len(r) = Len(p) + 1 /\ Len(p) \in Nat
  BY PathAppend, LenProperties DEF Path
<1> HIDE DEF r
<1>2. r \in Prefixes(p) => Len(r) <= Len(p)
  BY PrefixLength
<1>3. r \notin Prefixes(p)
  BY <1>1, <1>2
<1> QED
  BY <1>3 DEF r

LEMMA FrontOfPrefix ==
  ASSUME NEW p \in Path PROVE \A q \in Prefixes(p) : q # <<>> => Front(q) \in Prefixes(p)
<1> DEFINE T == {q \in Path : \A r \in Prefixes(q) : r # <<>> => Front(r) \in Prefixes(q)}
<1>1. <<>> \in T
  BY EmptyPath
<1>2. ASSUME NEW q \in Path, NEW link \in Field, q \in T PROVE Append(q, link) \in T
  <2>1. /\ Append(q, link) \in Path /\ Prefixes(Append(q, link)) = Prefixes(q) \cup {Append(q, link)}
        /\ Front(Append(q, link)) = q /\ q \in Prefixes(q)
    BY PathAppend, PrefixesOfPath
  <2> QED
    BY <1>2, <2>1
<1> HIDE DEF T
<1>3. Path \subseteq T
  BY <1>1, <1>2, SeqSet DEF Path
<1> QED
  BY <1>3 DEF T

\* One hop more of a way.
Longer(f, p, w) == [q \in Prefixes(p) |-> IF q = p THEN w ELSE f[q]]

LEMMA WayOfRoot ==
  ASSUME NEW n \in Resources PROVE \E f \in Paths(n, Prefixes(<<>>)) : f[<<>>] = n
<1> DEFINE f == [q \in {<<>>} |-> n]
<1>1. f \in [{<<>>} -> Resources \cup {None}] /\ f[<<>>] = n
  OBVIOUS
<1> HIDE DEF f
<1>2. f \in Paths(n, {<<>>})
  BY <1>1 DEF Paths
<1> QED
  BY <1>1, <1>2, EmptyPath

LEMMA LongerWay ==
  ASSUME NEW p \in Path, NEW link \in Field, ClassAt(Class, Append(p, link)) # None,
         NEW n, NEW f \in Paths(n, Prefixes(p)), NEW w \in Targets(f[p], Append(p, link))
  PROVE  Longer(f, Append(p, link), w) \in Paths(n, Prefixes(Append(p, link)))
<1> DEFINE r == Append(p, link)
           g == Longer(f, r, w)
<1>1. r \in Path /\ r # <<>> /\ Front(r) = p /\ Last(r) = link /\ Prefixes(r) = Prefixes(p) \cup {r}
  BY PathAppend
<1>2. r \notin Prefixes(p) /\ p \in Prefixes(p) /\ <<>> \in Prefixes(p)
  BY LongerPath, PrefixesOfPath
<1>3. \A q \in Prefixes(p) : q # <<>> => Front(q) \in Prefixes(p)
  BY FrontOfPrefix
<1>4. /\ f \in [Prefixes(p) -> Resources \cup {None}] /\ f[<<>>] = n
      /\ \A q \in Prefixes(p) \ {<<>>} : f[q] \in Targets(f[Front(q)], q)
  BY DEF Paths
<1>5. w \in Resources \cup {None}
  <2>1. Targets(f[p], r) \subseteq Linked(f[p], link, RelAt(r)) \cup {None}
    BY <1>1 DEF Targets
  <2>2. /\ ClassAt(Class, p) \in DOMAIN Schema
        /\ link \in DOMAIN Schema[ClassAt(Class, p)].links
    BY ClassBefore
  <2>3. Linked(f[p], link, RelAt(r)) \subseteq Resources
    BY <2>2 DEF Linked, Resources
  <2> QED
    BY <2>1, <2>3
<1> HIDE DEF r
<1>6. /\ DOMAIN g = Prefixes(r) /\ g[r] = w /\ \A q \in Prefixes(p) : g[q] = f[q]
      /\ g \in [Prefixes(r) -> Resources \cup {None}]
  <2> DEFINE V == Resources \cup {None}
  <2>1. w \in V /\ \A q \in Prefixes(p) : f[q] \in V
    BY <1>4, <1>5
  <2> HIDE DEF V
  <2>2. g = [q \in Prefixes(r) |-> IF q = r THEN w ELSE f[q]]
    BY DEF Longer
  <2>3. r \in Prefixes(r) /\ \A q \in Prefixes(p) : q \in Prefixes(r) /\ q # r
    BY <1>1, <1>2
  <2>4. \A q \in Prefixes(r) : q # r => q \in Prefixes(p)
    BY <1>1
  <2>5. g \in [Prefixes(r) -> V]
    BY <2>1, <2>2, <2>4
  <2> QED
    BY <2>2, <2>3, <2>5 DEF V
<1> HIDE DEF g
<1>7. g[<<>>] = n
  BY <1>2, <1>4, <1>6
<1>8. w \in Targets(f[p], r)
  BY DEF r
<1>9. ASSUME NEW q \in Prefixes(r) \ {<<>>} PROVE g[q] \in Targets(g[Front(q)], q)
  <2>1. CASE q = r
    BY <1>1, <1>2, <1>6, <1>8, <2>1
  <2>2. CASE q \in Prefixes(p)
    BY <1>3, <1>4, <1>6, <2>2
  <2> QED
    BY <1>1, <2>1, <2>2
<1>10. g \in Paths(n, Prefixes(r))
  BY <1>6, <1>7, <1>9 DEF Paths
<1> QED
  BY <1>10 DEF g, r

\* Where a way leads, and its way there.
LEMMA LongerEnds ==
  ASSUME NEW p \in Path, NEW link \in Field, NEW f, NEW w
  PROVE  /\ Longer(f, Append(p, link), w)[Append(p, link)] = w
         /\ \A q \in Prefixes(p) : Longer(f, Append(p, link), w)[q] = f[q]
<1>1. /\ Prefixes(Append(p, link)) = Prefixes(p) \cup {Append(p, link)}
      /\ Append(p, link) \notin Prefixes(p)
  BY PathAppend, LongerPath
<1> QED
  BY <1>1 DEF Longer

-----------------------------------------------------------------------------
(* What has been compiled is sound: a solution has a way from its root     *)
(* along each path that was followed, if the path is linked, and the       *)
(* path's variable is its end.                                             *)

StateFields == {"group", "filters", "next", "joins"}

Shape(c) ==
  /\ DOMAIN c = StateFields /\ IsSeq(c.group) /\ c.next \in Nat /\ c.next > 0
  /\ <<>> \in DOMAIN c.joins /\ c.joins[<<>>] = Root
  /\ \A p \in DOMAIN c.joins :
       p \in Path /\ Prefixes(p) \subseteq DOMAIN c.joins /\ c.joins[p] \in 0 .. c.next - 1

\* What a graph says something of.
Subjects == {t[1] : t \in graph}

LEMMA SubjectsAreResources == Subjects \subseteq Resources
  BY DEF Subjects, Resources

Rooted(mu, next) ==
  DOMAIN mu \subseteq 0 .. next - 1 /\ Root \in DOMAIN mu /\ mu[Root] \in Subjects

Sound(c) ==
  \A mu \in SolsOf(c.group) :
    Rooted(mu, c.next) /\ \A p \in DOMAIN c.joins : Leads(mu, c.joins, p)

Good(c) == Shape(c) /\ Sound(c)

\* Compiling on from acc to c keeps that, and solutions.
Grows(acc, c) ==
  Good(acc) =>
    Good(c) /\ \A nu \in SolsOf(c.group) : \E mu \in SolsOf(acc.group) : Extends(nu, mu)

LEMMA GrowsSelf == \A c : Grows(c, c)
<1>1. \A mu : Extends(mu, mu)
  BY DEF Extends
<1> QED
  BY <1>1 DEF Grows

LEMMA GrowsTwice == \A c, d, e : Grows(c, d) /\ Grows(d, e) => Grows(c, e)
<1> SUFFICES ASSUME NEW c, NEW d, NEW e, Grows(c, d), Grows(d, e), Good(c) PROVE
               Good(e) /\ \A nu \in SolsOf(e.group) : \E mu \in SolsOf(c.group) : Extends(nu, mu)
  BY DEF Grows
<1>1. /\ Good(d) /\ Good(e)
      /\ \A nu \in SolsOf(d.group) : \E mu \in SolsOf(c.group) : Extends(nu, mu)
      /\ \A nu \in SolsOf(e.group) : \E mu \in SolsOf(d.group) : Extends(nu, mu)
  BY DEF Grows
<1>2. \A mu, nu, pi : Extends(nu, mu) /\ Extends(pi, nu) => Extends(pi, mu)
  BY DEF Extends
<1> QED
  BY <1>1, <1>2

LEMMA LeadsOn ==
  \A mu, nu, joins, p :
    Root \in DOMAIN mu /\ Extends(nu, mu) /\ Leads(mu, joins, p) => Leads(nu, joins, p)
<1> SUFFICES ASSUME NEW mu, NEW nu, NEW joins, NEW p, Root \in DOMAIN mu, Extends(nu, mu),
                    Leads(mu, joins, p)
             PROVE  Leads(nu, joins, p)
  OBVIOUS
<1> SUFFICES ASSUME FullyLinked(nu[Root], p)
             PROVE  \E f \in Paths(nu[Root], Prefixes(p)) :
                      \A q \in Prefixes(p) : joins[q] \in DOMAIN nu /\ nu[joins[q]] = f[q]
  BY DEF Leads
<1>1. nu[Root] = mu[Root]
  BY DEF Extends
<1>2. PICK f \in Paths(mu[Root], Prefixes(p)) :
        \A q \in Prefixes(p) : joins[q] \in DOMAIN mu /\ mu[joins[q]] = f[q]
  BY <1>1 DEF Leads
<1>3. \A q \in Prefixes(p) : joins[q] \in DOMAIN nu /\ nu[joins[q]] = f[q]
  BY <1>2 DEF Extends
<1> QED
  BY <1>1, <1>2, <1>3

\* An element that binds no more than xs.
Adds(e, xs) ==
  \A mu : \A nu \in After(mu, e) : Extends(nu, mu) /\ DOMAIN nu \subseteq DOMAIN mu \cup xs

LEMMA AppendGrows ==
  ASSUME NEW acc, NEW c, NEW e, NEW xs, DOMAIN c = StateFields,
         c.group = Append(acc.group, e), Adds(e, xs),
         c.next \in Nat, c.next >= acc.next, xs \subseteq 0 .. c.next - 1, c.joins = acc.joins
  PROVE  Grows(acc, c)
<1> SUFFICES ASSUME Good(acc)
             PROVE  Good(c) /\ \A nu \in SolsOf(c.group) :
                                 \E mu \in SolsOf(acc.group) : Extends(nu, mu)
  BY DEF Grows
<1>1. Shape(acc) /\ Sound(acc)
  BY DEF Good
<1>2. /\ IsSeq(acc.group) /\ acc.next \in Nat /\ acc.next > 0
      /\ <<>> \in DOMAIN acc.joins /\ acc.joins[<<>>] = Root
      /\ \A p \in DOMAIN acc.joins :
           p \in Path /\ Prefixes(p) \subseteq DOMAIN acc.joins /\ acc.joins[p] \in 0 .. acc.next - 1
  BY <1>1 DEF Shape
<1>3. 0 .. acc.next - 1 \subseteq 0 .. c.next - 1 /\ c.next > 0
  BY <1>2
<1>4. IsSeq(c.group)
  BY <1>2, SolsAppend
<1>5. Shape(c)
  BY <1>2, <1>3, <1>4 DEF Shape
<1>6. ASSUME NEW nu \in SolsOf(c.group)
      PROVE  \E mu \in SolsOf(acc.group) :
               Extends(nu, mu) /\ DOMAIN nu \subseteq DOMAIN mu \cup xs
  <2>1. PICK mu \in SolsOf(acc.group) : nu \in After(mu, e)
    BY <1>2, SolsStep
  <2> QED
    BY <2>1 DEF Adds
<1>7. ASSUME NEW nu \in SolsOf(c.group)
      PROVE  Rooted(nu, c.next) /\ \A p \in DOMAIN c.joins : Leads(nu, c.joins, p)
  <2>1. PICK mu \in SolsOf(acc.group) : Extends(nu, mu) /\ DOMAIN nu \subseteq DOMAIN mu \cup xs
    BY <1>6
  <2>2. Rooted(mu, acc.next) /\ \A p \in DOMAIN acc.joins : Leads(mu, acc.joins, p)
    BY <1>1 DEF Sound
  <2>3. Rooted(nu, c.next)
    BY <1>3, <2>1, <2>2 DEF Rooted, Extends
  <2>4. Root \in DOMAIN mu
    BY <2>2 DEF Rooted
  <2> QED
    BY <2>1, <2>2, <2>3, <2>4, LeadsOn
<1> QED
  BY <1>5, <1>6, <1>7 DEF Good, Sound

LEMMA SameGrows ==
  ASSUME NEW acc, NEW c, DOMAIN c = StateFields, c.group = acc.group,
         c.next \in Nat, c.next >= acc.next, c.joins = acc.joins
  PROVE  Grows(acc, c)
<1> SUFFICES ASSUME Good(acc)
             PROVE  Good(c) /\ \A nu \in SolsOf(c.group) :
                                 \E mu \in SolsOf(acc.group) : Extends(nu, mu)
  BY DEF Grows
<1>1. Shape(acc) /\ Sound(acc)
  BY DEF Good
<1>2. /\ IsSeq(acc.group) /\ acc.next \in Nat /\ acc.next > 0
      /\ <<>> \in DOMAIN acc.joins /\ acc.joins[<<>>] = Root
      /\ \A p \in DOMAIN acc.joins :
           p \in Path /\ Prefixes(p) \subseteq DOMAIN acc.joins /\ acc.joins[p] \in 0 .. acc.next - 1
  BY <1>1 DEF Shape
<1>3. 0 .. acc.next - 1 \subseteq 0 .. c.next - 1 /\ c.next > 0
  BY <1>2
<1>4. Shape(c)
  BY <1>2, <1>3 DEF Shape
<1>5. \A mu : Rooted(mu, acc.next) => Rooted(mu, c.next)
  BY <1>3 DEF Rooted
<1>6. Sound(c)
  <2>1. \A mu \in SolsOf(acc.group) :
          Rooted(mu, acc.next) /\ \A p \in DOMAIN acc.joins : Leads(mu, acc.joins, p)
    BY <1>1 DEF Sound
  <2>2. \A mu \in SolsOf(acc.group) :
          Rooted(mu, c.next) /\ \A p \in DOMAIN acc.joins : Leads(mu, acc.joins, p)
    BY <1>5, <2>1
  <2>3. Sound(c) <=> \A mu \in SolsOf(c.group) :
                       Rooted(mu, c.next) /\ \A p \in DOMAIN c.joins : Leads(mu, c.joins, p)
    BY DEF Sound
  <2> QED
    BY <2>2, <2>3
<1>7. \A mu : Extends(mu, mu)
  BY DEF Extends
<1> QED
  BY <1>4, <1>6, <1>7 DEF Good

-----------------------------------------------------------------------------
(* Following a path                                                        *)

\* The compiled state that a hop makes.
LEMMA HopState ==
  ASSUME NEW acc, DOMAIN acc = StateFields, NEW p \in Path, NEW link \in Field
  PROVE  LET r == Append(p, link)
             c == Hop(acc, Class, r)
         IN  /\ DOMAIN c = StateFields /\ c.next = acc.next + 1
             /\ c.joins = Bind(acc.joins, r, acc.next)
             /\ c.group = acc.group \o HopElements(acc.joins[p], link, acc.next, RelAt(r))
<1> DEFINE r == Append(p, link)
           rel == RelAt(r)
           hop == HopPatterns(acc.joins[p], link, acc.next, rel)
           c == [acc EXCEPT !.group = @ \o IF rel.nullable THEN <<Optional(hop)>> ELSE hop,
                            !.joins = Bind(@, r, acc.next),
                            !.next = @ + 1]
<1>1. Front(r) = p /\ Last(r) = link
  BY PathAppend
<1>2. Hop(acc, Class, r) = c
  BY <1>1 DEF Hop, HopAlong, RelAt
<1>3. HopElements(acc.joins[p], link, acc.next, rel) = IF rel.nullable THEN <<Optional(hop)>> ELSE hop
  BY DEF HopElements
<1> DEFINE elements == HopElements(acc.joins[p], link, acc.next, rel)
           joins == Bind(acc.joins, r, acc.next)
<1>4. c = [acc EXCEPT !.group = @ \o elements, !.joins = joins, !.next = @ + 1]
  BY <1>3
<1> HIDE DEF elements, joins, hop, rel
<1>5. /\ DOMAIN c = StateFields /\ c.next = acc.next + 1 /\ c.joins = joins
      /\ c.group = acc.group \o elements
  BY <1>4 DEF StateFields
<1> QED
  BY <1>2, <1>5 DEF elements, joins, rel, hop

\* What a hop gives a solution.
LEMMA HopBinds ==
  ASSUME graph \in Graphs, NEW mu, NEW nu, NEW from, NEW link, NEW to, NEW rel,
         HopsTo(nu, mu, from, link, to, rel)
  PROVE  Extends(nu, mu) /\ DOMAIN nu \subseteq DOMAIN mu \cup {from, to}
<1>1. CASE nu \in Hopped(mu, from, link, to, rel)
  <2>1. Arrives(nu, mu, from, link, to, rel)
    BY <1>1, HoppedLinks
  <2> QED
    BY <2>1 DEF Arrives
<1>2. CASE nu = mu
  BY <1>2 DEF Extends
<1> QED
  BY <1>1, <1>2 DEF HopsTo

\* A linked path leads where the hop's variable is bound.
LEMMA HopLeads ==
  ASSUME graph \in Graphs, NEW p \in Path, NEW link \in Field,
         ClassAt(Class, Append(p, link)) # None,
         NEW joins, NEW mu, NEW nu, NEW to, Root \in DOMAIN mu, to \notin DOMAIN mu,
         \A q \in Prefixes(p) : q \in DOMAIN joins,
         Leads(mu, joins, p), HopsTo(nu, mu, joins[p], link, to, RelAt(Append(p, link)))
  PROVE  Leads(nu, Bind(joins, Append(p, link), to), Append(p, link))
<1> DEFINE r == Append(p, link)
           rel == RelAt(r)
           all == Bind(joins, r, to)
<1>1. /\ r \in Path /\ r # <<>> /\ Front(r) = p /\ Last(r) = link
      /\ Prefixes(r) = Prefixes(p) \cup {r} /\ r \notin Prefixes(p)
      /\ p \in Prefixes(p) /\ Prefixes(p) \subseteq Path
  BY PathAppend, LongerPath, PrefixesOfPath
<1>2. ClassAt(Class, r) # None /\ HopsTo(nu, mu, joins[p], link, to, rel)
  OBVIOUS
<1>3. Extends(nu, mu)
  BY <1>2, HopBinds
<1>4. nu[Root] = mu[Root]
  BY <1>3 DEF Extends
<1> SUFFICES ASSUME FullyLinked(mu[Root], r)
             PROVE  \E g \in Paths(mu[Root], Prefixes(r)) :
                      \A q \in Prefixes(r) : all[q] \in DOMAIN nu /\ nu[all[q]] = g[q]
  BY <1>4 DEF Leads
<1>5. FullyLinked(mu[Root], p)
  <2> HIDE DEF r
  <2> QED
    BY <1>1 DEF FullyLinked
<1>6. PICK f \in Paths(mu[Root], Prefixes(p)) :
        \A q \in Prefixes(p) : joins[q] \in DOMAIN mu /\ mu[joins[q]] = f[q]
  BY <1>5 DEF Leads
<1>7. joins[p] \in DOMAIN mu /\ mu[joins[p]] = f[p] /\ nu[joins[p]] = f[p]
  BY <1>1, <1>3, <1>6 DEF Extends
<1>8. Targets(f[p], r) = LET ends == Linked(f[p], link, rel)
                         IN  IF ends = {} /\ rel.nullable THEN {None} ELSE ends
  BY <1>1 DEF Targets
<1>9. all[r] = to /\ \A q \in Prefixes(p) : all[q] = joins[q]
  <2> HIDE DEF r
  <2> QED
    BY <1>1 DEF Bind
<1>10. CASE nu \in Hopped(mu, joins[p], link, to, rel)
  <2>0. Arrives(nu, mu, joins[p], link, to, rel)
    BY <1>10, HoppedLinks
  <2>1. DOMAIN nu = DOMAIN mu \cup {joins[p], to} /\ nu[to] \in Linked(nu[joins[p]], link, rel)
    BY <2>0 DEF Arrives
  <2>2. nu[to] \in Targets(f[p], r)
    BY <1>7, <1>8, <2>1
  <2> DEFINE g == Longer(f, r, nu[to])
  <2>3. g \in Paths(mu[Root], Prefixes(r))
    BY <1>2, <2>2, LongerWay
  <2>4. g[r] = nu[to] /\ \A q \in Prefixes(p) : g[q] = f[q]
    BY LongerEnds
  <2> HIDE DEF g, r, all
  <2>5. \A q \in Prefixes(p) : all[q] \in DOMAIN nu /\ nu[all[q]] = g[q]
    BY <1>3, <1>6, <1>9, <2>4 DEF Extends
  <2>6. all[r] \in DOMAIN nu /\ nu[all[r]] = g[r]
    BY <1>9, <2>1, <2>4
  <2> QED
    BY <1>1, <2>3, <2>5, <2>6
<1>11. CASE rel.nullable /\ nu = mu /\ Hopped(mu, joins[p], link, to, rel) = {}
  <2>1. Linked(f[p], link, rel) = {}
    BY <1>7, <1>11, HoppedExists
  <2>2. None \in Targets(f[p], r)
    BY <1>8, <1>11, <2>1
  <2> DEFINE g == Longer(f, r, None)
  <2>3. g \in Paths(mu[Root], Prefixes(r)) /\ g[r] = None
    BY <1>2, <2>2, LongerWay, LongerEnds
  <2> HIDE DEF g, r
  <2> QED
    BY <1>1, <2>3 DEF FullyLinked
<1> QED
  BY <1>2, <1>10, <1>11 DEF HopsTo

LEMMA HopGrows ==
  ASSUME graph \in Graphs, NEW acc, NEW p \in Path, NEW link \in Field,
         ClassAt(Class, Append(p, link)) # None,
         p \in DOMAIN acc.joins, Append(p, link) \notin DOMAIN acc.joins
  PROVE  /\ Grows(acc, Hop(acc, Class, Append(p, link)))
         /\ Good(acc) => Append(p, link) \in DOMAIN Hop(acc, Class, Append(p, link)).joins
<1> SUFFICES ASSUME Good(acc)
             PROVE  LET c == Hop(acc, Class, Append(p, link))
                    IN  /\ Good(c) /\ Append(p, link) \in DOMAIN c.joins
                        /\ \A nu \in SolsOf(c.group) :
                             \E mu \in SolsOf(acc.group) : Extends(nu, mu)
  BY DEF Grows
<1> DEFINE r == Append(p, link)
           c == Hop(acc, Class, r)
           from == acc.joins[p]
           to == acc.next
           rel == RelAt(r)
<1>1. Shape(acc) /\ Sound(acc)
  BY DEF Good
<1>2. /\ DOMAIN acc = StateFields /\ IsSeq(acc.group) /\ to \in Nat /\ to > 0
      /\ <<>> \in DOMAIN acc.joins /\ acc.joins[<<>>] = Root
      /\ \A q \in DOMAIN acc.joins :
           q \in Path /\ Prefixes(q) \subseteq DOMAIN acc.joins /\ acc.joins[q] \in 0 .. to - 1
  BY <1>1 DEF Shape
<1>3. /\ DOMAIN c = StateFields /\ c.next = to + 1 /\ c.joins = Bind(acc.joins, r, to)
      /\ c.group = acc.group \o HopElements(from, link, to, rel)
  BY <1>2, HopState
<1>4. r \in Path /\ r # <<>> /\ Prefixes(r) = Prefixes(p) \cup {r} /\ r \notin DOMAIN acc.joins
  BY PathAppend
<1>5. /\ IsSeq(c.group)
      /\ \A nu \in SolsOf(c.group) :
           \E mu \in SolsOf(acc.group) : HopsTo(nu, mu, from, link, to, rel)
  BY <1>2, <1>3, HopSols
<1>6. ASSUME NEW mu, NEW nu, HopsTo(nu, mu, from, link, to, rel), Leads(mu, acc.joins, p),
             Root \in DOMAIN mu, to \notin DOMAIN mu
      PROVE  Leads(nu, Bind(acc.joins, r, to), r)
  BY <1>2, <1>6, HopLeads
<1>7. p \in DOMAIN acc.joins /\ from \in 0 .. to - 1
  BY <1>2
<1> HIDE DEF r, c, from, to, rel
<1>8. /\ DOMAIN c.joins = DOMAIN acc.joins \cup {r} /\ c.joins[r] = to
      /\ \A q \in DOMAIN acc.joins : c.joins[q] = acc.joins[q]
  BY <1>3, <1>4 DEF Bind
<1>9. Shape(c)
  <2>1. 0 .. to - 1 \subseteq 0 .. c.next - 1 /\ to \in 0 .. c.next - 1
        /\ c.next \in Nat /\ c.next > 0
    BY <1>2, <1>3
  <2>2. \A q \in DOMAIN acc.joins :
           q \in Path /\ Prefixes(q) \subseteq DOMAIN c.joins /\ c.joins[q] \in 0 .. c.next - 1
    BY <1>2, <1>8, <2>1
  <2>3. r \in Path /\ Prefixes(r) \subseteq DOMAIN c.joins /\ c.joins[r] \in 0 .. c.next - 1
    BY <1>2, <1>4, <1>7, <1>8, <2>1
  <2>4. <<>> \in DOMAIN c.joins /\ c.joins[<<>>] = Root
    BY <1>2, <1>8
  <2> QED
    BY <1>3, <1>5, <1>8, <2>1, <2>2, <2>3, <2>4 DEF Shape
<1>10. ASSUME NEW nu \in SolsOf(c.group)
       PROVE  /\ Rooted(nu, c.next) /\ \A q \in DOMAIN c.joins : Leads(nu, c.joins, q)
              /\ \E mu \in SolsOf(acc.group) : Extends(nu, mu)
  <2>1. PICK mu \in SolsOf(acc.group) : HopsTo(nu, mu, from, link, to, rel)
    BY <1>5
  <2>2. Extends(nu, mu) /\ DOMAIN nu \subseteq DOMAIN mu \cup {from, to}
    BY <2>1, HopBinds
  <2>3. Rooted(mu, to) /\ \A q \in DOMAIN acc.joins : Leads(mu, acc.joins, q)
    BY <1>1 DEF Sound, to
  <2>4. DOMAIN mu \subseteq 0 .. to - 1 /\ Root \in DOMAIN mu /\ mu[Root] \in Subjects
    BY <2>3 DEF Rooted
  <2>5. 0 .. to - 1 \subseteq 0 .. c.next - 1 /\ to \in 0 .. c.next - 1 /\ to \notin 0 .. to - 1
    BY <1>2, <1>3
  <2>6. Rooted(nu, c.next)
    BY <1>7, <2>2, <2>4, <2>5 DEF Rooted, Extends
  <2>7. Leads(nu, c.joins, r)
    BY <1>3, <1>6, <1>7, <2>1, <2>3, <2>4, <2>5
  <2>8. ASSUME NEW q \in DOMAIN acc.joins PROVE Leads(nu, c.joins, q)
    <3>1. Leads(nu, acc.joins, q)
      BY <2>2, <2>3, <2>4, LeadsOn
    <3>2. \A s \in Prefixes(q) : c.joins[s] = acc.joins[s]
      BY <1>2, <1>8
    <3> QED
      BY <3>1, <3>2 DEF Leads
  <2> QED
    BY <1>8, <2>2, <2>6, <2>7, <2>8
<1>11. Good(c) /\ r \in DOMAIN c.joins
  BY <1>8, <1>9, <1>10 DEF Good, Sound
<1> QED
  BY <1>10, <1>11 DEF c, r

FollowStep(c, partial) == IF partial \in DOMAIN c.joins THEN c ELSE Hop(c, Class, partial)

Following == INSTANCE Folding WITH Op <- FollowStep

LEMMA StagesEach ==
  /\ Stages(<<>>) = <<>>
  /\ \A p \in Path : Stages(p) \in Seq(Path)
  /\ \A p \in Path, link \in Field : Stages(Append(p, link)) = Append(Stages(p), Append(p, link))
<1>1. Stages(<<>>) = <<>>
  BY DEF Stages
<1>2. ASSUME NEW p \in Path
      PROVE  Stages(p) \in Seq(Path) /\ Len(Stages(p)) = Len(p) /\ DOMAIN Stages(p) = 1 .. Len(p)
  <2>1. Len(p) \in Nat
    BY LenProperties DEF Path
  <2>2. Prefixes(p) \subseteq Path
    BY PrefixesOfPath
  <2>3. \A n \in 1 .. Len(p) : SubSeq(p, 1, n) \in Path
    <3>1. \A n \in 1 .. Len(p) : n \in 0 .. Len(p)
      BY <2>1
    <3> QED
      BY <2>2, <3>1 DEF Prefixes
  <2> DEFINE L == Len(p)
             P == Path
             f(n) == SubSeq(p, 1, n)
  <2> HIDE DEF L, P, f
  <2>4. L \in Nat /\ \A n \in 1 .. L : f(n) \in P
    BY <2>1, <2>3 DEF L, P, f
  <2>5. [n \in 1 .. L |-> f(n)] \in Seq(P) /\ Len([n \in 1 .. L |-> f(n)]) = L
    BY <2>4
  <2>6. Stages(p) = [n \in 1 .. L |-> f(n)]
    BY DEF Stages, L, f
  <2> QED
    BY <2>5, <2>6 DEF L, P
<1>3. ASSUME NEW p \in Path, NEW link \in Field
      PROVE  Stages(Append(p, link)) = Append(Stages(p), Append(p, link))
  <2> DEFINE r == Append(p, link)
             s == Stages(p)
             t == Stages(r)
             L == Len(p)
  <2>1. /\ r \in Path /\ Len(r) = L + 1 /\ SubSeq(r, 1, L + 1) = r
        /\ \A n \in 0 .. L : SubSeq(r, 1, n) = SubSeq(p, 1, n)
    BY PathAppend
  <2>2. L \in Nat
    BY LenProperties DEF Path
  <2>3. s \in Seq(Path) /\ Len(s) = L /\ t \in Seq(Path) /\ Len(t) = L + 1
    BY <1>2, <2>1
  <2>4. /\ \A n \in 1 .. L : s[n] = SubSeq(p, 1, n)
        /\ \A n \in 1 .. L + 1 : t[n] = SubSeq(r, 1, n)
    BY <2>1 DEF Stages
  <2> HIDE DEF r, s, t, L
  <2>5. /\ Append(s, r) \in Seq(Path) /\ Len(Append(s, r)) = L + 1
        /\ \A n \in 1 .. L : Append(s, r)[n] = s[n]
        /\ Append(s, r)[L + 1] = r
    BY <2>1, <2>3, AppendProperties
  <2>6. ASSUME NEW n \in 1 .. L + 1 PROVE t[n] = Append(s, r)[n]
    <3>1. CASE n = L + 1
      BY <2>1, <2>4, <2>5, <3>1
    <3>2. CASE n # L + 1
      <4>1. n \in 1 .. L /\ n \in 0 .. L
        BY <2>2, <3>2
      <4> QED
        BY <2>1, <2>4, <2>5, <4>1
    <3> QED
      BY <3>1, <3>2
  <2>7. t = Append(s, r)
    BY <2>3, <2>5, <2>6, SeqEqual
  <2> QED
    BY <2>7 DEF r, s, t
<1> QED
  BY <1>1, <1>2, <1>3

LEMMA FollowEach ==
  /\ \A acc : FollowPath(acc, Class, <<>>) = acc
  /\ \A acc : \A p \in Path, link \in Field :
       FollowPath(acc, Class, Append(p, link))
         = FollowStep(FollowPath(acc, Class, p), Append(p, link))
<1>1. \A acc, p : FollowPath(acc, Class, p) = Following!Result(acc, Stages(p))
  BY DEF FollowPath, FollowStep, FoldLeft, MapThenFoldSet, Max, Following!Result,
         Following!MapThenFoldSet, Following!Max
<1>2. ASSUME NEW acc PROVE FollowPath(acc, Class, <<>>) = acc
  <2>1. FollowPath(acc, Class, <<>>) = Following!Result(acc, <<>>)
    BY <1>1, StagesEach
  <2> QED
    BY <2>1, Following!FoldEmpty
<1>3. ASSUME NEW acc, NEW p \in Path, NEW link \in Field
      PROVE  FollowPath(acc, Class, Append(p, link))
               = FollowStep(FollowPath(acc, Class, p), Append(p, link))
  <2> DEFINE r == Append(p, link)
             s == Stages(p)
  <2>1. r \in Path /\ s \in Seq(Path) /\ Stages(r) = Append(s, r)
    BY PathAppend, StagesEach
  <2> HIDE DEF r
  <2>2. FollowPath(acc, Class, r) = Following!Result(acc, Append(s, r))
    BY <1>1, <2>1
  <2>3. FollowPath(acc, Class, p) = Following!Result(acc, s)
    BY <1>1
  <2> HIDE DEF s
  <2>4. Following!Result(acc, Append(s, r)) = FollowStep(Following!Result(acc, s), r)
    BY <2>1, Following!FoldAppend
  <2> QED
    BY <2>2, <2>3, <2>4 DEF r
<1> QED
  BY <1>2, <1>3

\* Compiling on from acc to c numbers variables upwards.
Later(acc, c) ==
  DOMAIN acc = StateFields /\ acc.next \in Nat =>
    DOMAIN c = StateFields /\ c.next \in Nat /\ c.next >= acc.next

LEMMA LaterTwice == \A c, d, e : Later(c, d) /\ Later(d, e) => Later(c, e)
<1> SUFFICES ASSUME NEW c, NEW d, NEW e, Later(c, d), Later(d, e),
                    DOMAIN c = StateFields, c.next \in Nat
             PROVE  DOMAIN e = StateFields /\ e.next \in Nat /\ e.next >= c.next
  BY DEF Later
<1>1. DOMAIN d = StateFields /\ d.next \in Nat /\ d.next >= c.next
  BY DEF Later
<1>2. DOMAIN e = StateFields /\ e.next \in Nat /\ e.next >= d.next
  BY <1>1 DEF Later
<1> QED
  BY <1>1, <1>2

LEMMA FollowLater ==
  ASSUME NEW acc, NEW p \in Path PROVE Later(acc, FollowPath(acc, Class, p))
<1> DEFINE T == {q \in Path : Later(acc, FollowPath(acc, Class, q))}
<1>1. <<>> \in T
  <2>1. Later(acc, acc)
    BY DEF Later
  <2> QED
    BY <2>1, EmptyPath, FollowEach
<1>2. ASSUME NEW q \in Path, NEW link \in Field, q \in T PROVE Append(q, link) \in T
  <2> DEFINE c == FollowPath(acc, Class, q)
             r == Append(q, link)
  <2>1. r \in Path
    BY PathAppend
  <2>2. FollowPath(acc, Class, r) = FollowStep(c, r)
    BY FollowEach
  <2>3. DOMAIN c = StateFields => DOMAIN Hop(c, Class, r) = StateFields
                                  /\ Hop(c, Class, r).next = c.next + 1
    BY HopState
  <2>4. Later(acc, c)
    BY <1>2
  <2> HIDE DEF c, r
  <2>5. Later(c, Hop(c, Class, r)) /\ Later(c, c)
    BY <2>3 DEF Later
  <2>6. Later(c, FollowStep(c, r))
    BY <2>5 DEF FollowStep
  <2>7. Later(acc, FollowPath(acc, Class, r))
    BY <2>2, <2>4, <2>6, LaterTwice
  <2> QED
    BY <2>1, <2>7 DEF r
<1> HIDE DEF T
<1>3. Path \subseteq T
  BY <1>1, <1>2, SeqSet DEF Path
<1> QED
  BY <1>3 DEF T

\* A path that leads somewhere can be followed.
LEMMA FollowGrows ==
  ASSUME graph \in Graphs, NEW acc, NEW p \in Path, ClassAt(Class, p) # None
  PROVE  /\ Grows(acc, FollowPath(acc, Class, p))
         /\ Good(acc) => p \in DOMAIN FollowPath(acc, Class, p).joins
<1> DEFINE T == {q \in Path : ClassAt(Class, q) # None =>
                                /\ Grows(acc, FollowPath(acc, Class, q))
                                /\ Good(acc) => q \in DOMAIN FollowPath(acc, Class, q).joins}
<1>1. <<>> \in T
  <2>1. Good(acc) => <<>> \in DOMAIN acc.joins
    BY DEF Good, Shape
  <2> QED
    BY <2>1, EmptyPath, FollowEach, GrowsSelf
<1>2. ASSUME NEW q \in Path, NEW link \in Field, q \in T PROVE Append(q, link) \in T
  <2> DEFINE c == FollowPath(acc, Class, q)
             r == Append(q, link)
             d == FollowPath(acc, Class, r)
  <2>1. r \in Path
    BY PathAppend
  <2> SUFFICES ASSUME ClassAt(Class, r) # None
               PROVE  Grows(acc, d) /\ (Good(acc) => r \in DOMAIN d.joins)
    BY <2>1
  <2>2. ClassAt(Class, q) # None
    BY ClassBefore, SchemaAssumption
  <2>3. Grows(acc, c) /\ (Good(acc) => q \in DOMAIN c.joins)
    BY <1>2, <2>2
  <2>4. d = FollowStep(c, r)
    BY FollowEach
  <2>5. CASE r \in DOMAIN c.joins
    <3>1. d = c
      BY <2>4, <2>5 DEF FollowStep
    <3> HIDE DEF c, d, r
    <3> QED
      BY <2>3, <2>5, <3>1
  <2>6. CASE r \notin DOMAIN c.joins /\ Good(acc)
    <3>1. q \in DOMAIN c.joins /\ Good(c)
      BY <2>3, <2>6 DEF Grows
    <3>2. d = Hop(c, Class, r)
      BY <2>4, <2>6 DEF FollowStep
    <3> HIDE DEF c
    <3>3. Grows(c, Hop(c, Class, r)) /\ (Good(c) => r \in DOMAIN Hop(c, Class, r).joins)
      BY <2>6, <3>1, HopGrows
    <3> HIDE DEF d, r
    <3>4. Grows(acc, d)
      BY <2>3, <3>2, <3>3, GrowsTwice
    <3> QED
      BY <3>1, <3>2, <3>3, <3>4
  <2>7. CASE ~Good(acc)
    BY <2>7 DEF Grows
  <2> QED
    BY <2>5, <2>6, <2>7
<1> HIDE DEF T
<1>3. Path \subseteq T
  BY <1>1, <1>2, SeqSet DEF Path
<1> QED
  BY <1>3 DEF T

-----------------------------------------------------------------------------
(* Compiling a filter                                                      *)

LEMMA ElementsAdd ==
  ASSUME graph \in Graphs
  PROVE  /\ \A s, pred, o : Adds(Triple(s, pred, o), {s, o})
         /\ \A s, pred, o : Adds(Optional(<<Triple(s, pred, o)>>), {s, o})
         /\ \A s, pred, v : Adds(TripleTo(s, pred, v), {s})
         /\ \A s, path, v : Adds(PathTo(s, path, v), {s})
         /\ \A from, link, to, rel : Adds(Optional(HopPatterns(from, link, to, rel)), {from, to})
<1>1. ASSUME NEW s, NEW pred, NEW o, NEW mu, NEW nu \in Matches(graph, mu, Triple(s, pred, o))
      PROVE  Extends(nu, mu) /\ DOMAIN nu \subseteq DOMAIN mu \cup {s, o}
  <2>1. MatchesTriple(nu, mu, s, pred, o)
    BY MatchFollows
  <2> QED
    BY <2>1 DEF MatchesTriple
<1>2. ASSUME NEW s, NEW pred, NEW o PROVE Adds(Triple(s, pred, o), {s, o})
  BY <1>1, AfterPattern DEF Adds
<1>3. ASSUME NEW s, NEW pred, NEW o PROVE Adds(Optional(<<Triple(s, pred, o)>>), {s, o})
  <2> SUFFICES ASSUME NEW mu, NEW nu \in After(mu, Optional(<<Triple(s, pred, o)>>))
               PROVE  Extends(nu, mu) /\ DOMAIN nu \subseteq DOMAIN mu \cup {s, o}
    BY DEF Adds
  <2>1. nu \in LeftJoin(graph, mu, <<Triple(s, pred, o)>>)
    BY AfterPattern
  <2>2. nu = mu \/ nu \in Matches(graph, mu, Triple(s, pred, o))
    BY <2>1, JoinAllOne DEF LeftJoin
  <2>3. CASE nu = mu
    BY <2>3 DEF Extends
  <2>4. CASE nu \in Matches(graph, mu, Triple(s, pred, o))
    BY <1>1, <2>4
  <2> QED
    BY <2>2, <2>3, <2>4
<1>4. ASSUME NEW s, NEW pred, NEW v PROVE Adds(TripleTo(s, pred, v), {s})
  <2> SUFFICES ASSUME NEW mu, NEW nu \in After(mu, TripleTo(s, pred, v))
               PROVE  Extends(nu, mu) /\ DOMAIN nu \subseteq DOMAIN mu \cup {s}
    BY DEF Adds
  <2>1. nu \in Matches(graph, mu, TripleTo(s, pred, v))
    BY AfterPattern
  <2>2. MatchesConstant(nu, mu, s, pred, v)
    BY <2>1, MatchFollows
  <2> QED
    BY <2>2 DEF MatchesConstant
<1>5. ASSUME NEW s, NEW path, NEW v PROVE Adds(PathTo(s, path, v), {s})
  <2> SUFFICES ASSUME NEW mu, NEW nu \in After(mu, PathTo(s, path, v))
               PROVE  Extends(nu, mu) /\ DOMAIN nu \subseteq DOMAIN mu \cup {s}
    BY DEF Adds
  <2>1. PathTo(s, path, v).kind # "optional"
    BY DEF PathTo
  <2>2. nu \in Matches(graph, mu, PathTo(s, path, v))
    BY <2>1 DEF After
  <2>3. \E n : Binds(nu, mu, s, n)
    BY <2>2, PathMatch
  <2> QED
    BY <2>3 DEF Binds
<1>6. ASSUME NEW from, NEW link, NEW to, NEW rel
      PROVE  Adds(Optional(HopPatterns(from, link, to, rel)), {from, to})
  <2> SUFFICES ASSUME NEW mu, NEW nu \in After(mu, Optional(HopPatterns(from, link, to, rel)))
               PROVE  Extends(nu, mu) /\ DOMAIN nu \subseteq DOMAIN mu \cup {from, to}
    BY DEF Adds
  <2>1. nu \in LeftJoin(graph, mu, HopPatterns(from, link, to, rel))
    BY AfterPattern
  <2>2. nu = mu \/ nu \in Hopped(mu, from, link, to, rel)
    BY <2>1 DEF LeftJoin, Hopped
  <2>3. CASE nu = mu
    BY <2>3 DEF Extends
  <2>4. CASE nu \in Hopped(mu, from, link, to, rel)
    <3>1. Arrives(nu, mu, from, link, to, rel)
      BY <2>4, HoppedLinks
    <3> QED
      BY <3>1 DEF Arrives
  <2> QED
    BY <2>2, <2>3, <2>4
<1> QED
  BY <1>2, <1>3, <1>4, <1>5, <1>6

\* A filter adds at most one element to the group, at node, and at most one variable.
Adding(c, d, node) ==
  /\ DOMAIN d = StateFields /\ d.joins = c.joins
  /\ \/ d.group = c.group /\ d.next = c.next
     \/ \E e : d.group = Append(c.group, e) /\ Adds(e, {node}) /\ d.next = c.next
     \/ \E e : d.group = Append(c.group, e) /\ Adds(e, {node, c.next}) /\ d.next = c.next + 1

LEMMA AddingLater == \A c, d, node : Adding(c, d, node) => Later(c, d)
  BY DEF Adding, Later

LEMMA AddingGrows ==
  ASSUME NEW c, NEW d, NEW node, Adding(c, d, node), Good(c) => node \in 0 .. c.next - 1
  PROVE  Grows(c, d)
<1> SUFFICES ASSUME Good(c) PROVE Grows(c, d)
  BY DEF Grows
<1>1. c.next \in Nat /\ node \in 0 .. c.next - 1
  BY DEF Good, Shape
<1>2. DOMAIN d = StateFields /\ d.joins = c.joins
  BY DEF Adding
<1>3. CASE d.group = c.group /\ d.next = c.next
  BY <1>1, <1>2, <1>3, SameGrows
<1>4. ASSUME NEW e, d.group = Append(c.group, e), Adds(e, {node}), d.next = c.next
      PROVE  Grows(c, d)
  <2>1. {node} \subseteq 0 .. d.next - 1 /\ d.next \in Nat /\ d.next >= c.next
    BY <1>1, <1>4
  <2> QED
    BY <1>2, <1>4, <2>1, AppendGrows
<1>5. ASSUME NEW e, d.group = Append(c.group, e), Adds(e, {node, c.next}), d.next = c.next + 1
      PROVE  Grows(c, d)
  <2>1. {node, c.next} \subseteq 0 .. d.next - 1 /\ d.next \in Nat /\ d.next >= c.next
    BY <1>1, <1>5
  <2> QED
    BY <1>2, <1>5, <2>1, AppendGrows
<1> QED
  BY <1>3, <1>4, <1>5 DEF Adding

LEMMA FollowedAdds ==
  ASSUME graph \in Graphs, NEW acc, NEW c, DOMAIN c = StateFields, NEW e, NEW notExists
  PROVE  Adding(c, CompileFollowed(acc, c, Class, e, notExists), c.joins[e.left.path])
<1> DEFINE node == c.joins[e.left.path]
           guarded(f) == IF AddsOptional(acc, c) THEN EitherF(NotBoundF(node), f) ELSE f
           value == Triple(node, e.left.field, c.next)
           compared == CompareF(c.next, e.op, e.right)
           d == CompileFollowed(acc, c, Class, e, notExists)
           presence == CompilePresence(c, Class, e)
           constant == TripleTo(node, e.left.field, e.right)
           equal == [c EXCEPT !.group = Append(@, constant)]
           lacks == guarded(LacksF(node, e.left.field, e.right))
           lacking == [c EXCEPT !.filters = Append(@, lacks)]
           among == [c EXCEPT !.group = Append(@, value), !.filters = Append(@, compared),
                              !.next = @ + 1]
           test == guarded(compared)
           tested == [c EXCEPT !.group = Append(@, value), !.filters = Append(@, test),
                               !.next = @ + 1]
<1>1. d \in {presence, equal, lacking, among, tested}
  BY DEF CompileFollowed
<1>2. Adding(c, presence, node)
  <2> DEFINE rel == Schema[ClassAt(Class, e.left.path)].links[e.left.field]
             hop == Optional(HopPatterns(node, e.left.field, c.next, rel))
             f == IF e.op = "is" THEN NotBoundF(c.next) ELSE BoundF(c.next)
  <2>1. presence = [c EXCEPT !.group = Append(@, hop), !.filters = Append(@, f), !.next = @ + 1]
    BY DEF CompilePresence
  <2>2. Adds(hop, {node, c.next})
    BY ElementsAdd
  <2> HIDE DEF hop, f, presence, node
  <2>3. /\ DOMAIN presence = StateFields /\ presence.joins = c.joins
        /\ presence.group = Append(c.group, hop) /\ presence.next = c.next + 1
    BY <2>1 DEF StateFields
  <2> QED
    BY <2>2, <2>3 DEF Adding
<1>3. Adding(c, equal, node)
  <2>1. Adds(constant, {node})
    BY ElementsAdd
  <2> HIDE DEF constant, node
  <2>2. /\ DOMAIN equal = StateFields /\ equal.joins = c.joins
        /\ equal.group = Append(c.group, constant) /\ equal.next = c.next
    BY DEF StateFields
  <2> HIDE DEF equal
  <2> QED
    BY <2>1, <2>2 DEF Adding
<1>4. Adding(c, lacking, node)
  <2> HIDE DEF lacks, node
  <2>1. /\ DOMAIN lacking = StateFields /\ lacking.joins = c.joins
        /\ lacking.group = c.group /\ lacking.next = c.next
    BY DEF StateFields
  <2> HIDE DEF lacking
  <2> QED
    BY <2>1 DEF Adding
<1>5. Adds(value, {node, c.next})
  BY ElementsAdd
<1>6. Adding(c, among, node)
  <2> HIDE DEF compared, node, value
  <2>1. /\ DOMAIN among = StateFields /\ among.joins = c.joins
        /\ among.group = Append(c.group, value) /\ among.next = c.next + 1
    BY DEF StateFields
  <2> HIDE DEF among
  <2> QED
    BY <1>5, <2>1 DEF Adding
<1>7. Adding(c, tested, node)
  <2> HIDE DEF test, node, value
  <2>1. /\ DOMAIN tested = StateFields /\ tested.joins = c.joins
        /\ tested.group = Append(c.group, value) /\ tested.next = c.next + 1
    BY DEF StateFields
  <2> HIDE DEF tested
  <2> QED
    BY <1>5, <2>1 DEF Adding
<1> HIDE DEF d, presence, equal, lacking, among, tested, node
<1>8. Adding(c, d, node)
  BY <1>1, <1>2, <1>3, <1>4, <1>6, <1>7
<1> QED
  BY <1>8 DEF d, node

\* The node of a path that was followed.
LEMMA NodeKnown ==
  ASSUME NEW c, NEW p, Good(c), p \in DOMAIN c.joins
  PROVE  c.joins[p] \in 0 .. c.next - 1
  BY DEF Good, Shape

LEMMA CompareLater ==
  ASSUME graph \in Graphs, NEW acc, NEW e, e.left.path \in Path, NEW notExists
  PROVE  Later(acc, CompileCompare(acc, Class, e, notExists))
<1> DEFINE c == FollowPath(acc, Class, e.left.path)
           d == CompileFollowed(acc, c, Class, e, notExists)
<1>1. Later(acc, c)
  BY FollowLater
<1>2. DOMAIN c = StateFields => Adding(c, d, c.joins[e.left.path])
  BY FollowedAdds
<1>3. CompileCompare(acc, Class, e, notExists) = d
  BY DEF CompileCompare
<1> HIDE DEF c, d
<1>4. DOMAIN c = StateFields => Later(c, d)
  BY <1>2, AddingLater
<1>5. Later(c, d)
  BY <1>4 DEF Later
<1> QED
  BY <1>1, <1>3, <1>5, LaterTwice

LEMMA CompareGrows ==
  ASSUME graph \in Graphs, NEW acc, NEW e, e.left.path \in Path, ClassAt(Class, e.left.path) # None,
         NEW notExists
  PROVE  Grows(acc, CompileCompare(acc, Class, e, notExists))
<1> DEFINE p == e.left.path
           c == FollowPath(acc, Class, p)
           d == CompileFollowed(acc, c, Class, e, notExists)
<1>1. Grows(acc, c) /\ (Good(acc) => p \in DOMAIN c.joins)
  BY FollowGrows
<1>2. DOMAIN c = StateFields => Adding(c, d, c.joins[p])
  BY FollowedAdds
<1>3. CompileCompare(acc, Class, e, notExists) = d
  BY DEF CompileCompare
<1> HIDE DEF c, d, p
<1> SUFFICES ASSUME Good(acc) PROVE Grows(acc, d)
  BY <1>3 DEF Grows
<1>4. Good(c) /\ p \in DOMAIN c.joins
  BY <1>1 DEF Grows
<1>5. Adding(c, d, c.joins[p]) /\ c.joins[p] \in 0 .. c.next - 1
  <2>1. DOMAIN c = StateFields
    BY <1>4 DEF Good, Shape
  <2> QED
    BY <1>2, <1>4, <2>1, NodeKnown
<1>6. Grows(c, d)
  BY <1>5, AddingGrows
<1> QED
  BY <1>1, <1>6, GrowsTwice

-----------------------------------------------------------------------------
(* Compiling EXISTS blocks: they only take numbers for their variables     *)

LEMMA StringPaths == \A p : p \in Seq(STRING) => p \in Path
  BY DEF Path, Field

LEMMA PathKnown ==
  ASSUME NEW e, HasPath(e), e.kind \in {"compare", "iri_str"} PROVE e.left.path \in Path
<1>1. e.left.path \in Seq(STRING)
  BY DEF HasPath
<1> QED
  BY <1>1, StringPaths

CompareStep(c, e) == CompileCompare(c, Class, e, query.use_not_exists_for_ne)

Comparing == INSTANCE Folding WITH Op <- CompareStep

BlockStep(d, e) == AddBlock(d, ExistsBlock(d, Class, Branch(e), query.use_not_exists_for_ne))

Blocking == INSTANCE Folding WITH Op <- BlockStep

\* Comparisons, each with a path.
Pathed(compares) == \E S : compares \in Seq(S) /\ \A e \in S : e.left.path \in Path

LEMMA BlockLater ==
  ASSUME graph \in Graphs, NEW d, d.next \in Nat, NEW compares, Pathed(compares)
  PROVE  LET made == ExistsBlock(d, Class, compares, query.use_not_exists_for_ne)
         IN  made.next \in Nat /\ made.next >= d.next
<1> DEFINE first == Start(d.next)
           R(s) == Comparing!Result(first, s)
<1>1. PICK S : compares \in Seq(S) /\ \A e \in S : e.left.path \in Path
  BY DEF Pathed
<1>2. ExistsBlock(d, Class, compares, query.use_not_exists_for_ne) = BlockOf(R(compares))
  BY DEF ExistsBlock, CompareStep, FoldLeft, MapThenFoldSet, Max, Comparing!Result,
         Comparing!MapThenFoldSet, Comparing!Max
<1>3. DOMAIN first = StateFields /\ first.next = d.next
  BY DEF Start, StateFields
<1> HIDE DEF first
<1> DEFINE T == {s \in Seq(S) : Later(first, R(s))}
<1>4. <<>> \in T
  <2>1. R(<<>>) = first
    BY Comparing!FoldEmpty
  <2>2. Later(first, first)
    BY DEF Later
  <2> QED
    BY <2>1, <2>2, EmptySeq
<1>5. ASSUME NEW s \in Seq(S), NEW e \in S, s \in T PROVE Append(s, e) \in T
  <2>1. R(Append(s, e)) = CompareStep(R(s), e)
    BY Comparing!FoldAppend
  <2>2. Append(s, e) \in Seq(S)
    BY AppendProperties
  <2>3. Later(first, R(s)) /\ e.left.path \in Path
    BY <1>1, <1>5
  <2> HIDE DEF R
  <2>4. Later(R(s), CompareStep(R(s), e))
    BY <2>3, CompareLater DEF CompareStep
  <2>5. Later(first, R(Append(s, e)))
    BY <2>1, <2>3, <2>4, LaterTwice
  <2> QED
    BY <2>2, <2>5
<1> HIDE DEF T
<1>6. Seq(S) \subseteq T
  BY <1>4, <1>5, SeqSet
<1>7. Later(first, R(compares))
  BY <1>1, <1>6 DEF T
<1> HIDE DEF R
<1>8. R(compares).next \in Nat /\ R(compares).next >= d.next
  BY <1>3, <1>7 DEF Later
<1>9. BlockOf(R(compares)).next = R(compares).next
  BY DEF BlockOf
<1> QED
  BY <1>2, <1>8, <1>9

LEMMA BlocksLater ==
  ASSUME graph \in Graphs, NEW acc, acc.next \in Nat,
         NEW B, NEW branches \in Seq(B), \A b \in B : Pathed(Branch(b))
  PROVE  LET d == OrBlocks(acc, Class, branches, query.use_not_exists_for_ne)
         IN  d.next \in Nat /\ d.next >= acc.next
<1> DEFINE first == [blocks |-> <<>>, next |-> acc.next]
           R(s) == Blocking!Result(first, s)
           T == {s \in Seq(B) : R(s).next \in Nat /\ R(s).next >= acc.next}
<1>1. OrBlocks(acc, Class, branches, query.use_not_exists_for_ne) = R(branches)
  BY DEF OrBlocks, BlockStep, FoldLeft, MapThenFoldSet, Max, Blocking!Result,
         Blocking!MapThenFoldSet, Blocking!Max
<1>2. <<>> \in T
  <2>1. R(<<>>) = first
    BY Blocking!FoldEmpty
  <2>2. first.next = acc.next
    OBVIOUS
  <2> HIDE DEF R, first
  <2> QED
    BY <2>1, <2>2, EmptySeq
<1>3. ASSUME NEW s \in Seq(B), NEW b \in B, s \in T PROVE Append(s, b) \in T
  <2>1. R(Append(s, b)) = BlockStep(R(s), b)
    BY Blocking!FoldAppend
  <2>2. Append(s, b) \in Seq(B)
    BY AppendProperties
  <2>3. R(s).next \in Nat /\ R(s).next >= acc.next
    BY <1>3
  <2> HIDE DEF R
  <2> DEFINE made == ExistsBlock(R(s), Class, Branch(b), query.use_not_exists_for_ne)
  <2>4. made.next \in Nat /\ made.next >= R(s).next
    BY <2>3, BlockLater
  <2>5. BlockStep(R(s), b).next = made.next
    BY DEF BlockStep, AddBlock
  <2> HIDE DEF made
  <2> QED
    BY <2>1, <2>2, <2>3, <2>4, <2>5
<1> HIDE DEF T, R
<1>4. Seq(B) \subseteq T
  BY <1>2, <1>3, SeqSet
<1> QED
  BY <1>1, <1>4 DEF T

\* What a disjunction compares.
LEMMA DisjunctsPathed ==
  ASSUME NEW e, e.kind = "or", HasBranches(e), ~DisjunctsRaise(Class, e)
  PROVE  \E B : e.parts \in Seq(B) /\ \A b \in B : Pathed(Branch(b))
<1> DEFINE B == {e.parts[i] : i \in DOMAIN e.parts}
<1>1. e.parts \in Seq(B) /\ \A i \in DOMAIN e.parts : IsBranch(e.parts[i])
  BY DEF HasBranches, IsTuple
<1>2. \A i \in DOMAIN e.parts : ~BranchRaises(Class, e.parts[i])
  BY DEF DisjunctsRaise
<1>3. ASSUME NEW b, IsBranch(b), ~BranchRaises(Class, b) PROVE Pathed(Branch(b))
  <2>1. /\ b.kind \in {"compare", "and"}
        /\ \A i \in DOMAIN Branch(b) : Branch(b)[i].kind = "compare"
    BY <1>3 DEF BranchRaises
  <2>2. CASE b.kind = "and"
    <3> DEFINE S == {b.parts[i] : i \in DOMAIN b.parts}
    <3>1. /\ Branch(b) = b.parts /\ b.parts \in Seq(S)
          /\ \A i \in DOMAIN b.parts : HasPath(b.parts[i])
      BY <1>3, <2>2 DEF Branch, IsBranch, IsTuple
    <3>2. \A i \in DOMAIN b.parts : b.parts[i].left.path \in Path
      BY <2>1, <3>1, PathKnown
    <3>3. \A c \in S : c.left.path \in Path
      BY <3>2
    <3> QED
      BY <3>1, <3>3 DEF Pathed
  <2>3. CASE b.kind = "compare"
    <3>1. b.left.path \in Path
      <4>1. HasPath(b)
        BY <1>3, <2>3 DEF IsBranch
      <4> QED
        BY <2>3, <4>1, PathKnown
    <3>2. Branch(b) = <<b>>
      BY <2>3 DEF Branch
    <3> DEFINE S == {b}
    <3>3. <<b>> \in Seq(S) /\ \A c \in S : c = b
      OBVIOUS
    <3> HIDE DEF S
    <3> QED
      BY <3>1, <3>2, <3>3 DEF Pathed
  <2> QED
    BY <2>1, <2>2, <2>3
<1>4. \A b \in B : Pathed(Branch(b))
  BY <1>1, <1>2, <1>3
<1> QED
  BY <1>1, <1>4

LEMMA BlocksGrow ==
  ASSUME graph \in Graphs, NEW acc, NEW e, e.kind = "or", HasBranches(e),
         ~DisjunctsRaise(Class, e), NEW negated
  PROVE  Grows(acc, AddBlocks(acc, OrBlocks(acc, Class, e.parts, query.use_not_exists_for_ne),
                              negated))
<1> DEFINE d == OrBlocks(acc, Class, e.parts, query.use_not_exists_for_ne)
           f == IF negated THEN NoneF(d.blocks) ELSE AnyF(d.blocks)
           c == [acc EXCEPT !.filters = Append(@, f), !.next = d.next]
<1> SUFFICES ASSUME Good(acc) PROVE Grows(acc, AddBlocks(acc, d, negated))
  BY DEF Grows
<1>1. DOMAIN acc = StateFields /\ acc.next \in Nat
  BY DEF Good, Shape
<1>2. PICK B : e.parts \in Seq(B) /\ \A b \in B : Pathed(Branch(b))
  BY DisjunctsPathed
<1>3. d.next \in Nat /\ d.next >= acc.next
  BY <1>1, <1>2, BlocksLater
<1>4. AddBlocks(acc, d, negated) = c
  BY DEF AddBlocks
<1> HIDE DEF d, f
<1>5. DOMAIN c = StateFields /\ c.group = acc.group /\ c.next = d.next /\ c.joins = acc.joins
  BY <1>1 DEF StateFields
<1> HIDE DEF c
<1> QED
  BY <1>3, <1>4, <1>5, SameGrows

-----------------------------------------------------------------------------
(* Compiling all filters                                                   *)

FilterStep(c, e) == CompileFilter(c, Class, e, query.use_not_exists_for_ne)

LEMMA FieldLeads ==
  ASSUME NEW ref, NEW fields, ~FieldRaises(Class, ref, fields)
  PROVE  ClassAt(Class, ref.path) # None
  BY DEF FieldRaises

LEMMA FiltersOnlyGrow ==
  ASSUME NEW c, NEW f PROVE Grows(c, [c EXCEPT !.filters = Append(@, f)])
<1> DEFINE d == [c EXCEPT !.filters = Append(@, f)]
<1> SUFFICES ASSUME Good(c) PROVE Grows(c, d)
  BY DEF Grows
<1>1. DOMAIN c = StateFields /\ c.next \in Nat
  BY DEF Good, Shape
<1>2. DOMAIN d = StateFields /\ d.group = c.group /\ d.next = c.next /\ d.joins = c.joins
  BY <1>1 DEF StateFields
<1>3. d.next \in Nat /\ d.next >= c.next
  BY <1>1, <1>2
<1> HIDE DEF d
<1> QED
  BY <1>2, <1>3, SameGrows

LEMMA FilterGrows ==
  ASSUME graph \in Graphs, NEW acc, NEW e, IsFilter(e), ~FilterRaises(Class, e)
  PROVE  Grows(acc, FilterStep(acc, e))
<1> DEFINE ne == query.use_not_exists_for_ne
           d == FilterStep(acc, e)
<1>1. /\ HasPath(e) /\ HasBranches(e) /\ (e.kind = "not" => HasBranches(e.inner))
      /\ e.kind \in {"compare", "iri_str", "property", "not", "or"}
  BY DEF IsFilter, FilterRaises
<1>2. CASE e.kind = "compare"
  <2>1. d = CompileCompare(acc, Class, e, ne)
    BY <1>2 DEF FilterStep, CompileFilter
  <2>2. ~CompareRaises(Class, e)
    BY <1>2 DEF FilterRaises
  <2>3. e.left.path \in Path
    BY <1>1, <1>2, PathKnown
  <2>4. ClassAt(Class, e.left.path) # None
    BY <2>2, FieldLeads DEF CompareRaises
  <2> QED
    BY <2>1, <2>3, <2>4, CompareGrows
<1>3. CASE e.kind = "iri_str"
  <2> DEFINE p == e.left.path
             c == FollowPath(acc, Class, p)
             f == CompareF(c.joins[p], e.op, e.right)
  <2>1. d = [c EXCEPT !.filters = Append(@, f)]
    BY <1>3 DEF FilterStep, CompileFilter, CompileIriStr, CompareNode
  <2>2. ~FieldRaises(Class, e.left, IriFields)
    BY <1>3 DEF FilterRaises
  <2>3. p \in Path
    BY <1>1, <1>3, PathKnown
  <2>4. ClassAt(Class, p) # None
    BY <2>2, FieldLeads
  <2>5. Grows(acc, c)
    BY <2>3, <2>4, FollowGrows
  <2> HIDE DEF c, f, d
  <2>6. Grows(c, d)
    BY <2>1, FiltersOnlyGrow
  <2>7. Grows(acc, d)
    BY <2>5, <2>6, GrowsTwice
  <2> QED
    BY <2>7 DEF d
<1>4. CASE e.kind = "property"
  <2> DEFINE el == PathTo(Root, e.path, e.right)
  <2>1. d = [acc EXCEPT !.group = Append(@, el)]
    BY <1>4 DEF FilterStep, CompileFilter, CompileProperty
  <2> SUFFICES ASSUME Good(acc) PROVE Grows(acc, d)
    BY DEF Grows
  <2>2. DOMAIN acc = StateFields /\ acc.next \in Nat /\ acc.next > 0
    BY DEF Good, Shape
  <2>3. Adds(el, {Root})
    BY ElementsAdd
  <2> HIDE DEF el, d
  <2>4. /\ DOMAIN d = StateFields /\ d.group = Append(acc.group, el)
        /\ d.next = acc.next /\ d.joins = acc.joins
    BY <2>1, <2>2 DEF StateFields
  <2>5. Root \in 0 .. acc.next - 1
    BY <2>2 DEF Root
  <2>6. Adding(acc, d, Root)
    BY <2>3, <2>4 DEF Adding
  <2>7. Grows(acc, d)
    BY <2>5, <2>6, AddingGrows
  <2> QED
    BY <2>7 DEF d
<1>5. CASE e.kind = "or"
  <2>1. d = AddBlocks(acc, OrBlocks(acc, Class, e.parts, ne), FALSE)
    BY <1>5 DEF FilterStep, CompileFilter, CompileOr
  <2>2. ~DisjunctsRaise(Class, e)
    BY <1>5 DEF FilterRaises
  <2> QED
    BY <1>1, <1>5, <2>1, <2>2, BlocksGrow
<1>6. CASE e.kind = "not" /\ e.inner.kind = "or"
  <2>1. d = AddBlocks(acc, OrBlocks(acc, Class, e.inner.parts, ne), TRUE)
    BY <1>6 DEF FilterStep, CompileFilter, CompileNot
  <2>2. ~DisjunctsRaise(Class, e.inner)
    BY <1>6 DEF FilterRaises
  <2> QED
    BY <1>1, <1>6, <2>1, <2>2, BlocksGrow
<1>7. CASE e.kind = "not" /\ e.inner.kind # "or"
  <2>1. d = [acc EXCEPT !.filters = Append(@, NotSparql)]
    BY <1>7 DEF FilterStep, CompileFilter, CompileNot
  <2> QED
    BY <2>1, FiltersOnlyGrow
<1> QED
  BY <1>1, <1>2, <1>3, <1>4, <1>5, <1>6, <1>7

\* The filters that conjunctions are split into.
Parted == UNION {{Branch(e)[i] : i \in DOMAIN Branch(e)} : e \in Filters}

LEMMA BranchParted ==
  ASSUME NEW e \in Filters
  PROVE  Branch(e) \in Seq(Parted) /\ \A i \in DOMAIN Branch(e) : IsFilter(Branch(e)[i])
<1> DEFINE S == {Branch(e)[i] : i \in DOMAIN Branch(e)}
<1>1. IsExpression(e)
  BY QueryAssumption
<1>2. S \subseteq Parted
  BY DEF Parted
<1>3. CASE e.kind = "and"
  <2>1. Branch(e) = e.parts /\ Branch(e) \in Seq(S) /\ \A i \in DOMAIN e.parts : IsFilter(e.parts[i])
    BY <1>1, <1>3 DEF IsExpression, IsTuple, Branch
  <2> HIDE DEF S
  <2>2. Branch(e) \in Seq(Parted)
    BY <1>2, <2>1, SeqMonotonic
  <2> QED
    BY <2>1, <2>2
<1>4. CASE e.kind # "and"
  <2>1. Branch(e) = <<e>> /\ IsFilter(e)
    BY <1>1, <1>4 DEF IsExpression, Branch
  <2>2. DOMAIN <<e>> = {1} /\ <<e>>[1] = e
    OBVIOUS
  <2>3. 1 \in DOMAIN Branch(e) /\ Branch(e)[1] = e /\ DOMAIN Branch(e) = {1}
    BY <2>1, <2>2
  <2>4. e \in Parted
    BY <2>3, <1>2
  <2>5. <<e>> \in Seq(Parted)
    BY <2>4
  <2> QED
    BY <2>1, <2>3, <2>5
<1> QED
  BY <1>3, <1>4

LEMMA PartedFilters == \A a \in Parted : IsFilter(a)
  BY BranchParted DEF Parted

ConjunctStep(s, e) == s \o Branch(e)

DeferredStep(s, e) == IF e.kind = "or" THEN Append(s, e) ELSE s

ImmediateStep(s, e) == IF e.kind = "or" THEN s ELSE Append(s, e)

Conjoining == INSTANCE Folding WITH Op <- ConjunctStep

Deferring == INSTANCE Folding WITH Op <- DeferredStep

Remaining == INSTANCE Folding WITH Op <- ImmediateStep

LEMMA ConjunctsParted ==
  ASSUME NEW exprs \in Seq(Filters) PROVE Conjuncts(exprs) \in Seq(Parted)
<1> DEFINE R(s) == Conjoining!Result(<<>>, s)
           T == {s \in Seq(Filters) : R(s) \in Seq(Parted)}
<1>1. Conjuncts(exprs) = R(exprs)
  BY DEF Conjuncts, ConjunctStep, FoldLeft, MapThenFoldSet, Max, Conjoining!Result,
         Conjoining!MapThenFoldSet, Conjoining!Max
<1>2. <<>> \in T
  <2>1. R(<<>>) = <<>>
    BY Conjoining!FoldEmpty
  <2> QED
    BY <2>1, EmptySeq
<1>3. ASSUME NEW s \in Seq(Filters), NEW e \in Filters, s \in T PROVE Append(s, e) \in T
  <2>1. R(Append(s, e)) = R(s) \o Branch(e)
    BY Conjoining!FoldAppend DEF ConjunctStep
  <2>2. Append(s, e) \in Seq(Filters)
    BY AppendProperties
  <2>3. R(s) \in Seq(Parted)
    BY <1>3
  <2> HIDE DEF R
  <2>4. Branch(e) \in Seq(Parted)
    BY BranchParted
  <2>5. R(s) \o Branch(e) \in Seq(Parted)
    BY <2>3, <2>4, ConcatProperties
  <2> QED
    BY <2>1, <2>2, <2>5
<1> HIDE DEF T, R
<1>4. Seq(Filters) \subseteq T
  BY <1>2, <1>3, SeqSet
<1> QED
  BY <1>1, <1>4 DEF T

LEMMA DeferredParted ==
  ASSUME NEW S, NEW exprs \in Seq(S) PROVE Deferred(exprs) \in Seq(S)
<1> DEFINE R(s) == Deferring!Result(<<>>, s)
           T == {s \in Seq(S) : R(s) \in Seq(S)}
<1>1. Deferred(exprs) = R(exprs)
  BY DEF Deferred, DeferredStep, FoldLeft, MapThenFoldSet, Max, Deferring!Result,
         Deferring!MapThenFoldSet, Deferring!Max
<1>2. <<>> \in T
  <2>1. R(<<>>) = <<>>
    BY Deferring!FoldEmpty
  <2> QED
    BY <2>1, EmptySeq
<1>3. ASSUME NEW s \in Seq(S), NEW e \in S, s \in T PROVE Append(s, e) \in T
  <2>1. R(Append(s, e)) = DeferredStep(R(s), e)
    BY Deferring!FoldAppend
  <2>2. Append(s, e) \in Seq(S)
    BY AppendProperties
  <2>3. R(s) \in Seq(S)
    BY <1>3
  <2> HIDE DEF R
  <2>4. Append(R(s), e) \in Seq(S)
    BY <2>3, AppendProperties
  <2>5. DeferredStep(R(s), e) \in Seq(S)
    BY <2>3, <2>4 DEF DeferredStep
  <2> QED
    BY <2>1, <2>2, <2>5
<1> HIDE DEF T, R
<1>4. Seq(S) \subseteq T
  BY <1>2, <1>3, SeqSet
<1> QED
  BY <1>1, <1>4 DEF T

LEMMA ImmediateParted ==
  ASSUME NEW S, NEW exprs \in Seq(S) PROVE Immediate(exprs) \in Seq(S)
<1> DEFINE R(s) == Remaining!Result(<<>>, s)
           T == {s \in Seq(S) : R(s) \in Seq(S)}
<1>1. Immediate(exprs) = R(exprs)
  BY DEF Immediate, ImmediateStep, FoldLeft, MapThenFoldSet, Max, Remaining!Result,
         Remaining!MapThenFoldSet, Remaining!Max
<1>2. <<>> \in T
  <2>1. R(<<>>) = <<>>
    BY Remaining!FoldEmpty
  <2> QED
    BY <2>1, EmptySeq
<1>3. ASSUME NEW s \in Seq(S), NEW e \in S, s \in T PROVE Append(s, e) \in T
  <2>1. R(Append(s, e)) = ImmediateStep(R(s), e)
    BY Remaining!FoldAppend
  <2>2. Append(s, e) \in Seq(S)
    BY AppendProperties
  <2>3. R(s) \in Seq(S)
    BY <1>3
  <2> HIDE DEF R
  <2>4. Append(R(s), e) \in Seq(S)
    BY <2>3, AppendProperties
  <2>5. ImmediateStep(R(s), e) \in Seq(S)
    BY <2>3, <2>4 DEF ImmediateStep
  <2> QED
    BY <2>1, <2>2, <2>5
<1> HIDE DEF T, R
<1>4. Seq(S) \subseteq T
  BY <1>2, <1>3, SeqSet
<1> QED
  BY <1>1, <1>4 DEF T

LEMMA InOrderParted ==
  ASSUME NEW exprs \in Seq(Filters) PROVE InOrder(exprs) \in Seq(Parted)
<1>1. Conjuncts(exprs) \in Seq(Parted)
  BY ConjunctsParted
<1>2. /\ Immediate(Conjuncts(exprs)) \in Seq(Parted)
      /\ Deferred(Conjuncts(exprs)) \in Seq(Parted)
  BY <1>1, ImmediateParted, DeferredParted
<1> QED
  BY <1>2, ConcatProperties DEF InOrder

-----------------------------------------------------------------------------
(* Solutions of the type patterns have a root                              *)

LEMMA BeforeBinds ==
  ASSUME NEW mu \in SolsOf(<<>>) PROVE DOMAIN mu \subseteq {Root}
<1>1. Before \o <<>> = Before
  <2>1. PICK S : Before \in Seq(S)
    BY BeforeIsSeq DEF IsSeq
  <2> QED
    BY <2>1, ConcatEmptySeq
<1>2. mu \in Joined(graph, Unit, Before)
  BY <1>1 DEF SolsOf
<1>3. CASE query.values_bindings = <<>>
  <2>1. mu \in {Unit}
    BY <1>2, <1>3, JoinedNone DEF Before
  <2> QED
    BY <2>1 DEF Unit
<1>4. CASE query.values_bindings # <<>>
  <2> DEFINE terms == ToSet(query.values_bindings)
             e == ValuesOf(Root, terms)
             none == <<>>
  <2>1. Before = <<e>> /\ Append(none, e) = <<e>> /\ IsSeq(none)
    BY <1>4, Tuples DEF Before
  <2>2. Joined(graph, Unit, none) = {Unit}
    BY JoinedNone
  <2> HIDE DEF none
  <2>3. Joined(graph, Unit, Append(none, e)) = GroupStep(Joined(graph, Unit, none), e)
    BY <2>1, JoinedEach
  <2> HIDE DEF e
  <2>4. mu \in GroupStep({Unit}, e)
    BY <1>2, <2>1, <2>2, <2>3
  <2>5. mu \in After(Unit, e)
    BY <2>4 DEF GroupStep
  <2>6. e.kind # "optional"
    BY DEF e, ValuesOf
  <2>7. mu \in Matches(graph, Unit, ValuesOf(Root, terms))
    BY <2>5, <2>6 DEF After, e
  <2>8. \E n : Binds(mu, Unit, Root, n)
    BY <2>7, ValuesMatch
  <2>9. DOMAIN mu = DOMAIN Unit \cup {Root}
    BY <2>8 DEF Binds
  <2>10. DOMAIN Unit = {}
    BY DEF Unit
  <2> QED
    BY <2>9, <2>10
<1> QED
  BY <1>3, <1>4

\* A state with one element that binds the root to a resource.
LEMMA RootedGood ==
  ASSUME NEW c, DOMAIN c = StateFields, NEW e, c.group = <<e>>,
         c.joins = [p \in {<<>>} |-> Root], c.next \in {1, 2},
         \A mu : \A nu \in After(mu, e) :
           /\ DOMAIN nu \subseteq DOMAIN mu \cup {Root, c.next - 1}
           /\ Root \in DOMAIN nu /\ nu[Root] \in Subjects
  PROVE  Good(c)
<1> DEFINE none == <<>>
<1>1. Append(none, e) = <<e>> /\ IsSeq(none) /\ IsSeq(<<e>>)
  BY Tuples
<1>2. /\ DOMAIN c.joins = {<<>>} /\ c.joins[<<>>] = Root
      /\ <<>> \in Path /\ Prefixes(<<>>) = {<<>>} /\ Root \in 0 .. c.next - 1
  BY EmptyPath DEF Root
<1>3. Shape(c)
  <2>1. IsSeq(c.group) /\ c.next \in Nat /\ c.next > 0
    BY <1>1
  <2> QED
    BY <1>2, <2>1 DEF Shape
<1>4. ASSUME NEW nu \in SolsOf(c.group)
      PROVE  Rooted(nu, c.next) /\ \A p \in DOMAIN c.joins : Leads(nu, c.joins, p)
  <2>1. PICK mu \in SolsOf(<<>>) : nu \in After(mu, e)
    <3>1. nu \in SolsOf(Append(none, e))
      BY <1>1
    <3> QED
      BY <1>1, <3>1, SolsStep
  <2>2. DOMAIN mu \subseteq {Root}
    BY BeforeBinds
  <2>3. /\ DOMAIN nu \subseteq DOMAIN mu \cup {Root, c.next - 1}
        /\ Root \in DOMAIN nu /\ nu[Root] \in Subjects
    BY <2>1
  <2>4. Root \in 0 .. c.next - 1 /\ c.next - 1 \in 0 .. c.next - 1
    BY <1>2
  <2>5. Rooted(nu, c.next)
    BY <2>2, <2>3, <2>4 DEF Rooted
  <2>6. \E f \in Paths(nu[Root], Prefixes(<<>>)) : f[<<>>] = nu[Root]
    BY <2>3, SubjectsAreResources, WayOfRoot
  <2>7. \E f \in Paths(nu[Root], Prefixes(<<>>)) :
          \A q \in Prefixes(<<>>) : c.joins[q] \in DOMAIN nu /\ nu[c.joins[q]] = f[q]
    BY <1>2, <2>3, <2>6
  <2>8. Leads(nu, c.joins, <<>>)
    BY <2>7 DEF Leads
  <2> QED
    BY <1>2, <2>5, <2>8
<1> QED
  BY <1>3, <1>4 DEF Good, Sound

LEMMA TypesGood ==
  ASSUME graph \in Graphs, query.polymorphic \in BOOLEAN
  PROVE  Good(TypePatterns(Start(1), Class, query.polymorphic))
<1> DEFINE c == TypePatterns(Start(1), Class, query.polymorphic)
<1>1. /\ DOMAIN Start(1) = StateFields /\ Start(1).next = 1
      /\ Start(1).joins = [p \in {<<>>} |-> Root]
  BY DEF Start, StateFields
<1>2. CASE query.polymorphic
  <2> DEFINE e == Triple(Root, Type, 1)
             f == CompareF(1, "in", Schema[Class].subtypes)
  <2>1. c = [Start(1) EXCEPT !.group = <<e>>, !.filters = <<f>>, !.next = @ + 1]
    BY <1>1, <1>2 DEF TypePatterns
  <2>2. ASSUME NEW mu, NEW nu \in After(mu, e)
        PROVE  /\ DOMAIN nu \subseteq DOMAIN mu \cup {Root, 2 - 1}
               /\ Root \in DOMAIN nu /\ nu[Root] \in Subjects
    <3>1. nu \in Matches(graph, mu, Triple(Root, Type, 1))
      BY AfterPattern
    <3>2. MatchesTriple(nu, mu, Root, Type, 1)
      BY <3>1, MatchFollows
    <3> QED
      BY <3>2 DEF MatchesTriple, Subjects
  <2> HIDE DEF e, f, c
  <2>3. /\ DOMAIN c = StateFields /\ c.group = <<e>> /\ c.next = 2
        /\ c.joins = [p \in {<<>>} |-> Root]
    <3> DEFINE j == [p \in {<<>>} |-> Root]
               g == <<e>>
               h == <<f>>
    <3>1. Start(1).joins = j /\ c = [Start(1) EXCEPT !.group = g, !.filters = h, !.next = @ + 1]
      BY <1>1, <2>1
    <3> HIDE DEF j, g, h
    <3>2. DOMAIN c = StateFields /\ c.group = g /\ c.next = 2 /\ c.joins = j
      BY <1>1, <3>1 DEF StateFields
    <3> QED
      BY <3>2 DEF j, g
  <2>4. Good(c)
    BY <2>2, <2>3, RootedGood
  <2> QED
    BY <2>4 DEF c
<1>3. CASE ~query.polymorphic
  <2> DEFINE e == TripleTo(Root, Type, Schema[Class].type)
  <2>1. c = [Start(1) EXCEPT !.group = <<e>>]
    BY <1>1, <1>3 DEF TypePatterns
  <2>2. ASSUME NEW mu, NEW nu \in After(mu, e)
        PROVE  /\ DOMAIN nu \subseteq DOMAIN mu \cup {Root, 1 - 1}
               /\ Root \in DOMAIN nu /\ nu[Root] \in Subjects
    <3>1. nu \in Matches(graph, mu, TripleTo(Root, Type, Schema[Class].type))
      BY AfterPattern
    <3>2. MatchesConstant(nu, mu, Root, Type, Schema[Class].type)
      BY <3>1, MatchFollows
    <3> QED
      BY <3>2 DEF MatchesConstant, Subjects
  <2> HIDE DEF e, c
  <2>3. /\ DOMAIN c = StateFields /\ c.group = <<e>> /\ c.next = 1
        /\ c.joins = [p \in {<<>>} |-> Root]
    <3> DEFINE j == [p \in {<<>>} |-> Root]
               g == <<e>>
    <3>1. Start(1).joins = j /\ c = [Start(1) EXCEPT !.group = g]
      BY <1>1, <2>1
    <3> HIDE DEF j, g
    <3>2. DOMAIN c = StateFields /\ c.group = g /\ c.next = 1 /\ c.joins = j
      BY <1>1, <3>1 DEF StateFields
    <3> QED
      BY <3>2 DEF j, g
  <2>4. Good(c)
    BY <2>2, <2>3, RootedGood
  <2> QED
    BY <2>4 DEF c
<1> QED
  BY <1>2, <1>3

Filtering == INSTANCE Folding WITH Op <- FilterStep

LEMMA FiltersGood ==
  ASSUME graph \in Graphs, query.polymorphic \in BOOLEAN, query.expressions \in Seq(Filters),
         ~WhereRaises(Class, query, FALSE)
  PROVE  Good(CompileFilters(Class, query))
<1> DEFINE first == TypePatterns(Start(1), Class, query.polymorphic)
           A == {a \in Parted : ~FilterRaises(Class, a)}
           R(s) == Filtering!Result(first, s)
           T == {s \in Seq(A) : Good(R(s))}
           exprs == InOrder(query.expressions)
<1>1. CompileFilters(Class, query) = R(exprs)
  BY DEF CompileFilters, FilterStep, FoldLeft, MapThenFoldSet, Max, Filtering!Result,
         Filtering!MapThenFoldSet, Filtering!Max
<1>2. Good(first)
  BY TypesGood
<1>3. exprs \in Seq(A)
  <2>1. exprs \in Seq(Parted)
    BY InOrderParted
  <2>2. \A i \in DOMAIN exprs : ~FilterRaises(Class, exprs[i])
    BY DEF WhereRaises
  <2> HIDE DEF exprs
  <2>3. \A i \in 1 .. Len(exprs) : exprs[i] \in Parted /\ i \in DOMAIN exprs
    BY <2>1, ElementOfSeq
  <2>4. \A i \in 1 .. Len(exprs) : exprs[i] \in A
    BY <2>2, <2>3
  <2>5. exprs \in [1 .. Len(exprs) -> Parted] /\ Len(exprs) \in Nat
    BY <2>1, LenProperties
  <2> HIDE DEF A
  <2>6. exprs \in [1 .. Len(exprs) -> A]
    BY <2>4, <2>5
  <2> QED
    BY <2>5, <2>6, SeqDef
<1> HIDE DEF first
<1>4. <<>> \in T
  <2>1. R(<<>>) = first
    BY Filtering!FoldEmpty
  <2> QED
    BY <1>2, <2>1, EmptySeq
<1>5. ASSUME NEW s \in Seq(A), NEW e \in A, s \in T PROVE Append(s, e) \in T
  <2>1. R(Append(s, e)) = FilterStep(R(s), e)
    BY Filtering!FoldAppend
  <2>2. Append(s, e) \in Seq(A)
    BY AppendProperties
  <2>3. Good(R(s)) /\ IsFilter(e) /\ ~FilterRaises(Class, e)
    BY <1>5, PartedFilters
  <2> HIDE DEF R
  <2>4. Grows(R(s), FilterStep(R(s), e))
    BY <2>3, FilterGrows
  <2>5. Good(R(Append(s, e)))
    BY <2>1, <2>3, <2>4 DEF Grows
  <2> QED
    BY <2>2, <2>5
<1> HIDE DEF T, R, A, exprs
<1>6. Seq(A) \subseteq T
  BY <1>4, <1>5, SeqSet
<1> QED
  BY <1>1, <1>3, <1>6 DEF T

-----------------------------------------------------------------------------
(* Sort keys                                                               *)

KeyBound(mu, x, v) == x \in DOMAIN mu /\ mu[x] = v

\* A root's sort key is what the key's variable is bound to.
LEMMA OrderKey ==
  ASSUME graph \in Graphs, NEW acc, Good(acc), NEW key \in SortKeys,
         ~FieldRaises(Class, key.ref, Scalars)
  PROVE  LET d == OrderPatterns(acc, Class, key)
         IN  /\ Grows(acc, d)
             /\ \A nu \in SolsOf(d.group) : \A v :
                  HasKey(nu[Root], key.ref, v) => KeyBound(nu, d.next - 1, v)
<1> DEFINE p == key.ref.path
           c == FollowPath(acc, Class, p)
           node == c.joins[p]
           line == Triple(node, key.ref.field, c.next)
           el == IF AddsOptional(acc, c) THEN Optional(<<line>>) ELSE line
           d == [c EXCEPT !.group = Append(@, el), !.next = @ + 1]
<1>1. OrderPatterns(acc, Class, key) = d
  BY DEF OrderPatterns, AddOrder
<1>2. p \in Path
  BY QueryAssumption, StringPaths
<1>3. ClassAt(Class, p) # None
  BY FieldLeads
<1>4. Grows(acc, c) /\ p \in DOMAIN c.joins
  BY <1>2, <1>3, FollowGrows
<1>5. Good(c)
  BY <1>4 DEF Grows
<1>6. /\ DOMAIN c = StateFields /\ IsSeq(c.group) /\ c.next \in Nat /\ c.next > 0
      /\ node \in 0 .. c.next - 1
  BY <1>4, <1>5, NodeKnown DEF Good, Shape
<1>7. Adds(el, {node, c.next})
  <2>1. Adds(line, {node, c.next}) /\ Adds(Optional(<<line>>), {node, c.next})
    BY ElementsAdd
  <2> QED
    BY <2>1
<1>8. /\ DOMAIN d = StateFields /\ d.group = Append(c.group, el)
      /\ d.next = c.next + 1 /\ d.joins = c.joins
  <2> HIDE DEF c, el
  <2> QED
    BY <1>6 DEF StateFields
<1>9. Adding(c, d, node)
  <2> HIDE DEF c, el, d, node
  <2> QED
    BY <1>7, <1>8 DEF Adding
<1>10. Grows(acc, d)
  <2> HIDE DEF c, el, d, node
  <2>1. Grows(c, d)
    BY <1>6, <1>9, AddingGrows
  <2> QED
    BY <1>4, <2>1, GrowsTwice
<1>11. ASSUME NEW nu \in SolsOf(d.group), NEW v, HasKey(nu[Root], key.ref, v)
       PROVE  KeyBound(nu, c.next, v)
  <2>1. PICK mu \in SolsOf(c.group) : nu \in After(mu, el)
    <3>1. nu \in SolsOf(Append(c.group, el))
      BY <1>8
    <3> HIDE DEF c, el
    <3> QED
      BY <1>6, <3>1, SolsStep
  <2>2. Extends(nu, mu)
    BY <1>7, <2>1 DEF Adds
  <2>3. Rooted(mu, c.next) /\ Leads(mu, c.joins, p)
    BY <1>4, <1>5 DEF Good, Sound
  <2>4. DOMAIN mu \subseteq 0 .. c.next - 1 /\ Root \in DOMAIN mu
    BY <2>3 DEF Rooted
  <2>5. nu[Root] = mu[Root]
    BY <2>2, <2>4 DEF Extends
  <2>6. /\ FullyLinked(mu[Root], p)
        /\ \A f \in Paths(mu[Root], Prefixes(p)) : KeyValues(f[p], key.ref) = {v}
    BY <1>11, <2>5 DEF HasKey
  <2>7. PICK f \in Paths(mu[Root], Prefixes(p)) :
          \A q \in Prefixes(p) : c.joins[q] \in DOMAIN mu /\ mu[c.joins[q]] = f[q]
    BY <2>3, <2>6 DEF Leads
  <2>8. node \in DOMAIN mu /\ mu[node] = f[p] /\ nu[node] = f[p]
    <3>1. p \in Prefixes(p)
      BY <1>2, PrefixesOfPath
    <3> QED
      BY <2>2, <2>7, <3>1 DEF Extends
  <2>9. KeyValues(f[p], key.ref) = {v}
    BY <2>6
  <2>10. c.next \notin DOMAIN mu
    BY <1>6, <2>4
  <2>11. PICK t \in graph : t[1] = f[p] /\ t[2] = key.ref.field /\ t[3] = v
    BY <2>9 DEF KeyValues
  <2>12. \E ro \in Matches(graph, mu, line) : ro[c.next] = t[3]
    BY <2>8, <2>10, <2>11, TripleMatches
  <2>13. nu \in Matches(graph, mu, line)
    <3>1. CASE AddsOptional(acc, c)
      <4>1. nu \in LeftJoin(graph, mu, <<line>>)
        BY <2>1, <3>1, AfterPattern
      <4>2. JoinAll(graph, {mu}, <<line>>) = Matches(graph, mu, line)
        BY JoinAllOne
      <4> QED
        BY <2>12, <4>1, <4>2 DEF LeftJoin
    <3>2. CASE ~AddsOptional(acc, c)
      BY <2>1, <3>2, AfterPattern
    <3> QED
      BY <3>1, <3>2
  <2>14. MatchesTriple(nu, mu, node, key.ref.field, c.next)
    BY <2>13, MatchFollows
  <2> HIDE DEF c, node, el, d, line, p
  <2>15. PICK u \in graph : u[2] = key.ref.field /\ u[1] = nu[node] /\ u[3] = nu[c.next]
    BY <2>14 DEF MatchesTriple
  <2>16. nu[c.next] \in KeyValues(f[p], key.ref)
    BY <2>8, <2>15 DEF KeyValues
  <2>17. c.next \in DOMAIN nu
    BY <2>14 DEF MatchesTriple
  <2> QED
    BY <2>9, <2>16, <2>17 DEF KeyBound
<1>12. d.next - 1 = c.next
  <2> HIDE DEF c, d
  <2> QED
    BY <1>6, <1>8
<1> HIDE DEF c, d
<1> QED
  BY <1>1, <1>10, <1>11, <1>12

OrderStep(sorted, key) == AddKey(sorted, OrderPatterns(sorted.compiled, Class, key), key)

Ordering == INSTANCE Folding WITH Op <- OrderStep

\* The sort variables of the keys in s.
Keyed(sorted, s) ==
  /\ Good(sorted.compiled) /\ IsSeq(sorted.keys) /\ Len(sorted.keys) = Len(s)
  /\ \A i \in 1 .. Len(s) : sorted.keys[i].desc = s[i].desc
  /\ \A mu \in SolsOf(sorted.compiled.group) : \A i \in 1 .. Len(s) : \A v :
       HasKey(mu[Root], s[i].ref, v) => KeyBound(mu, sorted.keys[i].variable, v)

LEMMA KeyedEach ==
  ASSUME graph \in Graphs, NEW sorted, NEW s \in Seq(SortKeys), Keyed(sorted, s),
         NEW key \in SortKeys, ~FieldRaises(Class, key.ref, Scalars)
  PROVE  Keyed(OrderStep(sorted, key), Append(s, key))
<1> DEFINE acc == sorted.compiled
           d == OrderPatterns(acc, Class, key)
           k == [variable |-> d.next - 1, desc |-> key.desc]
           after == OrderStep(sorted, key)
           r == Append(s, key)
           L == Len(s)
<1>1. /\ Good(acc) /\ IsSeq(sorted.keys) /\ Len(sorted.keys) = L
      /\ \A i \in 1 .. L : sorted.keys[i].desc = s[i].desc
      /\ \A mu \in SolsOf(acc.group) : \A i \in 1 .. L : \A v :
           HasKey(mu[Root], s[i].ref, v) => KeyBound(mu, sorted.keys[i].variable, v)
  BY DEF Keyed
<1>2. /\ Grows(acc, d)
      /\ \A nu \in SolsOf(d.group) : \A v :
           HasKey(nu[Root], key.ref, v) => KeyBound(nu, d.next - 1, v)
  BY <1>1, OrderKey
<1>3. after.compiled = d /\ after.keys = Append(sorted.keys, k)
  BY DEF OrderStep, AddKey
<1>4. k.variable = d.next - 1 /\ k.desc = key.desc
  OBVIOUS
<1>5. /\ L \in Nat /\ r \in Seq(SortKeys) /\ Len(r) = L + 1 /\ r[L + 1] = key
      /\ \A i \in 1 .. L : r[i] = s[i]
  BY LenProperties, AppendProperties
<1>6. /\ IsSeq(after.keys) /\ Len(after.keys) = L + 1 /\ after.keys[L + 1] = k
      /\ \A i \in 1 .. L : after.keys[i] = sorted.keys[i]
  <2> HIDE DEF k, after, L
  <2>1. PICK S : sorted.keys \in Seq(S) /\ k \in S
    BY <1>1, AppendIsSeq
  <2>2. /\ Append(sorted.keys, k) \in Seq(S) /\ Len(Append(sorted.keys, k)) = Len(sorted.keys) + 1
        /\ \A i \in 1 .. Len(sorted.keys) : Append(sorted.keys, k)[i] = sorted.keys[i]
        /\ Append(sorted.keys, k)[Len(sorted.keys) + 1] = k
    BY <2>1, AppendProperties
  <2> QED
    BY <1>1, <1>3, <2>2 DEF IsSeq
<1> HIDE DEF acc, d, k, after, r, L
<1>7. Good(d)
  BY <1>1, <1>2 DEF Grows
<1>8. \A i \in 1 .. L + 1 : i = L + 1 \/ i \in 1 .. L
  BY <1>5
<1>9. \A i \in 1 .. L + 1 : after.keys[i].desc = r[i].desc
  BY <1>1, <1>4, <1>5, <1>6, <1>8
<1>10. ASSUME NEW nu \in SolsOf(d.group), NEW i \in 1 .. L + 1, NEW v,
              HasKey(nu[Root], r[i].ref, v)
       PROVE  KeyBound(nu, after.keys[i].variable, v)
  <2>1. CASE i = L + 1
    BY <1>2, <1>4, <1>5, <1>6, <1>10, <2>1
  <2>2. CASE i \in 1 .. L
    <3>1. PICK mu \in SolsOf(acc.group) : Extends(nu, mu)
      BY <1>1, <1>2 DEF Grows
    <3>2. Root \in DOMAIN mu
      BY <1>1, <3>1 DEF Good, Sound, Rooted
    <3>3. nu[Root] = mu[Root]
      BY <3>1, <3>2 DEF Extends
    <3>4. HasKey(mu[Root], s[i].ref, v)
      BY <1>5, <1>10, <2>2, <3>3
    <3>5. KeyBound(mu, sorted.keys[i].variable, v)
      BY <1>1, <2>2, <3>4
    <3>6. KeyBound(nu, sorted.keys[i].variable, v)
      BY <3>1, <3>5 DEF KeyBound, Extends
    <3> QED
      BY <1>6, <2>2, <3>6
  <2> QED
    BY <1>8, <2>1, <2>2
<1>11. Keyed(after, r)
  BY <1>3, <1>5, <1>6, <1>7, <1>9, <1>10 DEF Keyed
<1> QED
  BY <1>11 DEF after, r

LEMMA OrderKeyed ==
  ASSUME graph \in Graphs, query.polymorphic \in BOOLEAN, query.expressions \in Seq(Filters),
         query.order_by \in Seq(SortKeys), ~WhereRaises(Class, query, FALSE)
  PROVE  Keyed(CompileOrder(Class, CompileFilters(Class, query), query.order_by), query.order_by)
<1> DEFINE first == [compiled |-> CompileFilters(Class, query), keys |-> <<>>]
           K == {key \in SortKeys : ~FieldRaises(Class, key.ref, Scalars)}
           R(s) == Ordering!Result(first, s)
           T == {s \in Seq(K) : Keyed(R(s), s)}
           keys == query.order_by
<1>1. CompileOrder(Class, CompileFilters(Class, query), keys) = R(keys)
  BY DEF CompileOrder, OrderStep, FoldLeft, MapThenFoldSet, Max, Ordering!Result,
         Ordering!MapThenFoldSet, Ordering!Max
<1>2. Good(CompileFilters(Class, query))
  BY FiltersGood
<1>3. keys \in Seq(K)
  <2>1. \A i \in DOMAIN keys : ~FieldRaises(Class, keys[i].ref, Scalars)
    BY DEF WhereRaises
  <2>2. keys \in Seq(SortKeys)
    OBVIOUS
  <2> HIDE DEF keys
  <2>3. \A i \in 1 .. Len(keys) : keys[i] \in SortKeys /\ i \in DOMAIN keys
    BY <2>2, ElementOfSeq
  <2>4. \A i \in 1 .. Len(keys) : keys[i] \in K
    BY <2>1, <2>3
  <2>5. keys \in [1 .. Len(keys) -> SortKeys] /\ Len(keys) \in Nat
    BY <2>2, LenProperties
  <2> HIDE DEF K
  <2>6. keys \in [1 .. Len(keys) -> K]
    BY <2>4, <2>5
  <2> QED
    BY <2>5, <2>6, SeqDef
<1>4. <<>> \in T
  <2> DEFINE none == <<>>
             c == CompileFilters(Class, query)
  <2>1. R(none) = first
    BY Ordering!FoldEmpty
  <2>2. Len(none) = 0 /\ IsSeq(none) /\ none \in Seq(K)
    BY Tuples, EmptySeq
  <2> HIDE DEF none, R, c, K
  <2>3. first.compiled = c /\ first.keys = none
    BY DEF c, none
  <2> HIDE DEF first
  <2>4. \A i : i \notin 1 .. Len(none)
    BY <2>2
  <2>5. Keyed(first, none)
    BY <1>2, <2>2, <2>3, <2>4 DEF Keyed, c
  <2>6. none \in T
    BY <2>1, <2>2, <2>5
  <2> HIDE DEF T
  <2> QED
    BY <2>6 DEF none
<1>5. ASSUME NEW s \in Seq(K), NEW key \in K, s \in T PROVE Append(s, key) \in T
  <2>1. R(Append(s, key)) = OrderStep(R(s), key)
    BY Ordering!FoldAppend
  <2>2. Append(s, key) \in Seq(K)
    BY AppendProperties
  <2>3. Keyed(R(s), s) /\ s \in Seq(SortKeys) /\ key \in SortKeys
        /\ ~FieldRaises(Class, key.ref, Scalars)
    <3>1. K \subseteq SortKeys
      OBVIOUS
    <3> HIDE DEF R
    <3>2. s \in Seq(SortKeys)
      BY <3>1, SeqMonotonic
    <3> QED
      BY <1>5, <3>2
  <2> HIDE DEF R
  <2>4. Keyed(OrderStep(R(s), key), Append(s, key))
    BY <2>3, KeyedEach
  <2> QED
    BY <2>1, <2>2, <2>4
<1> HIDE DEF T, R, K, first
<1>6. Seq(K) \subseteq T
  BY <1>4, <1>5, SeqSet
<1>7. Keyed(R(keys), keys)
  BY <1>3, <1>6 DEF T
<1> QED
  BY <1>1, <1>7

-----------------------------------------------------------------------------
(* Answers                                                                 *)

\* A resource's sort keys, as QueryMeaning has them.
KeyOf(root) == [k \in DOMAIN query.order_by |-> SortKey(root, query.order_by[k])]

\* There is one value of a sort key.
LEMMA OneKey ==
  ASSUME NEW root, NEW ref, NEW v, HasKey(root, ref, v)
  PROVE  /\ \E t \in graph : t[2] = ref.field /\ t[3] = v
         /\ \A w : HasKey(root, ref, w) => w = v
<1>1. PICK f \in Paths(root, Prefixes(ref.path)) : TRUE
  BY DEF HasKey
<1>2. KeyValues(f[ref.path], ref) = {v}
  BY <1>1 DEF HasKey
<1>3. PICK t \in graph : t[2] = ref.field /\ t[3] = v
  BY <1>2 DEF KeyValues
<1>4. ASSUME NEW w, HasKey(root, ref, w) PROVE w = v
  <2>1. KeyValues(f[ref.path], ref) = {w}
    BY <1>1, <1>4 DEF HasKey
  <2> QED
    BY <1>2, <2>1
<1> QED
  BY <1>3, <1>4

LEMMA SortedBy ==
  ASSUME graph \in Graphs, NEW root, NEW key \in SortKeys, NEW x, NEW mu,
         NEW v, HasKey(root, key.ref, v), KeyBound(mu, x, v)
  PROVE  /\ SortKey(root, key) \in Int
         /\ SortValue(mu, [variable |-> x, desc |-> key.desc]) = SortKey(root, key)
<1>1. PICK t \in graph : t[2] = key.ref.field /\ t[3] = v
  BY OneKey
<1>2. \A w : HasKey(root, key.ref, w) => w = v
  BY OneKey
<1>3. v \in Int /\ v # Unbound
  BY <1>1, QueryAssumption, GraphAssumption
<1> DEFINE c == CHOOSE w \in {u[3] : u \in graph} : HasKey(root, key.ref, w)
<1>4. c = v
  BY <1>1, <1>2
<1>5. SortKey(root, key) = IF key.desc THEN -v ELSE v
  <2> HIDE DEF c
  <2>1. SortKey(root, key) = IF key.desc THEN -c ELSE c
    BY DEF SortKey, c
  <2> QED
    BY <1>4, <2>1
<1>6. ValueIn(mu, x) = v
  BY DEF KeyBound, ValueIn, Bound
<1> DEFINE k == [variable |-> x, desc |-> key.desc]
<1>7. k.variable = x /\ k.desc = key.desc
  OBVIOUS
<1> HIDE DEF k
<1>8. SortValue(mu, k) = IF key.desc THEN -v ELSE v
  BY <1>3, <1>6, <1>7 DEF SortValue
<1> QED
  BY <1>3, <1>5, <1>8 DEF k

\* A root with sort keys is placed by them.
LEMMA RootKeyIs ==
  ASSUME graph \in Graphs, query.order_by \in Seq(SortKeys),
         NEW sorted, Keyed(sorted, query.order_by),
         NEW rows, rows \subseteq SolsOf(sorted.compiled.group),
         NEW root, root \in {mu[Root] : mu \in rows}, Sortable(root)
  PROVE  RootKey(rows, root, sorted.keys) = KeyOf(root) /\ ~Precedes(KeyOf(root), KeyOf(root))
<1> DEFINE order == query.order_by
           L == Len(order)
           K == KeyOf(root)
           keys == sorted.keys
<1>1. L \in Nat /\ DOMAIN order = 1 .. L /\ \A i \in 1 .. L : order[i] \in SortKeys
  BY LenProperties, ElementOfSeq
<1>2. /\ IsSeq(keys) /\ Len(keys) = L
      /\ \A i \in 1 .. L : keys[i].desc = order[i].desc
      /\ \A mu \in SolsOf(sorted.compiled.group) : \A i \in 1 .. L : \A v :
           HasKey(mu[Root], order[i].ref, v) => KeyBound(mu, keys[i].variable, v)
  BY DEF Keyed
<1>3. DOMAIN keys = 1 .. L
  <2>1. PICK S : keys \in Seq(S)
    BY <1>2 DEF IsSeq
  <2> QED
    BY <1>2, <2>1, LenProperties
<1>4. ASSUME NEW i \in 1 .. L PROVE \E v : HasKey(root, order[i].ref, v)
  BY <1>1 DEF Sortable
<1>5. ASSUME NEW mu \in rows, mu[Root] = root, NEW i \in 1 .. L
      PROVE  SortKey(root, order[i]) \in Int /\ SortValue(mu, keys[i]) = SortKey(root, order[i])
  <2>1. PICK v : HasKey(root, order[i].ref, v)
    BY <1>4
  <2>2. KeyBound(mu, keys[i].variable, v)
    BY <1>2, <1>5, <2>1
  <2>3. order[i] \in SortKeys /\ keys[i].desc = order[i].desc
    BY <1>1, <1>2
  <2> DEFINE k == [variable |-> keys[i].variable, desc |-> order[i].desc]
  <2>4. SortKey(root, order[i]) \in Int /\ SortValue(mu, k) = SortKey(root, order[i])
    BY <2>1, <2>2, <2>3, SortedBy
  <2>5. k.variable = keys[i].variable /\ k.desc = keys[i].desc
    BY <2>3
  <2>6. SortValue(mu, k) = SortValue(mu, keys[i])
    <3> HIDE DEF k
    <3> QED
      BY <2>5 DEF SortValue
  <2> QED
    BY <2>4, <2>6
<1>6. PICK nu \in rows : nu[Root] = root
  OBVIOUS
<1>7. K = [i \in 1 .. L |-> SortKey(root, order[i])]
  BY <1>1 DEF KeyOf
<1>8. ASSUME NEW mu \in rows, mu[Root] = root PROVE RowKey(mu, keys) = K
  <2>1. RowKey(mu, keys) = [i \in 1 .. L |-> SortValue(mu, keys[i])]
    BY <1>3 DEF RowKey
  <2>2. \A i \in 1 .. L : SortValue(mu, keys[i]) = SortKey(root, order[i])
    BY <1>5, <1>8
  <2> HIDE DEF K, L, keys, order
  <2> QED
    BY <1>7, <2>1, <2>2
<1>9. ~Precedes(K, K)
  <2>1. \A i \in 1 .. L : K[i] \in Int
    BY <1>5, <1>6, <1>7
  <2>2. DOMAIN K = 1 .. L
    BY <1>7
  <2> HIDE DEF K, L
  <2>3. \A i \in 1 .. L : ~(K[i] < K[i])
    BY <2>1
  <2> QED
    BY <2>2, <2>3 DEF Precedes
<1>10. RootKey(rows, root, keys) = K
  <2> DEFINE own == {RowKey(mu, keys) : mu \in {mu \in rows : mu[Root] = root}}
  <2>1. own = {K}
    <3> HIDE DEF K, keys
    <3> QED
      BY <1>6, <1>8
  <2>2. RootKey(rows, root, keys) = CHOOSE k \in own : \A l \in own : ~Precedes(l, k)
    BY DEF RootKey
  <2> HIDE DEF own, K, keys
  <2>3. \A k \in own : k = K
    BY <2>1
  <2>4. K \in own /\ \A l \in own : ~Precedes(l, K)
    BY <1>9, <2>1
  <2> QED
    BY <2>2, <2>3, <2>4
<1> QED
  BY <1>9, <1>10

\* Graphs are finite, and so are their resources.
LEMMA ResourcesFinite == ASSUME graph \in Graphs PROVE IsFiniteSet(Resources)
<1> DEFINE S == {t[1] : t \in graph}
           T == {t[3] : t \in graph}
           f == [t \in graph |-> t[1]]
           g == [t \in graph |-> t[3]]
<1>1. IsFiniteSet(graph)
  BY GraphAssumption
<1>2. f \in Surjection(graph, S)
  BY DEF Surjection
<1>3. g \in Surjection(graph, T)
  BY DEF Surjection
<1>4. Resources \subseteq S \cup T
  BY DEF Resources
<1> HIDE DEF S, T, f, g
<1>5. IsFiniteSet(S) /\ IsFiniteSet(T)
  BY <1>1, <1>2, <1>3, FS_Surjection
<1>6. IsFiniteSet(S \cup T)
  BY <1>5, FS_Union
<1> QED
  BY <1>4, <1>6, FS_Subset

\* A page keeps the order.
LEMMA PageOf ==
  ASSUME NEW S, NEW s \in Seq(S), NEW offset \in Nat \cup {None}, NEW limit \in Nat \cup {None}
  PROVE  \E d \in Nat : \A i \in DOMAIN Page(s, offset, limit) :
           i \in Nat /\ i + d \in DOMAIN s /\ Page(s, offset, limit)[i] = s[i + d]
<1> DEFINE d == IF offset = None THEN 0 ELSE offset
           L == Len(s)
           rest == SubSeq(s, d + 1, L)
           M == Len(rest)
<1>1. d \in Nat /\ L \in Nat /\ DOMAIN s = 1 .. L /\ \A i \in 1 .. L : s[i] \in S
  BY LenProperties, ElementOfSeq
<1>2. /\ rest \in Seq(S) /\ M = IF d + 1 <= L THEN L - (d + 1) + 1 ELSE 0
      /\ \A i \in 1 .. L - (d + 1) + 1 : rest[i] = s[d + 1 + i - 1]
  <2> HIDE DEF d, L
  <2>1. d + 1 \in Int /\ L \in Int /\ \A i \in d + 1 .. L : s[i] \in S
    BY <1>1
  <2> QED
    BY <2>1, SubSeqProperties
<1> HIDE DEF d, L, rest
<1>3. M \in Nat /\ DOMAIN rest = 1 .. M /\ \A i \in 1 .. M : rest[i] \in S
  BY <1>2, LenProperties, ElementOfSeq
<1> HIDE DEF M
<1>4. ASSUME NEW i \in 1 .. M PROVE i \in Nat /\ i + d \in 1 .. L /\ rest[i] = s[i + d]
  <2>1. i \in 1 .. L - (d + 1) + 1 /\ d + 1 + i - 1 = i + d /\ i + d \in 1 .. L /\ i \in Nat
    BY <1>1, <1>2, <1>3
  <2> QED
    BY <1>2, <2>1
<1>5. CASE limit = None \/ limit >= M
  <2>1. Page(s, offset, limit) = rest
    BY <1>5 DEF Page, d, rest, L, M
  <2> QED
    BY <1>1, <1>3, <1>4, <2>1
<1>6. CASE limit # None /\ ~(limit >= M)
  <2>1. Page(s, offset, limit) = SubSeq(rest, 1, limit)
    BY <1>6 DEF Page, d, rest, L, M
  <2>2. limit \in Nat /\ limit < M
    BY <1>3, <1>6
  <2>3. limit \in Int /\ 1 \in Int /\ \A i \in 1 .. limit : rest[i] \in S
    BY <1>3, <2>2
  <2>4. /\ SubSeq(rest, 1, limit) \in Seq(S)
        /\ Len(SubSeq(rest, 1, limit)) = IF 1 <= limit THEN limit - 1 + 1 ELSE 0
        /\ \A i \in 1 .. limit - 1 + 1 : SubSeq(rest, 1, limit)[i] = rest[1 + i - 1]
    BY <2>3, SubSeqProperties
  <2>5. DOMAIN SubSeq(rest, 1, limit) = 1 .. Len(SubSeq(rest, 1, limit))
    BY <2>4, LenProperties
  <2>6. Len(SubSeq(rest, 1, limit)) = limit
    BY <2>2, <2>4
  <2> DEFINE p == SubSeq(rest, 1, limit)
  <2>7. DOMAIN p = 1 .. limit /\ \A i \in 1 .. limit - 1 + 1 : p[i] = rest[1 + i - 1]
    BY <2>4, <2>5, <2>6
  <2> HIDE DEF p
  <2>8. ASSUME NEW i \in 1 .. limit PROVE i \in 1 .. M /\ p[i] = rest[i]
    <3>1. i \in 1 .. limit - 1 + 1 /\ 1 + i - 1 = i /\ i \in 1 .. M
      BY <1>3, <2>2
    <3> QED
      BY <2>7, <3>1
  <2>9. Page(s, offset, limit) = p
    BY <2>1 DEF p
  <2> QED
    BY <1>1, <1>4, <2>7, <2>8, <2>9
<1> QED
  BY <1>5, <1>6

\* What AnswersSorted says of an answer.
InOrderOfKeys(result) ==
  \A i, j \in DOMAIN result :
    i < j /\ Sortable(result[i]) /\ Sortable(result[j])
      => ~Precedes(KeyOf(result[j]), KeyOf(result[i]))

\* The arguments of the calls of a query.
BuilderOK ==
  /\ graph \in Graphs
  /\ DOMAIN query = {"expressions", "limit", "offset", "order_by", "use_not_exists_for_ne",
                     "use_inequality_for_ne", "polymorphic", "values_bindings"}
  /\ query.expressions \in Seq(Filters) /\ query.order_by \in Seq(SortKeys)
  /\ query.limit \in Nat \cup {None} /\ query.offset \in Nat \cup {None}
  /\ query.polymorphic \in BOOLEAN

LEMMA PagesInOrder ==
  ASSUME BuilderOK, ~Fails(FALSE), NEW result \in Pages(query.offset, query.limit)
  PROVE  InOrderOfKeys(result)
<1> DEFINE sorted == CompileOrder(Class, CompileFilters(Class, query), query.order_by)
           c == CompileWhere(Class, query, FALSE)
           rows == Rows(c)
           D == {mu[Root] : mu \in rows}
           keyOf == RootKeys(rows, c.keys)
<1>1. /\ graph \in Graphs /\ query.polymorphic \in BOOLEAN
      /\ query.expressions \in Seq(Filters) /\ query.order_by \in Seq(SortKeys)
      /\ query.limit \in Nat \cup {None} /\ query.offset \in Nat \cup {None}
      /\ ~WhereRaises(Class, query, FALSE)
  BY DEF BuilderOK, Fails
<1>2. Keyed(sorted, query.order_by)
  BY <1>1, OrderKeyed
<1>3. c.group = Before \o sorted.compiled.group /\ c.keys = sorted.keys
  BY DEF CompileWhere, Select, Before
<1>4. PICK s \in Sorted(keyOf) : result = Page(s, query.offset, query.limit)
  BY DEF Pages, Orders
<1> HIDE DEF sorted, c
<1>5. rows \subseteq SolsOf(sorted.compiled.group)
  BY <1>3 DEF Rows, Solutions, SolsOf
<1> HIDE DEF rows
<1>6. DOMAIN keyOf = D /\ \A root \in D : keyOf[root] = RootKey(rows, root, sorted.keys)
  BY <1>3 DEF RootKeys
<1>7. D \subseteq Resources
  <2>1. Good(sorted.compiled)
    BY <1>2 DEF Keyed
  <2>2. \A mu \in SolsOf(sorted.compiled.group) : mu[Root] \in Subjects
    BY <2>1 DEF Good, Sound, Rooted
  <2> QED
    BY <1>5, <2>2, SubjectsAreResources
<1>8. Cardinality(D) \in Nat
  <2> HIDE DEF D
  <2>1. IsFiniteSet(D)
    BY <1>1, <1>7, ResourcesFinite, FS_Subset
  <2> QED
    BY <2>1, FS_CardinalityType
<1>9. \A root \in D : Sortable(root) => keyOf[root] = KeyOf(root)
  <2> SUFFICES ASSUME NEW root \in D, Sortable(root) PROVE keyOf[root] = KeyOf(root)
    OBVIOUS
  <2>1. keyOf[root] = RootKey(rows, root, sorted.keys)
    BY <1>6
  <2>2. root \in {mu[Root] : mu \in rows}
    OBVIOUS
  <2> HIDE DEF D, keyOf
  <2>3. RootKey(rows, root, sorted.keys) = KeyOf(root)
    BY <1>1, <1>2, <1>5, <2>2, RootKeyIs
  <2> QED
    BY <2>1, <2>3
<1> HIDE DEF D, keyOf
<1>10. /\ s \in [1 .. Cardinality(D) -> D]
       /\ \A i, j \in DOMAIN s : i < j => ~Precedes(keyOf[s[j]], keyOf[s[i]])
  BY <1>4, <1>6 DEF Sorted, SetToSeqs
<1>11. s \in Seq(D)
  BY <1>8, <1>10, SeqDef
<1>12. PICK d \in Nat : \A i \in DOMAIN result :
         i \in Nat /\ i + d \in DOMAIN s /\ result[i] = s[i + d]
  BY <1>1, <1>4, <1>11, PageOf
<1> SUFFICES ASSUME NEW i \in DOMAIN result, NEW j \in DOMAIN result, i < j,
                    Sortable(result[i]), Sortable(result[j])
             PROVE  ~Precedes(KeyOf(result[j]), KeyOf(result[i]))
  BY DEF InOrderOfKeys
<1>13. /\ i \in Nat /\ j \in Nat /\ i + d \in DOMAIN s /\ j + d \in DOMAIN s
       /\ result[i] = s[i + d] /\ result[j] = s[j + d]
  BY <1>12
<1>14. i + d < j + d
  BY <1>13
<1>15. ~Precedes(keyOf[s[j + d]], keyOf[s[i + d]])
  BY <1>10, <1>13, <1>14
<1>16. result[i] \in D /\ result[j] \in D
  BY <1>10, <1>13
<1>17. keyOf[result[i]] = KeyOf(result[i]) /\ keyOf[result[j]] = KeyOf(result[j])
  BY <1>9, <1>16
<1> QED
  BY <1>13, <1>15, <1>17

-----------------------------------------------------------------------------
(* What is said of a graph and a query stays true while they stay          *)

LEMMA LinkedSame ==
  UNCHANGED graph => \A n, path, rel : Linked(n, path, rel)' = Linked(n, path, rel)
  BY DEF Linked

LEMMA TargetsSame == UNCHANGED graph => \A n, path : Targets(n, path)' = Targets(n, path)
  BY LinkedSame DEF Targets

LEMMA ResourcesSame == UNCHANGED graph => Resources' = Resources
  BY DEF Resources

LEMMA PathsSame == UNCHANGED graph => \A n, used : Paths(n, used)' = Paths(n, used)
  BY TargetsSame, ResourcesSame DEF Paths

LEMMA FullyLinkedSame ==
  UNCHANGED graph => \A n, path : FullyLinked(n, path)' = FullyLinked(n, path)
  BY PathsSame DEF FullyLinked

LEMMA KeyValuesSame == UNCHANGED graph => \A n, ref : KeyValues(n, ref)' = KeyValues(n, ref)
  BY DEF KeyValues

LEMMA GoesOnSame == UNCHANGED graph => \A n, path : GoesOn(n, path)' = GoesOn(n, path)
  BY PathsSame, TargetsSame DEF GoesOn

LEMMA HasKeySame == UNCHANGED graph => \A n, ref, v : HasKey(n, ref, v)' = HasKey(n, ref, v)
  BY PathsSame, FullyLinkedSame, GoesOnSame, KeyValuesSame DEF HasKey

LEMMA SortKeySame ==
  ASSUME UNCHANGED graph, NEW n, NEW key, NEW v, HasKey(n, key.ref, v)
  PROVE  SortKey(n, key)' = SortKey(n, key)
<1>1. /\ \E t \in graph : t[2] = key.ref.field /\ t[3] = v
      /\ \A w : HasKey(n, key.ref, w) => w = v
  BY OneKey
<1>2. v \in {t[3] : t \in graph} /\ v \in {t[3] : t \in graph'}
  BY <1>1
<1>3. HasKey(n, key.ref, v)' /\ \A w : HasKey(n, key.ref, w)' => w = v
  BY <1>1, HasKeySame
<1> DEFINE now == CHOOSE w \in {t[3] : t \in graph} : HasKey(n, key.ref, w)
           next == CHOOSE w \in {t[3] : t \in graph'} : HasKey(n, key.ref, w)'
<1>4. now = v
  BY <1>1, <1>2
<1>5. next = v
  BY <1>2, <1>3
<1>6. SortKey(n, key) = IF key.desc THEN -now ELSE now
  BY DEF SortKey
<1>7. SortKey(n, key)' = IF key.desc THEN -next ELSE next
  BY DEF SortKey
<1> HIDE DEF now, next
<1> QED
  BY <1>4, <1>5, <1>6, <1>7

LEMMA SortableSame == UNCHANGED <<graph, query>> => \A n : Sortable(n)' = Sortable(n)
  BY HasKeySame DEF Sortable

LEMMA KeyOfSame ==
  ASSUME UNCHANGED <<graph, query>>, NEW n, Sortable(n)
  PROVE  KeyOf(n)' = KeyOf(n)
<1>1. \A i \in DOMAIN query.order_by : SortKey(n, query.order_by[i])' = SortKey(n, query.order_by[i])
  BY SortKeySame DEF Sortable
<1> QED
  BY <1>1 DEF KeyOf

LEMMA InOrderSame ==
  ASSUME UNCHANGED <<graph, query>>, NEW s, InOrderOfKeys(s)
  PROVE  InOrderOfKeys(s)'
<1> SUFFICES ASSUME NEW i \in DOMAIN s, NEW j \in DOMAIN s, i < j,
                    Sortable(s[i])', Sortable(s[j])'
             PROVE  ~Precedes(KeyOf(s[j])', KeyOf(s[i])')
  BY DEF InOrderOfKeys
<1>1. Sortable(s[i]) /\ Sortable(s[j])
  BY SortableSame
<1>2. KeyOf(s[i])' = KeyOf(s[i]) /\ KeyOf(s[j])' = KeyOf(s[j])
  BY <1>1, KeyOfSame
<1> QED
  BY <1>1, <1>2 DEF InOrderOfKeys

-----------------------------------------------------------------------------
(* Every answer of every query                                             *)

SortedInv == BuilderOK /\ AnswersSorted

LEMMA InitSorted == Init => SortedInv
<1> SUFFICES ASSUME Init PROVE SortedInv
  OBVIOUS
<1>1. BuilderOK
  BY DEF Init, BuilderOK
<1>2. answer.call # "all"
  BY DEF Init, NoAnswer
<1> QED
  BY <1>1, <1>2 DEF SortedInv, AnswersSorted

\* A call of the builder forgets the last answer.
LEMMA BuiltAnswersNothing ==
  ASSUME NEW call, NEW q, Built(call, q)
  PROVE  AnswersSorted' /\ query' = q /\ graph' = graph
<1>1. answer'.call # "all"
  BY DEF Built, NoAnswer
<1> QED
  BY <1>1 DEF AnswersSorted, Built

LEMMA AnsweredBuilder ==
  ASSUME BuilderOK, UNCHANGED <<graph, query>>
  PROVE  BuilderOK'
  BY DEF BuilderOK

LEMMA WhereKeeps == SortedInv /\ Where => SortedInv'
<1> SUFFICES ASSUME SortedInv, Where PROVE SortedInv'
  OBVIOUS
<1>1. PICK e \in UpTo(MaxFilters, query.expressions, Filters) :
        Built("where", [query EXCEPT !.expressions = Append(@, e)])
  BY DEF Where
<1>2. AnswersSorted' /\ query' = [query EXCEPT !.expressions = Append(@, e)] /\ graph' = graph
  BY <1>1, BuiltAnswersNothing
<1>3. e \in Filters
  BY <1>1 DEF UpTo
<1>4. Append(query.expressions, e) \in Seq(Filters)
  BY <1>3, AppendProperties DEF SortedInv, BuilderOK
<1>5. BuilderOK'
  BY <1>2, <1>4 DEF SortedInv, BuilderOK
<1> QED
  BY <1>2, <1>5 DEF SortedInv

LEMMA OrderByKeeps == SortedInv /\ OrderBy => SortedInv'
<1> SUFFICES ASSUME SortedInv, OrderBy PROVE SortedInv'
  OBVIOUS
<1>1. PICK key \in UpTo(MaxSortKeys, query.order_by, SortKeys) :
        Built("order_by", [query EXCEPT !.order_by = Append(@, key)])
  BY DEF OrderBy
<1>2. AnswersSorted' /\ query' = [query EXCEPT !.order_by = Append(@, key)] /\ graph' = graph
  BY <1>1, BuiltAnswersNothing
<1>3. key \in SortKeys
  BY <1>1 DEF UpTo
<1>4. Append(query.order_by, key) \in Seq(SortKeys)
  BY <1>3, AppendProperties DEF SortedInv, BuilderOK
<1>5. BuilderOK'
  BY <1>2, <1>4 DEF SortedInv, BuilderOK
<1> QED
  BY <1>2, <1>5 DEF SortedInv

LEMMA PagingKeeps == SortedInv /\ (Limit \/ Offset) => SortedInv'
<1> SUFFICES ASSUME SortedInv, Limit \/ Offset PROVE SortedInv'
  OBVIOUS
<1>1. \A n \in 0 .. MaxPage : n \in Nat
  BY QueryAssumption
<1>2. CASE Limit
  <2>1. PICK n \in 0 .. MaxPage : Built("limit", [query EXCEPT !.limit = n])
    BY <1>2 DEF Limit
  <2>2. AnswersSorted' /\ query' = [query EXCEPT !.limit = n] /\ graph' = graph
    BY <2>1, BuiltAnswersNothing
  <2>3. BuilderOK'
    BY <1>1, <2>2 DEF SortedInv, BuilderOK
  <2> QED
    BY <2>2, <2>3 DEF SortedInv
<1>3. CASE Offset
  <2>1. PICK n \in 0 .. MaxPage : Built("offset", [query EXCEPT !.offset = n])
    BY <1>3 DEF Offset
  <2>2. AnswersSorted' /\ query' = [query EXCEPT !.offset = n] /\ graph' = graph
    BY <2>1, BuiltAnswersNothing
  <2>3. BuilderOK'
    BY <1>1, <2>2 DEF SortedInv, BuilderOK
  <2> QED
    BY <2>2, <2>3 DEF SortedInv
<1> QED
  BY <1>2, <1>3

LEMMA PolymorphicKeeps == SortedInv /\ Polymorphic => SortedInv'
<1> SUFFICES ASSUME SortedInv, Polymorphic PROVE SortedInv'
  OBVIOUS
<1>1. PICK b \in BOOLEAN : Built("polymorphic", [query EXCEPT !.polymorphic = b])
  BY DEF Polymorphic
<1>2. AnswersSorted' /\ query' = [query EXCEPT !.polymorphic = b] /\ graph' = graph
  BY <1>1, BuiltAnswersNothing
<1>3. BuilderOK'
  BY <1>2 DEF SortedInv, BuilderOK
<1> QED
  BY <1>2, <1>3 DEF SortedInv

LEMMA ValuesKeeps == SortedInv /\ Values => SortedInv'
<1> SUFFICES ASSUME SortedInv, Values PROVE SortedInv'
  OBVIOUS
<1>1. PICK iri \in UpTo(MaxFilters, query.values_bindings, {t[1] : t \in graph}) :
        Built("values", [query EXCEPT !.values_bindings = Append(@, iri)])
  BY DEF Values
<1>2. /\ AnswersSorted' /\ graph' = graph
      /\ query' = [query EXCEPT !.values_bindings = Append(@, iri)]
  BY <1>1, BuiltAnswersNothing
<1>3. BuilderOK'
  BY <1>2 DEF SortedInv, BuilderOK
<1> QED
  BY <1>2, <1>3 DEF SortedInv

\* The toggles of !=.
LEMMA ToggleKeeps ==
  ASSUME SortedInv, NEW call, NEW q, Built(call, q),
         DOMAIN q = DOMAIN query, q.expressions = query.expressions,
         q.limit = query.limit, q.offset = query.offset, q.order_by = query.order_by,
         q.polymorphic = query.polymorphic
  PROVE  SortedInv'
<1>1. AnswersSorted' /\ query' = q /\ graph' = graph
  BY BuiltAnswersNothing
<1>2. BuilderOK'
  BY <1>1 DEF SortedInv, BuilderOK
<1> QED
  BY <1>1, <1>2 DEF SortedInv

LEMMA TogglesKeep == SortedInv /\ (UseNotExists \/ UseInequality \/ UseOptional) => SortedInv'
<1>1. ASSUME SortedInv, UseNotExists PROVE SortedInv'
  <2> DEFINE q(b) == [query EXCEPT !.use_not_exists_for_ne = b,
                       !.use_inequality_for_ne = @ /\ ~b]
  <2>1. PICK b \in BOOLEAN : Built("use_not_exists_for_ne", q(b))
    BY <1>1 DEF UseNotExists
  <2>2. /\ DOMAIN q(b) = DOMAIN query /\ q(b).expressions = query.expressions
        /\ q(b).limit = query.limit /\ q(b).offset = query.offset
        /\ q(b).order_by = query.order_by /\ q(b).polymorphic = query.polymorphic
    BY <1>1 DEF SortedInv, BuilderOK
  <2> HIDE DEF q
  <2> QED
    BY <1>1, <2>1, <2>2, ToggleKeeps
<1>2. ASSUME SortedInv, UseInequality PROVE SortedInv'
  <2> DEFINE q(b) == [query EXCEPT !.use_inequality_for_ne = b, !.use_not_exists_for_ne = ~b]
  <2>1. PICK b \in BOOLEAN : Built("use_inequality_for_ne", q(b))
    BY <1>2 DEF UseInequality
  <2>2. /\ DOMAIN q(b) = DOMAIN query /\ q(b).expressions = query.expressions
        /\ q(b).limit = query.limit /\ q(b).offset = query.offset
        /\ q(b).order_by = query.order_by /\ q(b).polymorphic = query.polymorphic
    BY <1>2 DEF SortedInv, BuilderOK
  <2> HIDE DEF q
  <2> QED
    BY <1>2, <2>1, <2>2, ToggleKeeps
<1>3. ASSUME SortedInv, UseOptional PROVE SortedInv'
  <2> DEFINE q(b) == [query EXCEPT !.use_not_exists_for_ne = @ \/ b \/ ~query.use_inequality_for_ne,
                       !.use_inequality_for_ne = @ /\ ~b]
  <2>1. PICK b \in BOOLEAN : Built("use_optional_for_comparisons", q(b))
    BY <1>3 DEF UseOptional
  <2>2. /\ DOMAIN q(b) = DOMAIN query /\ q(b).expressions = query.expressions
        /\ q(b).limit = query.limit /\ q(b).offset = query.offset
        /\ q(b).order_by = query.order_by /\ q(b).polymorphic = query.polymorphic
    BY <1>3 DEF SortedInv, BuilderOK
  <2> HIDE DEF q
  <2> QED
    BY <1>3, <2>1, <2>2, ToggleKeeps
<1> QED
  BY <1>1, <1>2, <1>3

LEMMA AllKeeps == SortedInv /\ All => SortedInv'
<1> SUFFICES ASSUME SortedInv, All PROVE SortedInv'
  OBVIOUS
<1>1. BuilderOK /\ ~Fails(FALSE)
  BY DEF SortedInv, All
<1>2. PICK s \in Pages(query.offset, query.limit) : Answers("all", s)
  BY DEF All
<1>3. UNCHANGED <<graph, query>> /\ answer'.result = s
  BY <1>2 DEF Answers
<1>4. InOrderOfKeys(s)
  BY <1>1, <1>2, PagesInOrder
<1>5. InOrderOfKeys(s)'
  BY <1>3, <1>4, InOrderSame
<1>6. AnswersSorted'
  BY <1>3, <1>5 DEF AnswersSorted, InOrderOfKeys, KeyOf
<1>7. BuilderOK'
  BY <1>1, <1>3, AnsweredBuilder
<1> QED
  BY <1>6, <1>7 DEF SortedInv

\* What is not a list of resources says nothing about an order.
LEMMA OtherAnswersKeep == SortedInv /\ (First \/ Count \/ RunRaises) => SortedInv'
<1> SUFFICES ASSUME SortedInv, First \/ Count \/ RunRaises PROVE SortedInv'
  OBVIOUS
<1>1. UNCHANGED <<graph, query>> /\ answer'.call # "all"
  <2>1. CASE First
    BY <2>1 DEF First, Answers
  <2>2. CASE Count
    BY <2>2 DEF Count, Answers
  <2>3. CASE RunRaises
    BY <2>3 DEF RunRaises, Answers
  <2> QED
    BY <2>1, <2>2, <2>3
<1>2. BuilderOK'
  BY <1>1, AnsweredBuilder DEF SortedInv
<1> QED
  BY <1>1, <1>2 DEF SortedInv, AnswersSorted

LEMMA StutterKeeps == SortedInv /\ UNCHANGED vars => SortedInv'
<1> SUFFICES ASSUME SortedInv, UNCHANGED vars PROVE SortedInv'
  OBVIOUS
<1>1. UNCHANGED <<graph, query>> /\ answer' = answer
  BY DEF vars
<1>2. BuilderOK'
  BY <1>1, AnsweredBuilder DEF SortedInv
<1>3. AnswersSorted'
  <2> SUFFICES ASSUME answer.call = "all", query.order_by # <<>> PROVE AnswersSorted'
    BY <1>1 DEF AnswersSorted
  <2>1. InOrderOfKeys(answer.result)
    BY DEF SortedInv, AnswersSorted, InOrderOfKeys, KeyOf
  <2>2. InOrderOfKeys(answer.result)'
    BY <1>1, <2>1, InOrderSame
  <2> QED
    BY <2>2 DEF AnswersSorted, InOrderOfKeys, KeyOf
<1> QED
  BY <1>2, <1>3 DEF SortedInv

LEMMA SortedStep == SortedInv /\ [Next]_vars => SortedInv'
  BY WhereKeeps, OrderByKeeps, PagingKeeps, PolymorphicKeeps, ValuesKeeps, TogglesKeep,
     AllKeeps, OtherAnswersKeep, StutterKeeps DEF Next

LEMMA BuilderJoins == BuilderOK => JoinsLead
<1> DEFINE sorted == CompileOrder(Class, CompileFilters(Class, query), query.order_by)
           c == CompileWhere(Class, query, FALSE)
<1> SUFFICES ASSUME BuilderOK, ~Fails(FALSE), NEW mu \in Rows(c),
                    NEW path \in DOMAIN sorted.compiled.joins
             PROVE  Leads(mu, sorted.compiled.joins, path)
  BY DEF JoinsLead
<1>1. /\ graph \in Graphs /\ query.polymorphic \in BOOLEAN
      /\ query.expressions \in Seq(Filters) /\ query.order_by \in Seq(SortKeys)
      /\ ~WhereRaises(Class, query, FALSE)
  BY DEF BuilderOK, Fails
<1>2. Keyed(sorted, query.order_by)
  BY <1>1, OrderKeyed
<1>3. c.group = Before \o sorted.compiled.group
  BY DEF CompileWhere, Select, Before
<1> HIDE DEF sorted, c
<1>4. mu \in SolsOf(sorted.compiled.group)
  BY <1>3 DEF Rows, Solutions, SolsOf
<1> QED
  BY <1>2, <1>4 DEF Keyed, Good, Sound

\* For every schema, every store and every sequence of calls of the builder: the
\* variables that the join cache hands out stand on one way along their paths in every
\* row, whichever filters and sort keys share them and in whichever order they were
\* given (_follow_path, compile_where).
THEOREM JoinsAlwaysLead == Spec => []JoinsLead
<1>1. Init => SortedInv
  BY InitSorted
<1>2. SortedInv /\ [Next]_vars => SortedInv'
  BY SortedStep
<1>3. SortedInv => JoinsLead
  BY BuilderJoins DEF SortedInv
<1> QED
  BY <1>1, <1>2, <1>3, PTL DEF Spec

\* For every schema, every store and every sequence of calls of the builder: of two
\* resources that all() answers and that have one value of every sort key, the one
\* with the lesser key is first, whichever relationships the sort keys follow,
\* whatever filters share the variables of those relationships, behind any offset
\* and within any limit (_resolve_order_target, _follow_path, compile_where).
THEOREM AnswersAlwaysSorted == Spec => []AnswersSorted
<1>1. Init => SortedInv
  BY InitSorted
<1>2. SortedInv /\ [Next]_vars => SortedInv'
  BY SortedStep
<1>3. SortedInv => AnswersSorted
  BY DEF SortedInv
<1> QED
  BY <1>1, <1>2, <1>3, PTL DEF Spec
=============================================================================
