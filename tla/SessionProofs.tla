--------------------------- MODULE SessionProofs ----------------------------
(***************************************************************************)
(* Theorems about Session for every set of resources, objects and options: *)
(* what a close leaves, what a commit and a delete leave alone, and what   *)
(* the caches of a session answer with: one instance per resource, however *)
(* it was loaded.                                                          *)
(***************************************************************************)
EXTENDS SessionProperties, RecursionTheorems, FiniteSetTheorems, SequenceTheorems, TLAPS

-----------------------------------------------------------------------------
(* Chains of embedded objects, what a set of references reaches, and the   *)
(* rows of a load, for all objects and graphs.                             *)

\* c follows the relationship field from o.
IsWalk(h, o, c) ==
  /\ c \in Seq(Item)
  /\ 1 <= Len(c) /\ Len(c) <= Cardinality(Obj) + 1
  /\ c[1] = o
  /\ \A k \in 1 .. Len(c) - 1 : c[k] \in Obj /\ c[k + 1] = h[c[k]].rel

\* A walk ends at something else than an object, or when it has met an object twice.
Ended(c) == c[Len(c)] \notin Obj \/ Len(c) > Cardinality(Obj)

\* One step of the function that Chain is computed with.
Goes(c) == c[Len(c)] \in Obj /\ Len(c) <= Cardinality(Obj)

Onward(h, f) ==
  [c \in Seq(Item) |-> IF Goes(c) THEN f[Append(c, h[c[Len(c)]].rel)] ELSE c]

LEMMA CountOfObjects == Cardinality(Obj) \in Nat
  BY ShapeAssumption, FS_CardinalityType

LEMMA LinkIsItem ==
  ASSUME NEW h \in [Obj -> Node], NEW x \in Obj
  PROVE  h[x].rel \in Item
  BY DEF Node

LEMMA OneMore ==
  ASSUME NEW h \in [Obj -> Node], NEW c \in Seq(Item), Goes(c)
  PROVE  /\ Append(c, h[c[Len(c)]].rel) \in Seq(Item)
         /\ Len(Append(c, h[c[Len(c)]].rel)) = Len(c) + 1
  BY LinkIsItem DEF Goes

\* The recursive function of Chain exists.
LEMMA OnwardExists ==
  ASSUME NEW h \in [Obj -> Node]
  PROVE  \E f : f = Onward(h, f)
<1> DEFINE N == Cardinality(Obj)
           V == [Seq(Item) -> Seq(Item)]
           same == [c \in Seq(Item) |-> c]
           step == [n \in Nat |-> [f \in V |-> Onward(h, f)]]
<1>1. same \in V
  OBVIOUS
<1>2. ASSUME NEW f \in V PROVE Onward(h, f) \in V
  BY OneMore DEF Onward
<1>3. step \in [Nat -> [V -> V]]
  BY <1>2
<1>4. N \in Nat
  BY CountOfObjects
<1> HIDE DEF V, same, step
<1>a. PICK f : Iterates(f, V, same, step)
  BY <1>1, <1>3, RecursiveFunction
<1>5. f \in [Nat -> V] /\ f[0] = same /\ \A n \in Nat : f[n + 1] = step[n][f[n]]
  BY <1>a DEF Iterates
<1>6. ASSUME NEW n \in Nat PROVE f[n + 1] = Onward(h, f[n])
  BY <1>5, <1>6 DEF step
<1>b. f[0 + 1] = Onward(h, f[0])
  BY <1>6
<1> DEFINE Stable(n) == \A c \in Seq(Item) : Len(c) + n > N => f[n + 1][c] = f[n][c]
           S == {n \in Nat : Stable(n)}
<1>7. 0 \in S
  <2> SUFFICES ASSUME NEW c \in Seq(Item), Len(c) + 0 > N PROVE f[0 + 1][c] = f[0][c]
    OBVIOUS
  <2>1. ~Goes(c)
    BY <1>4 DEF Goes
  <2>2. f[0 + 1][c] = c
    BY <1>b, <2>1 DEF Onward
  <2>3. f[0] = same
    BY <1>5
  <2>4. same[c] = c
    BY DEF same
  <2> QED
    BY <2>2, <2>3, <2>4
<1>8. ASSUME NEW n \in Nat, n \in S PROVE n + 1 \in S
  <2> SUFFICES ASSUME NEW c \in Seq(Item), Len(c) + (n + 1) > N
               PROVE  f[(n + 1) + 1][c] = f[n + 1][c]
    OBVIOUS
  <2> n + 1 \in Nat
    OBVIOUS
  <2>1. f[(n + 1) + 1] = Onward(h, f[n + 1]) /\ f[n + 1] = Onward(h, f[n])
    BY <1>6, Zenon
  <2>2. CASE ~Goes(c)
    BY <2>1, <2>2 DEF Onward
  <2>3. CASE Goes(c)
    <3> DEFINE d == Append(c, h[c[Len(c)]].rel)
    <3>1. d \in Seq(Item) /\ Len(d) = Len(c) + 1
      BY <2>3, OneMore
    <3>2. Len(d) + n > N
      BY <1>4, <3>1
    <3> HIDE DEF d
    <3>3. f[n + 1][d] = f[n][d]
      BY <1>8, <3>1, <3>2
    <3> QED
      BY <2>1, <2>3, <3>3 DEF Onward, d
  <2> QED
    BY <2>2, <2>3
<1> HIDE DEF S
<1>9. Nat \subseteq S
  BY <1>7, <1>8, NatSet
<1>10. f[N + 1] = Onward(h, f[N + 1])
  <2>1. Stable(N + 1)
    BY <1>4, <1>9 DEF S
  <2>2. f[(N + 1) + 1] = Onward(h, f[N + 1])
    BY <1>4, <1>6
  <2>3. f[N + 1] \in V /\ f[(N + 1) + 1] \in V
    BY <1>4, <1>5
  <2>4. ASSUME NEW c \in Seq(Item) PROVE f[(N + 1) + 1][c] = f[N + 1][c]
    BY <1>4, <2>1
  <2> HIDE DEF Stable
  <2>5. f[(N + 1) + 1] = f[N + 1]
    BY <2>3, <2>4 DEF V
  <2> QED
    BY <2>2, <2>5
<1> QED
  BY <1>10

\* Going on from a walk ends in a walk that has ended.
LEMMA OnwardWalks ==
  ASSUME NEW h \in [Obj -> Node], NEW o, NEW f, f = Onward(h, f),
         NEW c, IsWalk(h, o, c)
  PROVE  IsWalk(h, o, f[c]) /\ Ended(f[c])
<1> DEFINE N == Cardinality(Obj)
           Fine(n) == \A d : IsWalk(h, o, d) /\ Len(d) + n = N + 1
                               => IsWalk(h, o, f[d]) /\ Ended(f[d])
           S == {n \in Nat : Fine(n)}
<1>1. N \in Nat
  BY CountOfObjects
<1>2. ASSUME NEW d, IsWalk(h, o, d), ~Goes(d) PROVE IsWalk(h, o, f[d]) /\ Ended(f[d])
  <2>1. f[d] = d
    BY <1>2 DEF Onward, IsWalk
  <2>2. Len(d) \in Nat
    BY <1>2 DEF IsWalk
  <2> QED
    BY <1>1, <1>2, <2>1, <2>2 DEF Goes, Ended
<1>3. 0 \in S
  <2> SUFFICES ASSUME NEW d, IsWalk(h, o, d), Len(d) + 0 = N + 1 PROVE ~Goes(d)
    BY <1>2
  <2>1. Len(d) \in Nat
    BY DEF IsWalk
  <2> QED
    BY <1>1, <2>1 DEF Goes
<1>4. ASSUME NEW n \in Nat, n \in S PROVE n + 1 \in S
  <2> SUFFICES ASSUME NEW d, IsWalk(h, o, d), Len(d) + (n + 1) = N + 1, Goes(d)
               PROVE  IsWalk(h, o, f[d]) /\ Ended(f[d])
    BY <1>2
  <2> DEFINE e == Append(d, h[d[Len(d)]].rel)
  <2>1. d \in Seq(Item) /\ Len(d) \in Nat /\ Len(d) >= 1 /\ d[1] = o
    BY DEF IsWalk
  <2>2. e \in Seq(Item) /\ Len(e) = Len(d) + 1
    BY <2>1, OneMore
  <2>3. f[d] = f[e]
    BY <2>1 DEF Onward
  <2>4. IsWalk(h, o, e)
    <3>1. e[1] = o /\ Len(e) >= 1 /\ Len(e) <= N + 1
      BY <1>1, <2>1, <2>2 DEF Goes
    <3>2. ASSUME NEW k \in 1 .. Len(e) - 1 PROVE e[k] \in Obj /\ e[k + 1] = h[e[k]].rel
      <4>1. k \in 1 .. Len(d) /\ e[k] = d[k]
        BY <2>1, <2>2
      <4>2. CASE k = Len(d)
        BY <2>1, <4>1, <4>2 DEF Goes
      <4>3. CASE k # Len(d)
        <5>1. k \in 1 .. Len(d) - 1 /\ k + 1 \in 1 .. Len(d)
          BY <2>1, <4>1, <4>3
        <5>2. e[k + 1] = d[k + 1]
          BY <2>1, <5>1
        <5> QED
          BY <4>1, <5>1, <5>2 DEF IsWalk
      <4> QED
        BY <4>2, <4>3
    <3> HIDE DEF e
    <3> QED
      BY <2>2, <3>1, <3>2 DEF IsWalk
  <2>5. Len(e) + n = N + 1
    BY <1>1, <2>1, <2>2
  <2> HIDE DEF e
  <2> QED
    BY <1>4, <2>3, <2>4, <2>5
<1> HIDE DEF S
<1>5. Nat \subseteq S
  BY <1>3, <1>4, NatSet
<1>6. N + 1 - Len(c) \in Nat /\ Len(c) + (N + 1 - Len(c)) = N + 1
  <2>1. Len(c) \in Nat
    BY DEF IsWalk
  <2> QED
    BY <1>1, <2>1 DEF IsWalk
<1> QED
  BY <1>5, <1>6 DEF S

\* The chain of an object: from it along the relationship to its end.
THEOREM ChainWalks ==
  ASSUME NEW h \in [Obj -> Node], NEW o \in Item
  PROVE  IsWalk(h, o, Chain(h, o)) /\ Ended(Chain(h, o))
<1> DEFINE onward == CHOOSE f : f = Onward(h, f)
<1>1. onward = Onward(h, onward)
  BY OnwardExists
<1>2. Chain(h, o) = onward[<<o>>]
  BY Zenon DEF Chain, Onward, Goes
<1>3. IsWalk(h, o, <<o>>)
  BY CountOfObjects DEF IsWalk
<1> HIDE DEF onward
<1> QED
  BY <1>1, <1>2, <1>3, OnwardWalks

-----------------------------------------------------------------------------
(* Walks                                                                   *)

\* Two walks from one object meet the same as long as both go on, also in other
\* contents h2 that leave the relationships met as they are.
LEMMA WalksAgree ==
  ASSUME NEW h, NEW h2, NEW o, NEW c, NEW d, IsWalk(h, o, c), IsWalk(h2, o, d),
         \A k \in 1 .. Len(c) - 1 : h2[c[k]].rel = h[c[k]].rel
  PROVE  \A k \in 1 .. Len(c) : k <= Len(d) => d[k] = c[k]
<1> DEFINE Same(n) == n + 1 <= Len(c) /\ n + 1 <= Len(d) => d[n + 1] = c[n + 1]
           S == {n \in Nat : Same(n)}
<1>1. Len(c) \in Nat /\ Len(d) \in Nat
  BY DEF IsWalk
<1>2. 0 \in S
  BY DEF IsWalk
<1>3. ASSUME NEW n \in Nat, n \in S PROVE n + 1 \in S
  <2> SUFFICES ASSUME (n + 1) + 1 <= Len(c), (n + 1) + 1 <= Len(d)
               PROVE  d[(n + 1) + 1] = c[(n + 1) + 1]
    OBVIOUS
  <2>1. n + 1 \in 1 .. Len(c) - 1 /\ n + 1 \in 1 .. Len(d) - 1
    BY <1>1
  <2>2. d[n + 1] = c[n + 1]
    BY <1>1, <1>3
  <2>3. c[(n + 1) + 1] = h[c[n + 1]].rel /\ d[(n + 1) + 1] = h2[d[n + 1]].rel
    BY <2>1 DEF IsWalk
  <2> QED
    BY <2>1, <2>2, <2>3
<1> HIDE DEF S
<1>4. Nat \subseteq S
  BY <1>2, <1>3, NatSet
<1> TAKE k \in 1 .. Len(c)
<1>5. k - 1 \in Nat /\ (k - 1) + 1 = k
  BY <1>1
<1>6. Same(k - 1)
  BY <1>4, <1>5 DEF S
<1> QED
  BY <1>5, <1>6

\* A walk that has ended is all there is.
LEMMA EndedWalksEqual ==
  ASSUME NEW h, NEW h2, NEW o, NEW c, NEW d, IsWalk(h, o, c), IsWalk(h2, o, d),
         Ended(c), Ended(d),
         \A k \in 1 .. Len(c) - 1 : h2[c[k]].rel = h[c[k]].rel
  PROVE  c = d
<1>1. /\ Len(c) \in Nat /\ Len(d) \in Nat /\ Cardinality(Obj) \in Nat
      /\ Len(c) >= 1 /\ Len(d) >= 1
      /\ Len(c) <= Cardinality(Obj) + 1 /\ Len(d) <= Cardinality(Obj) + 1
      /\ c \in Seq(Item) /\ d \in Seq(Item)
  BY CountOfObjects DEF IsWalk
<1>2. \A k \in 1 .. Len(c) : k <= Len(d) => d[k] = c[k]
  BY WalksAgree
<1>3. ~(Len(c) < Len(d))
  <2> SUFFICES ASSUME Len(c) < Len(d) PROVE FALSE
    OBVIOUS
  <2>1. Len(c) \in 1 .. Len(d) - 1 /\ Len(c) \in 1 .. Len(c)
    BY <1>1
  <2>2. d[Len(c)] = c[Len(c)]
    BY <1>1, <1>2
  <2>3. d[Len(c)] \in Obj
    BY <2>1 DEF IsWalk
  <2> QED
    BY <1>1, <2>2, <2>3 DEF Ended
<1>4. ~(Len(d) < Len(c))
  <2> SUFFICES ASSUME Len(d) < Len(c) PROVE FALSE
    OBVIOUS
  <2>1. Len(d) \in 1 .. Len(c) - 1 /\ Len(d) \in 1 .. Len(c)
    BY <1>1
  <2>2. d[Len(d)] = c[Len(d)]
    BY <1>1, <1>2
  <2>3. c[Len(d)] \in Obj
    BY <2>1 DEF IsWalk
  <2> QED
    BY <1>1, <2>2, <2>3 DEF Ended
<1>5. Len(c) = Len(d)
  BY <1>1, <1>3, <1>4
<1>6. \A k \in 1 .. Len(c) : c[k] = d[k]
  BY <1>1, <1>2, <1>5
<1> QED
  BY <1>1, <1>5, <1>6, SeqEqual

\* Contents that agree on what the chain meets have the same chain.
LEMMA SameChain ==
  ASSUME NEW h \in [Obj -> Node], NEW h2 \in [Obj -> Node], NEW o \in Item,
         \A x \in ChainObjs(h, o) : h2[x].rel = h[x].rel
  PROVE  Chain(h2, o) = Chain(h, o)
<1> DEFINE c == Chain(h, o)
           d == Chain(h2, o)
<1>1. IsWalk(h, o, c) /\ Ended(c) /\ IsWalk(h2, o, d) /\ Ended(d)
  BY ChainWalks
<1> HIDE DEF c, d
<1>2. ASSUME NEW k \in 1 .. Len(c) - 1 PROVE h2[c[k]].rel = h[c[k]].rel
  <2>1. c \in Seq(Item) /\ Len(c) \in Nat /\ c[k] \in Obj
    BY <1>1 DEF IsWalk
  <2>2. k \in DOMAIN c
    BY <2>1
  <2>3. c[k] \in ChainObjs(h, o)
    BY <2>1, <2>2 DEF ChainObjs, c
  <2> QED
    BY <2>3
<1>3. c = d
  BY <1>1, <1>2, EndedWalksEqual
<1> QED
  BY <1>3 DEF c, d

\* Objects b[1], ..., b[L] of which each holds the next, the last none, are the
\* embedded objects of the first.
LEMMA LineIsChain ==
  ASSUME NEW h \in [Obj -> Node], NEW L \in Nat, L >= 1, L <= Cardinality(Obj),
         NEW b \in [1 .. L -> Obj], h[b[L]].rel \notin Obj,
         \A k \in 1 .. L - 1 : h[b[k]].rel = b[k + 1]
  PROVE  /\ Chain(h, b[1]) = [k \in 1 .. L + 1 |-> IF k <= L THEN b[k] ELSE h[b[L]].rel]
         /\ Embeds(h, b[1]) = 1 .. L
         /\ \A k \in 1 .. L : IriAt(h, b[1], k) = h[b[k]].iri
<1> DEFINE c == [k \in 1 .. L + 1 |-> IF k <= L THEN b[k] ELSE h[b[L]].rel]
<1>1. 1 \in 1 .. L /\ L \in 1 .. L /\ b[1] \in Obj /\ b[1] \in Item /\ L + 1 \in Nat
  BY DEF Item
<1>2. /\ \A k \in 1 .. L + 1 : c[k] \in Item
      /\ \A k \in 1 .. L : c[k] = b[k]
      /\ c[L + 1] = h[b[L]].rel
  <2>1. h[b[L]].rel \in Item
    BY <1>1, LinkIsItem
  <2> QED
    BY <2>1 DEF Item
<1>3. c \in Seq(Item) /\ Len(c) = L + 1 /\ DOMAIN c = 1 .. L + 1
  BY <1>1, <1>2
<1> HIDE DEF c
<1>4. IsWalk(h, b[1], c)
  <2>1. ASSUME NEW k \in 1 .. Len(c) - 1 PROVE c[k] \in Obj /\ c[k + 1] = h[c[k]].rel
    <3>1. k \in 1 .. L
      BY <1>3
    <3>2. CASE k = L
      BY <1>2, <3>1, <3>2
    <3>3. CASE k # L
      <4>1. k \in 1 .. L - 1 /\ k + 1 \in 1 .. L
        BY <3>1, <3>3
      <4> QED
        BY <1>2, <3>1, <4>1
    <3> QED
      BY <3>2, <3>3
  <2> QED
    BY <1>1, <1>2, <1>3, <2>1, CountOfObjects DEF IsWalk
<1>5. Ended(c)
  BY <1>2, <1>3 DEF Ended
<1>6. IsWalk(h, b[1], Chain(h, b[1])) /\ Ended(Chain(h, b[1]))
  BY <1>1, ChainWalks
<1>7. Chain(h, b[1]) = c
  BY <1>4, <1>5, <1>6, EndedWalksEqual
<1>8. Embeds(h, b[1]) = 1 .. L
  <2>1. \A k \in 1 .. L + 1 : c[k] \in Obj <=> k \in 1 .. L
    BY <1>1, <1>2
  <2> QED
    BY <1>3, <1>7, <2>1 DEF Embeds
<1> QED
  BY <1>2, <1>7, <1>8 DEF IriAt, c

-----------------------------------------------------------------------------
(* What references reach                                                   *)

\* Objects that are n different ones are no more than there are.
LEMMA DistinctObjects ==
  ASSUME NEW n \in Nat, NEW f \in [1 .. n -> Obj],
         \A j, k \in 1 .. n : f[j] = f[k] => j = k
  PROVE  n <= Cardinality(Obj)
<1>1. SUFFICES ASSUME Cardinality(Obj) < n PROVE FALSE
  BY CountOfObjects
<1>2. IsFiniteSet(1 .. n) /\ Cardinality(1 .. n) = n
  BY FS_Interval
<1>3. \E j, k \in 1 .. n : j # k /\ f[j] = f[k]
  BY <1>1, <1>2, FS_PigeonHole, ShapeAssumption
<1> QED
  BY <1>3

\* The objects of a chain hold no object outside of it.
LEMMA ChainClosed ==
  ASSUME NEW h \in [Obj -> Node], NEW o \in Obj, NEW x \in ChainObjs(h, o),
         h[x].rel \in Obj
  PROVE  h[x].rel \in ChainObjs(h, o)
<1> DEFINE c == Chain(h, o)
           L == Len(c)
<1>1. IsWalk(h, o, c) /\ Ended(c)
  BY ChainWalks DEF Item
<1> HIDE DEF c
<1>2. /\ c \in Seq(Item) /\ L \in Nat /\ DOMAIN c = 1 .. L
      /\ \A k \in 1 .. L - 1 : c[k] \in Obj /\ c[k + 1] = h[c[k]].rel
  BY <1>1 DEF IsWalk
<1>3. ASSUME NEW k \in 1 .. L - 1, c[k] = x PROVE h[x].rel \in ChainObjs(h, o)
  <2>1. k + 1 \in 1 .. L /\ c[k + 1] = h[x].rel
    BY <1>2, <1>3
  <2> QED
    BY <1>2, <2>1 DEF ChainObjs, c
<1>4. PICK k \in 1 .. L : c[k] = x /\ x \in Obj
  <2>1. ChainObjs(h, o) = {c[n] : n \in 1 .. L} \cap Obj
    BY <1>2 DEF ChainObjs, c
  <2> QED
    BY <2>1
<1>5. CASE k # L
  <2>1. L \in Nat
    BY <1>2
  <2> HIDE DEF L
  <2>2. k \in 1 .. L - 1
    BY <1>5, <2>1
  <2> QED
    BY <1>3, <1>4, <2>2
<1>6. CASE k = L
  <2>1. \A n \in 1 .. L : c[n] \in Obj
    BY <1>2, <1>4, <1>6
  <2>2. Cardinality(Obj) < L
    BY <1>1, <1>4, <1>6 DEF Ended
  <2>3. PICK i, j \in 1 .. L : i < j /\ c[i] = c[j]
    <3> DEFINE f == [n \in 1 .. L |-> c[n]]
    <3>1. f \in [1 .. L -> Obj]
      BY <2>1
    <3>2. ~\A m, n \in 1 .. L : f[m] = f[n] => m = n
      <4> HIDE DEF f
      <4> QED
        <5>1. ~(L <= Cardinality(Obj)) /\ L \in Nat
          BY <1>2, <2>2, CountOfObjects
        <5> HIDE DEF L
        <5> QED
          BY <3>1, <5>1, DistinctObjects
    <3>3. PICK m, n \in 1 .. L : f[m] = f[n] /\ m # n
      BY <3>2
    <3>4. m < n \/ n < m
      BY <1>2, <3>3
    <3> QED
      BY <3>3, <3>4
  <2> DEFINE Again(n) == j + n <= L => c[i + n] = c[j + n]
             S == {n \in Nat : Again(n)}
  <2>4. 0 \in S
    BY <2>3
  <2>5. ASSUME NEW n \in Nat, n \in S PROVE n + 1 \in S
    <3> SUFFICES ASSUME j + (n + 1) <= L PROVE c[i + (n + 1)] = c[j + (n + 1)]
      OBVIOUS
    <3>1. i + n \in 1 .. L - 1 /\ j + n \in 1 .. L - 1
      BY <1>2, <2>3
    <3>2. c[i + n] = c[j + n]
      BY <1>2, <2>5
    <3>3. c[(i + n) + 1] = h[c[i + n]].rel /\ c[(j + n) + 1] = h[c[j + n]].rel
      BY <1>2, <3>1
    <3>4. (i + n) + 1 = i + (n + 1) /\ (j + n) + 1 = j + (n + 1)
      OBVIOUS
    <3> QED
      BY <3>2, <3>3, <3>4
  <2> HIDE DEF S
  <2>6. Nat \subseteq S
    BY <2>4, <2>5, NatSet
  <2>7. L - j \in Nat /\ j + (L - j) = L /\ i + (L - j) \in 1 .. L - 1
    BY <1>2, <2>3
  <2>8. Again(L - j)
    BY <2>6, <2>7 DEF S
  <2>9. c[i + (L - j)] = x
    BY <1>4, <1>6, <2>7, <2>8
  <2> QED
    BY <1>3, <2>7, <2>9
<1> QED
  BY <1>5, <1>6

LEMMA ChainHasItself ==
  ASSUME NEW h \in [Obj -> Node], NEW o \in Obj
  PROVE  o \in ChainObjs(h, o)
<1>1. IsWalk(h, o, Chain(h, o))
  BY ChainWalks DEF Item
<1>2. 1 \in DOMAIN Chain(h, o) /\ Chain(h, o)[1] = o
  BY <1>1 DEF IsWalk
<1> QED
  BY <1>2 DEF ChainObjs

\* What references reach are objects, the referenced ones among them, and with
\* an object what it holds.
LEMMA ReachClosed ==
  ASSUME NEW h \in [Obj -> Node], NEW roots
  PROVE  /\ Reachable(h, roots) \subseteq Obj
         /\ roots \cap Obj \subseteq Reachable(h, roots)
         /\ \A x \in Reachable(h, roots) :
              h[x].rel \in Obj => h[x].rel \in Reachable(h, roots)
<1>1. Reachable(h, roots) \subseteq Obj
  BY DEF Reachable, ChainObjs
<1>2. roots \cap Obj \subseteq Reachable(h, roots)
  BY DEF Reachable
<1>3. ASSUME NEW x \in Reachable(h, roots), h[x].rel \in Obj
      PROVE  h[x].rel \in Reachable(h, roots)
  <2>1. PICK o \in roots \cap Obj :
          x \in IF h[o].rel \in Obj THEN {o} \cup ChainObjs(h, o) ELSE {o}
    BY DEF Reachable
  <2>2. h[o].rel \in Obj
    BY <1>3, <2>1
  <2>3. x \in ChainObjs(h, o)
    BY <2>1, <2>2, ChainHasItself
  <2>4. h[x].rel \in ChainObjs(h, o)
    BY <1>3, <2>3, ChainClosed
  <2> QED
    BY <2>2, <2>4 DEF Reachable
<1> QED
  BY <1>1, <1>2, <1>3

-----------------------------------------------------------------------------
(* Closing                                                                 *)

\* What keeps a deferred write from being pending over a close: a body that runs
\* after a flush finds the queue empty, and only a flush has writes in hand.
QueueInv ==
  /\ ClosedIsClean
  /\ pc = "body" => pending = <<>>
  /\ pc # "flush" => todo = <<>>

\* Bodies run in sessions that are open, outside a flush.
LEMMA BodyFacts ==
  ASSUME NEW c, Runs(c), QueueInv
  PROVE  /\ ~closed /\ pc # "flush" /\ todo = <<>>
         /\ c.op = "exit" => pending = <<>>
  BY DEF Runs, MayCall, Ready, FlushesFirst, QueueInv, ClosedIsClean

LEMMA QueueInvStep == QueueInv /\ [Next]_vars => QueueInv'
<1> SUFFICES ASSUME QueueInv, [Next]_vars PROVE QueueInv'
  OBVIOUS
<1> USE DEF QueueInv, ClosedIsClean
<1>1. CASE New \/ Edit \/ SyncMirror \/ ForeignWrite
  BY <1>1 DEF New, Edit, SyncMirror, ForeignWrite, Ready
<1>2. CASE Restart
  BY <1>2 DEF Restart
<1>3. CASE BeginFlush
  BY <1>3 DEF BeginFlush, MayCall, Ready
<1>4. CASE FlushPut \/ FlushRaises \/ FlushDone
  BY <1>4 DEF FlushPut, FlushRaises, FlushDone
<1>5. CASE Put \/ Queue \/ Add \/ Delete \/ SelectRaises \/ Execute \/ Merge
           \/ Expunge \/ ExpungeAll \/ FlushCall \/ Rollback
  BY <1>5, BodyFacts
     DEF Put, Queue, Add, Delete, SelectRaises, Execute, Merge, Expunge, ExpungeAll,
         FlushCall, Rollback, Body, Return
<1>6. CASE Get \/ Refresh \/ Expire
  <2>1. PICK c : Runs(c)
    BY <1>6 DEF Get, Refresh, Expire
  <2>2. /\ ~closed' /\ pc' = "idle" /\ todo' = <<>>
    BY <1>6, <2>1, BodyFacts DEF Get, Refresh, Expire, Return
  <2> QED
    BY <2>2
<1>7. CASE Select
  BY <1>7, BodyFacts DEF Select
<1>8. CASE HydrateRow \/ RowsDone
  BY <1>8 DEF HydrateRow, RowsDone, Return
<1>9. CASE Close
  BY <1>9, BodyFacts DEF Close, Body, Return
<1>10. CASE Exit
  <2>1. PICK c \in CallsOf("exit") : Runs(c)
    BY <1>10 DEF Exit, Body
  <2>2. c.op = "exit"
    BY DEF CallsOf
  <2> QED
    BY <1>10, <2>1, <2>2, BodyFacts DEF Exit, Return
<1>11. CASE ExitError
  BY <1>11, BodyFacts DEF ExitError, Body, Return
<1>12. CASE UNCHANGED vars
  BY <1>12 DEF vars
<1> QED
  BY <1>1, <1>2, <1>3, <1>4, <1>5, <1>6, <1>7, <1>8, <1>9, <1>10, <1>11, <1>12
     DEF Next, CallStep

\* A session is never closed over a deferred write or in the middle of a call,
\* on whichever path it is left (session.close, session.__exit__).
THEOREM NeverClosedOverWrites == Spec => []ClosedIsClean
<1>1. Init => QueueInv
  BY DEF Init, QueueInv, ClosedIsClean
<1>2. QueueInv => ClosedIsClean
  BY DEF QueueInv
<1> QED
  BY <1>1, <1>2, QueueInvStep, PTL DEF Spec

-----------------------------------------------------------------------------
(* Cascades                                                                *)

\* A resource that a put of x removes is an orphan, and no triple about another
\* resource than those of x's tree links an orphan.
LEMMA RemovedOrphan ==
  ASSUME NEW x, NEW i \in Iris, PutSucceeds(x), Typed(graph, i), ~Typed(graph', i)
  PROVE  ~ReferencedFromOutside(graph, i, NestedIris(heap, x))
<1>1. graph' = (graph \ PutRemoves(x)) \cup ModelGraph(heap, x)
  BY DEF PutSucceeds, StoreApplies
<1>2. <<i, "type", "Class">> \in PutRemoves(x)
  BY <1>1 DEF Typed
<1>3. i \in PutSubjects(heap, graph, x)
  BY <1>2 DEF PutRemoves, OwnedTriples
<1>4. i \notin NestedIris(heap, x)
  <2>1. SUFFICES ASSUME NEW m \in NestedModels(heap, x), heap[m].iri = i PROVE FALSE
    BY DEF NestedIris
  <2>2. <<i, "type", "Class">> \in ModelGraph(heap, x)
    BY <2>1 DEF ModelGraph, InstanceTriples
  <2> QED
    BY <1>1, <2>2 DEF Typed
<1>5. PICK m \in NestedModels(heap, x) :
        i \in OrphanedTargets(heap, graph, m, NestedIris(heap, x))
  BY <1>3, <1>4 DEF PutSubjects
<1> QED
  BY <1>5 DEF OrphanedTargets

LEMMA PutSparesReferenced ==
  ASSUME NEW x, NEW i \in Iris, NEW j \in Iris \ NestedIris(heap, x),
         PutSucceeds(x), Typed(graph, i), <<j, "rel", i>> \in graph'
  PROVE  Typed(graph', i)
<1>1. SUFFICES ASSUME ~Typed(graph', i) PROVE FALSE
  OBVIOUS
<1>2. ~ReferencedFromOutside(graph, i, NestedIris(heap, x))
  BY <1>1, RemovedOrphan
<1>3. <<j, "rel", i>> \notin graph
  BY <1>2 DEF ReferencedFromOutside
<1>4. <<j, "rel", i>> \in ModelGraph(heap, x)
  BY <1>3 DEF PutSucceeds, StoreApplies
<1>5. PICK m \in NestedModels(heap, x) : <<j, "rel", i>> \in InstanceTriples(heap, m)
  BY <1>4 DEF ModelGraph
<1>6. heap[m].iri = j
  BY <1>5 DEF InstanceTriples
<1> QED
  BY <1>6 DEF NestedIris

\* A put, at once or by a flush, leaves no link from outside its composition
\* tree to a resource it removes (graph.orphaned_embedded_targets).
THEOREM OutsideReferencesKept == Spec => OutsideReferencesSurvive
<1>1. ASSUME [Next]_vars, PutSucceeded
      PROVE  \A i \in Iris, j \in Iris \ NestedIris(heap, Written) :
               Typed(graph, i) /\ <<j, "rel", i>> \in graph' => Typed(graph', i)
  <2>1. PutSucceeds(Written)
    <3>1. CASE FlushPut
      BY <3>1 DEF FlushPut, Written
    <3>2. CASE Put /\ PutSucceeds(mine)
      <4>1. PICK c : Runs(c)
        BY <3>2 DEF Put, Body
      <4> QED
        BY <3>2, <4>1 DEF Written, Runs, MayCall, Ready
    <3> QED
      BY <1>1, <3>1, <3>2 DEF PutSucceeded
  <2> QED
    BY <2>1, PutSparesReferenced
<1> QED
  BY <1>1, PTL DEF Spec, OutsideReferencesSurvive

-----------------------------------------------------------------------------
(* Caches                                                                  *)

\* Caches of the right kind that file under a resource only instances of it.
Filed(c, h) == c \in Cache /\ KeyedIn(c, h)

\* Every instance the caches hold is an object of the set used.
Within(c, used) ==
  /\ \A i \in Iris : c.identity[i] \in used \cup {None}
  /\ \A k \in HydrationKey : c.hydration[k] \in used \cup {None}

LEMMA NoneIsNoObject == None \notin Obj
  BY ItemAssumption

LEMMA EmptyCacheFiled == \A h : Filed(EmptyCache, h)
  BY DEF Filed, EmptyCache, Cache, KeyedIn, HydrationKey

LEMMA EmptyCacheWithin == \A used : Within(EmptyCache, used)
  BY DEF Within, EmptyCache

LEMMA DropHydrationFiled ==
  ASSUME NEW c, NEW h, NEW subjects, Filed(c, h)
  PROVE  Filed(DropHydration(c, subjects), h)
  BY DEF Filed, Cache, KeyedIn, HydrationKey, DropHydration

LEMMA DropIdentityFiled ==
  ASSUME NEW c, NEW h, NEW subjects, Filed(c, h)
  PROVE  Filed(DropIdentity(c, subjects), h)
  BY DEF Filed, Cache, KeyedIn, HydrationKey, DropIdentity

LEMMA ExpireKeysFiled ==
  ASSUME NEW c, NEW h, NEW subjects, Filed(c, h)
  PROVE  Filed(ExpireKeys(c, subjects), h)
  BY DropIdentityFiled, DropHydrationFiled DEF ExpireKeys

LEMMA ExpireKeysWithin ==
  ASSUME NEW c \in Cache, NEW used, NEW subjects, Within(c, used)
  PROVE  Within(ExpireKeys(c, subjects), used)
  BY DEF Within, ExpireKeys, DropIdentity, DropHydration, Cache

LEMMA DropHydrationWithin ==
  ASSUME NEW c \in Cache, NEW used, NEW subjects, Within(c, used)
  PROVE  Within(DropHydration(c, subjects), used)
  BY DEF Within, DropHydration, Cache

LEMMA SetHydrationFiled ==
  ASSUME NEW c, NEW h, NEW depth, NEW o \in Obj, Filed(c, h)
  PROVE  Filed(SetHydration(c, h[o].iri, depth, o), h)
  BY DEF Filed, Cache, KeyedIn, HydrationKey, SetHydration

LEMMA SetIdentityFiled ==
  ASSUME NEW c, NEW h, NEW o \in Obj, Filed(c, h)
  PROVE  Filed(SetIdentity(c, h[o].iri, o), h)
<1>1. Filed([c EXCEPT !.identity[h[o].iri] = o], h)
  BY DEF Filed, Cache, KeyedIn, HydrationKey
<1> QED
  BY <1>1, DropHydrationFiled DEF SetIdentity

LEMMA RegisterEmbeddedFiled ==
  ASSUME NEW c, NEW h, NEW o, Filed(c, h)
  PROVE  Filed(RegisterEmbedded(c, h, o), h)
<1> DEFINE identity ==
      [i \in Iris |-> IF Embedded(h, o, i) = {} THEN c.identity[i]
                       ELSE CHOOSE x \in Embedded(h, o, i) : TRUE]
<1>1. ASSUME NEW i \in Iris, NEW x \in Embedded(h, o, i)
      PROVE  x \in Obj /\ h[x].iri = i
  BY <1>1 DEF Embedded, Embeds, IriAt
<1>2. ASSUME NEW i \in Iris
      PROVE  /\ identity[i] \in Obj \cup {None}
             /\ identity[i] # None => h[identity[i]].iri = i
  <2>1. CASE Embedded(h, o, i) = {}
    BY <2>1 DEF Filed, Cache, KeyedIn
  <2>2. CASE Embedded(h, o, i) # {}
    <3>1. identity[i] \in Embedded(h, o, i)
      BY <2>2
    <3> QED
      BY <3>1, <1>1
  <2> QED
    BY <2>1, <2>2
<1> HIDE DEF identity
<1>3. identity \in [Iris -> Obj \cup {None}]
  BY <1>2 DEF identity
<1>4. Filed([c EXCEPT !.identity = identity], h)
  BY <1>2, <1>3 DEF Filed, Cache, KeyedIn
<1> QED
  BY <1>4, DropHydrationFiled DEF RegisterEmbedded, identity

LEMMA RegisterFiled ==
  ASSUME NEW c, NEW h, NEW o \in Obj, Filed(c, h)
  PROVE  Filed(Register(c, h, o), h)
  BY SetIdentityFiled, RegisterEmbeddedFiled DEF Register

\* Caches stay in order when the objects they hold keep their resource.
LEMMA SameIrisFiled ==
  ASSUME NEW c, NEW h1, NEW h2, NEW used, Filed(c, h1), Within(c, used),
         \A x \in used : h2[x].iri = h1[x].iri
  PROVE  Filed(c, h2)
  BY DEF Filed, Within, KeyedIn, HydrationKey

-----------------------------------------------------------------------------
(* Objects                                                                 *)

\* A collection keeps what the references of the next state reach.
LEMMA CollectKeeps ==
  ASSUME NEW h, h \in [Obj -> Node], Collect(h)
  PROVE  /\ heap' \in [Obj -> Node]
         /\ \A x \in Roots' \cap Obj : heap'[x] = h[x]
<1>1. Blank \in Node
  BY DEF Blank, Node, Item
<1>2. ASSUME NEW x \in Roots' \cap Obj PROVE x \in Reachable(h, Roots')
  BY <1>2 DEF Reachable
<1> QED
  BY <1>1, <1>2 DEF Collect

\* Objects, caches and the application's instance, with the contents h.
HeapOK(h, c, x) ==
  /\ h \in [Obj -> Node]
  /\ Filed(c, h)
  /\ x \in Obj \cup {None}
  /\ x # None => h[x].iri \in Iris

HeapInv == HeapOK(heap, cache, mine)

LEMMA CollectOK ==
  ASSUME NEW h, HeapOK(h, cache', mine'), Collect(h)
  PROVE  HeapInv'
<1> USE DEF HeapOK
<1>1. \A x \in Roots' \cap Obj : heap'[x] = h[x]
  BY CollectKeeps
<1>2. heap' \in [Obj -> Node]
  BY CollectKeeps
<1>3. KeyedIn(cache', heap')
  <2> SUFFICES ASSUME NEW i \in Iris
               PROVE  /\ cache'.identity[i] # None => heap'[cache'.identity[i]].iri = i
                      /\ \A d \in Depths : cache'.hydration[<<i, d>>] # None
                            => heap'[cache'.hydration[<<i, d>>]].iri = i
    BY DEF KeyedIn
  <2>1. cache'.identity[i] # None => cache'.identity[i] \in Roots' \cap Obj
    BY DEF Filed, Cache, Roots
  <2>2. ASSUME NEW d \in Depths, cache'.hydration[<<i, d>>] # None
        PROVE  cache'.hydration[<<i, d>>] \in Roots' \cap Obj
    BY <2>2 DEF Filed, Cache, Roots, HydrationKey
  <2> QED
    BY <1>1, <2>1, <2>2 DEF Filed, KeyedIn
<1>4. mine' # None => heap'[mine'].iri \in Iris
  BY <1>1 DEF Roots
<1> QED
  BY <1>2, <1>3, <1>4 DEF HeapInv, Filed

\* What the session and the application hold is used.
LEMMA HeldIsUsed ==
  ASSUME HeapInv
  PROVE  /\ Within(cache, Used)
         /\ mine \in Used \cup {None}
<1>1. \A x \in Roots \cap Obj : x \in Used
  BY DEF Used, Reachable
<1>2. \A i \in Iris : cache.identity[i] \in (Roots \cap Obj) \cup {None}
  BY DEF HeapInv, HeapOK, Filed, Cache, Roots
<1>3. \A k \in HydrationKey : cache.hydration[k] \in (Roots \cap Obj) \cup {None}
  BY DEF HeapInv, HeapOK, Filed, Cache, Roots
<1>4. mine \in (Roots \cap Obj) \cup {None}
  BY DEF HeapInv, HeapOK, Roots
<1> QED
  BY <1>1, <1>2, <1>3, <1>4 DEF Within

-----------------------------------------------------------------------------
(* Loads                                                                   *)

LoadedRow == [iri : Iris, name : Names \cup {None}, rel : Iris \cup {None, Unset}]

\* The loads of every resource start with a row about it.
LoadsOK(loads) ==
  \A i \in Iris : \A rows \in loads[i] :
    rows \in Seq(LoadedRow) /\ Len(rows) >= 1 /\ rows[1].iri = i

LEMMA LoadsStep ==
  ASSUME NEW g, NEW depth, NEW below, LoadsOK(below)
  PROVE  LoadsOK(LoadsAtDepth(g, depth, below))
<1> SUFFICES ASSUME NEW i \in Iris,
                    NEW rows \in LoadsFrom(g, i, RowItems(g, i, depth), below)
             PROVE  rows \in Seq(LoadedRow) /\ Len(rows) >= 1 /\ rows[1].iri = i
  BY DEF LoadsOK, LoadsAtDepth
<1>1. PICK n \in RowNames(g, i), t \in RowItems(g, i, depth) :
        rows \in IF t \in Iris /\ i \in Cascading /\ Typed(g, t)
                   THEN {<<Row(i, n, t)>> \o rest : rest \in below[t]}
                   ELSE {<<Row(i, n, t)>>}
  BY DEF LoadsFrom
<1>2. Row(i, n, t) \in LoadedRow /\ Row(i, n, t).iri = i
  BY DEF Row, LoadedRow, RowNames, NamesIn, RowItems, LinksIn
<1> DEFINE first == <<Row(i, n, t)>>
<1>3. first \in Seq(LoadedRow) /\ Len(first) = 1 /\ first[1].iri = i
  BY <1>2
<1>4. CASE rows = first
  BY <1>3, <1>4
<1>5. CASE t \in Iris /\ \E rest \in below[t] : rows = first \o rest
  <2>1. PICK rest \in below[t] : rows = first \o rest
    BY <1>5
  <2>2. rest \in Seq(LoadedRow)
    BY <1>5 DEF LoadsOK
  <2> HIDE DEF first
  <2>3. /\ rows \in Seq(LoadedRow) /\ Len(rows) = Len(first) + Len(rest)
        /\ \A k \in 1 .. Len(first) + Len(rest) :
             rows[k] = IF k <= Len(first) THEN first[k] ELSE rest[k - Len(first)]
    BY <1>3, <2>1, <2>2, ConcatProperties
  <2>4. Len(rest) \in Nat /\ 1 \in 1 .. 1 + Len(rest)
    BY <2>2
  <2> QED
    BY <1>3, <2>3, <2>4
<1> QED
  BY <1>1, <1>4, <1>5

LEMMA LoadsStartAtRoot ==
  ASSUME NEW g, NEW i \in Iris, NEW depth, NEW rows \in Loads(g, i, depth)
  PROVE  rows \in Seq(LoadedRow) /\ Len(rows) >= 1 /\ rows[1].iri = i
<1> DEFINE none == [j \in Iris |-> {}]
           flat == LoadsAtDepth(g, 0, none)
           near == LoadsAtDepth(g, 1, flat)
           deep == LoadsAtDepth(g, 2, near)
<1>1. LoadsOK(none)
  BY DEF LoadsOK
<1>2. rows \in flat[i] \/ rows \in near[i] \/ rows \in deep[i]
  BY DEF Loads
<1> HIDE DEF none
<1>3. LoadsOK(flat)
  BY <1>1, LoadsStep
<1> HIDE DEF flat
<1>4. LoadsOK(near)
  BY <1>3, LoadsStep
<1> HIDE DEF near
<1>5. LoadsOK(deep)
  BY <1>4, LoadsStep
<1> HIDE DEF deep
<1> QED
  BY <1>2, <1>3, <1>4, <1>5 DEF LoadsOK

\* A load writes its rows into objects.
LEMMA LoadedOK ==
  ASSUME NEW used, NEW rows, rows \in Seq(LoadedRow), Len(rows) >= 1,
         NEW new \in [1 .. Len(rows) -> Obj \ used], heap \in [Obj -> Node]
  PROVE  Loaded(heap, rows, new) \in [Obj -> Node]
<1>1. ASSUME NEW k \in 1 .. Len(rows)
      PROVE  [rows[k] EXCEPT !.rel = IF k < Len(rows) THEN new[k + 1] ELSE @] \in Node
  <2>1. rows[k] \in LoadedRow
    OBVIOUS
  <2>2. k < Len(rows) => new[k + 1] \in Obj
    OBVIOUS
  <2> QED
    BY <2>1, <2>2 DEF LoadedRow, Node, Item
<1>2. ASSUME NEW x \in Obj PROVE Loaded(heap, rows, new)[x] \in Node
  <2>1. CASE \E k \in DOMAIN new : new[k] = x
    <3> DEFINE k == CHOOSE k \in DOMAIN new : new[k] = x
    <3>1. k \in 1 .. Len(rows)
      BY <2>1
    <3>2. Loaded(heap, rows, new)[x]
            = [rows[k] EXCEPT !.rel = IF k < Len(rows) THEN new[k + 1] ELSE @]
      BY <2>1 DEF Loaded
    <3> HIDE DEF k
    <3> QED
      BY <1>1, <3>1, <3>2
  <2>2. CASE ~\E k \in DOMAIN new : new[k] = x
    BY <2>2 DEF Loaded
  <2> QED
    BY <2>1, <2>2
<1> QED
  BY <1>2 DEF Loaded

LEMMA UsedInObj == Used \subseteq Obj
  BY DEF Used, Reachable, ChainObjs

\* Loaded rows attached to the session leave objects and caches in order.
LEMMA AttachOK ==
  ASSUME NEW c, NEW g, NEW i \in Iris, NEW depth, NEW rows,
         rows \in Seq(LoadedRow), Len(rows) >= 1, rows[1].iri = i,
         NEW new \in Allocations(Len(rows), Used),
         HeapInv, Filed(c, heap), Within(c, Used), Attach(c, g, i, depth, rows, new)
  PROVE  HeapInv'
<1> DEFINE h1 == Loaded(heap, rows, new)
           x == c.identity[i]
           copy == Assigned(h1, {new[k] : k \in DOMAIN new})
           h2 == [copy EXCEPT ![x] = copy[new[1]]]
           expired == ExpireKeys(c, PutSubjects(h1, g, new[1]))
<1>1. /\ new \in [1 .. Len(rows) -> Obj \ Used]
      /\ \A j, k \in 1 .. Len(rows) : new[j] = new[k] => j = k
  BY DEF Allocations
<1>2. 1 \in 1 .. Len(rows) /\ new[1] \in Obj
  BY <1>1
<1>3. /\ h1 \in [Obj -> Node]
      /\ \A y \in Used : h1[y] = heap[y]
  <2>1. heap \in [Obj -> Node]
    BY DEF HeapInv, HeapOK
  <2>2. h1 \in [Obj -> Node]
    BY <1>1, <2>1, LoadedOK, Zenon
  <2>3. ASSUME NEW y \in Used PROVE h1[y] = heap[y]
    <3>1. \A k \in DOMAIN new : new[k] # y
      BY <1>1
    <3> QED
      BY <2>3, <3>1, UsedInObj DEF Loaded
  <2> QED
    BY <2>2, <2>3
<1>4. h1[new[1]].iri = i
  <2>1. \A k \in DOMAIN new : new[k] = new[1] => k = 1
    BY <1>1, <1>2
  <2>2. (CHOOSE k \in DOMAIN new : new[k] = new[1]) = 1
    BY <1>1, <1>2, <2>1
  <2>3. h1[new[1]] = [rows[1] EXCEPT !.rel = IF 1 < Len(rows) THEN new[1 + 1] ELSE @]
    BY <1>1, <1>2, <2>2 DEF Loaded
  <2>4. rows[1] \in LoadedRow
    BY <1>2
  <2> QED
    BY <2>3, <2>4 DEF LoadedRow
<1> HIDE DEF h1
<1>5. /\ copy \in [Obj -> Node]
      /\ \A y \in Obj : copy[y].iri = h1[y].iri
  BY <1>3 DEF Assigned, Node, Item
<1> HIDE DEF copy
<1>6. CASE x = None
  <2>1. mine' = new[1] /\ Collect(h1)
        /\ cache' = SetHydration(Register(c, h1, new[1]), i, depth, new[1])
    BY <1>6 DEF Attach, h1
  <2>2. Filed(c, h1)
    BY <1>3, SameIrisFiled
  <2>3. Filed(Register(c, h1, new[1]), h1)
    BY <1>2, <2>2, RegisterFiled
  <2>4. Filed(cache', h1)
    BY <1>2, <1>4, <2>1, <2>3, SetHydrationFiled
  <2>5. HeapOK(h1, cache', mine')
    BY <1>2, <1>3, <1>4, <2>1, <2>4 DEF HeapOK
  <2> QED
    BY <2>1, <2>5, CollectOK
<1>7. CASE x # None
  <2>1. mine' = x /\ Collect(h2)
        /\ cache' = SetHydration(Register(expired, h2, x), i, depth, x)
    BY <1>7 DEF Attach, h1, copy
  <2>2. x \in Used /\ x \in Obj /\ heap[x].iri = i
    BY <1>7, UsedInObj DEF Filed, KeyedIn, Within
  <2>3. h2 \in [Obj -> Node] /\ h2[x].iri = i
    BY <1>2, <1>4, <1>5, <2>2
  <2>4. \A y \in Used : h2[y].iri = heap[y].iri
    BY <1>2, <1>3, <1>4, <1>5, <2>2, UsedInObj
  <2>5. Filed(expired, heap)
    BY ExpireKeysFiled
  <2>6. Within(expired, Used)
    BY ExpireKeysWithin DEF Filed
  <2> HIDE DEF h2, expired, x
  <2>7. Filed(expired, h2)
    BY <2>4, <2>5, <2>6, SameIrisFiled
  <2>8. Filed(Register(expired, h2, x), h2)
    BY <2>2, <2>7, RegisterFiled
  <2>9. Filed(cache', h2)
    BY <2>1, <2>2, <2>3, <2>8, SetHydrationFiled
  <2>10. HeapOK(h2, cache', mine')
    BY <2>1, <2>2, <2>3, <2>9 DEF HeapOK
  <2> QED
    BY <2>1, <2>10, CollectOK
<1> QED
  BY <1>6, <1>7

-----------------------------------------------------------------------------
(* Reads                                                                   *)

\* A step that leaves the objects as they are.
LEMMA SameHeapOK ==
  ASSUME HeapInv, Filed(cache', heap), Collect(heap),
         mine' = mine \/ (mine' \in Obj /\ heap[mine'].iri \in Iris)
  PROVE  HeapInv'
  BY CollectOK DEF HeapInv, HeapOK

LEMMA AfterMissOK ==
  ASSUME NEW c, NEW g, NEW i, NEW depth, Filed(c, heap), Within(c, Used)
  PROVE  Filed(AfterMiss(c, g, i, depth), heap) /\ Within(AfterMiss(c, g, i, depth), Used)
  BY DropHydrationFiled, ExpireKeysFiled, DropHydrationWithin, ExpireKeysWithin
     DEF AfterMiss, Filed

LEMMA HydratesOK ==
  ASSUME NEW c, NEW g, NEW i \in Iris, NEW depth, HeapInv, Filed(c, heap), Within(c, Used),
         Hydrates(c, g, i, depth)
  PROVE  HeapInv'
<1>1. PICK rows \in Loads(g, i, depth) :
        \E new \in Allocations(Len(rows), Used) : Attach(c, g, i, depth, rows, new)
  BY DEF Hydrates
<1>2. PICK new \in Allocations(Len(rows), Used) : Attach(c, g, i, depth, rows, new)
  BY <1>1
<1>3. rows \in Seq(LoadedRow) /\ Len(rows) >= 1 /\ rows[1].iri = i
  BY LoadsStartAtRoot
<1> QED
  BY <1>2, <1>3, AttachOK

LEMMA HydrationRaisesOK ==
  ASSUME NEW c, NEW g, NEW i, NEW depth, HeapInv, Filed(c, heap),
         HydrationRaises(c, g, i, depth)
  PROVE  HeapInv'
  BY SameHeapOK DEF HydrationRaises

LEMMA LookupOK ==
  ASSUME NEW c, NEW g, NEW i \in Iris, NEW depth \in Depths, HeapInv,
         Filed(c, heap), Within(c, Used),
         LookupAnswers(c, g, i, depth) \/ LookupRaises(c, g, i, depth)
  PROVE  HeapInv'
<1> DEFINE c1 == AfterMiss(c, g, i, depth)
<1>1. Filed(c1, heap) /\ Within(c1, Used)
  BY AfterMissOK
<1>2. CASE /\ Hit(c, g, i, depth)
           /\ cache' = c /\ mine' = c.hydration[<<i, depth>>] /\ Collect(heap)
  <2>1. mine' \in Obj /\ heap[mine'].iri = i
    BY <1>2 DEF Hit, Filed, Cache, KeyedIn, HydrationKey
  <2> QED
    BY <1>2, <2>1, SameHeapOK
<1>3. CASE /\ Usable(c1, i, depth)
           /\ cache' = SetHydration(c1, i, depth, c1.identity[i])
           /\ mine' = c1.identity[i] /\ Collect(heap)
  <2>1. mine' \in Obj /\ heap[mine'].iri = i
    BY <1>1, <1>3 DEF Usable, Filed, Cache, KeyedIn
  <2>2. Filed(cache', heap)
    BY <1>1, <1>3, <2>1, SetHydrationFiled
  <2> QED
    BY <1>3, <2>1, <2>2, SameHeapOK
<1>4. CASE Hydrates(c1, g, i, depth)
  BY <1>1, <1>4, HydratesOK
<1>5. CASE cache' = ExpireKeys(c, {i}) /\ mine' = mine /\ Collect(heap)
  BY <1>5, ExpireKeysFiled, SameHeapOK
<1>6. CASE HydrationRaises(c1, g, i, depth)
  BY <1>1, <1>6, HydrationRaisesOK
<1> QED
  BY <1>2, <1>3, <1>4, <1>5, <1>6 DEF LookupAnswers, LookupRaises

LEMMA SyncedOK ==
  ASSUME NEW i, HeapInv
  PROVE  /\ Filed(Synced, heap) /\ Within(Synced, Used)
         /\ Filed(Evicted(Synced, i), heap) /\ Within(Evicted(Synced, i), Used)
<1>1. Filed(Synced, heap) /\ Within(Synced, Used)
  BY EmptyCacheFiled, EmptyCacheWithin, HeldIsUsed DEF Synced, HeapInv, HeapOK
<1> QED
  BY <1>1, ExpireKeysFiled, ExpireKeysWithin DEF Evicted, Filed

LEMMA GetOK ==
  ASSUME NEW i \in Iris, NEW depth \in Depths, HeapInv,
         GetAnswers(i, depth) \/ GetRaises(i, depth)
  PROVE  HeapInv'
<1>1. CASE LookupAnswers(Synced, graph, i, depth) \/ LookupRaises(Synced, graph, i, depth)
  BY <1>1, SyncedOK, LookupOK
<1>2. CASE \/ LookupAnswers(Evicted(Synced, i), Pulled(i), i, depth)
           \/ LookupRaises(Evicted(Synced, i), Pulled(i), i, depth)
  BY <1>2, SyncedOK, LookupOK
<1>3. CASE PullRaises(i)
  BY <1>3, SyncedOK, SameHeapOK DEF PullRaises
<1> QED
  BY <1>1, <1>2, <1>3 DEF GetAnswers, GetRaises

-----------------------------------------------------------------------------
(* Calls                                                                   *)

\* What is known of the call in progress; a call that works on an instance has
\* one, also after the flush in front of it.
ControlInv ==
  /\ moved \in BOOLEAN /\ closed \in BOOLEAN
  /\ pc \in {"idle", "flush", "body", "rows"}
  /\ call \in Calls
  /\ pc = "rows" => call.op = "all" /\ call.depth \in Depths
  /\ pc # "idle" /\ call.op \in OnInstance => mine # None

CoreInv == HeapInv /\ ControlInv

LEMMA OnInstanceHasOne ==
  ASSUME ControlInv, NEW op \in OnInstance, NEW c \in CallsOf(op), Runs(c)
  PROVE  mine # None
  BY DEF ControlInv, Runs, MayCall, CallsOf, Ready, OnInstance

LEMMA BodyHasOne ==
  ASSUME ControlInv, NEW op \in OnInstance, Body(op)
  PROVE  mine # None
  BY OnInstanceHasOne DEF Body

LEMMA CallsOfOK ==
  ASSUME NEW op \in Ops, NEW c \in CallsOf(op)
  PROVE  c \in Calls /\ c.op = op
<1>1. op \in AllOps /\ Depths \subseteq 0 .. 2
  BY OptionAssumption, ShapeAssumption
<1>2. c \in [op : {op}, iri : Iris \cup {None}, depth : Depths \cup {0}, left : SUBSET Iris]
  BY DEF CallsOf
<1>3. {op} \subseteq AllOps \cup {"none"} /\ Depths \cup {0} \subseteq 0 .. 2
  BY <1>1
<1> HIDE DEF AllOps
<1> QED
  BY <1>2, <1>3, Zenon DEF Calls

\* The contents that a merge of the application's instance onto y leaves.
Merged(new, y) ==
  LET h1 == Copied(heap, mine, new)
      rel == IF 1 \in DOMAIN new THEN new[1]
             ELSE IF heap[mine].rel = Unset THEN heap[y].rel
             ELSE heap[mine].rel
  IN  [h1 EXCEPT ![y].name = heap[mine].name, ![y].rel = rel]

\* Copies are written into new objects; of the used ones only y changes.
LEMMA MergedOK ==
  ASSUME heap \in [Obj -> Node], mine \in Obj, NEW y \in Used, NEW count,
         NEW new \in [1 .. count -> Obj \ Used], NEW h, h = Merged(new, y)
  PROVE  /\ h \in [Obj -> Node]
         /\ \A x \in Used : h[x].iri = heap[x].iri
         /\ \A x \in Used \ {y} : h[x] = heap[x]
<1> DEFINE h1 == Copied(heap, mine, new)
           rel == IF 1 \in DOMAIN new THEN new[1]
                  ELSE IF heap[mine].rel = Unset THEN heap[y].rel
                  ELSE heap[mine].rel
<1>1. y \in Obj
  BY UsedInObj
<1>2. rel \in Item
  <2>1. heap[mine] \in Node /\ heap[y] \in Node
    BY <1>1
  <2>2. 1 \in DOMAIN new => new[1] \in Obj
    OBVIOUS
  <2> QED
    BY <2>1, <2>2 DEF Node, Item
<1>3. h1 \in [Obj -> Node] /\ \A x \in Used : h1[x] = heap[x]
  <2>1. ASSUME NEW x \in Obj PROVE h1[x] \in Node
    <3> DEFINE at == {k \in Embeds(heap, mine) : k - 1 \in DOMAIN new /\ new[k - 1] = x}
               k == CHOOSE k \in at : TRUE
               link == IF k \in DOMAIN new THEN new[k] ELSE heap[Chain(heap, mine)[k]].rel
    <3>1. h1[x] = IF at = {} THEN heap[x]
                  ELSE [heap[Chain(heap, mine)[k]] EXCEPT !.rel = link]
      BY DEF Copied
    <3>2. CASE at = {}
      BY <3>1, <3>2
    <3>3. CASE at # {}
      <4>1. k \in Embeds(heap, mine)
        BY <3>3
      <4>2. heap[Chain(heap, mine)[k]] \in Node
        BY <4>1 DEF Embeds
      <4>3. k \in DOMAIN new => new[k] \in Obj
        OBVIOUS
      <4> HIDE DEF k
      <4>4. link \in Item
        BY <4>2, <4>3 DEF Node, Item
      <4> HIDE DEF link
      <4> QED
        BY <3>1, <3>3, <4>2, <4>4 DEF Node
    <3> QED
      BY <3>2, <3>3
  <2>2. ASSUME NEW x \in Used PROVE h1[x] = heap[x]
    <3>1. \A k \in DOMAIN new : new[k] # x
      OBVIOUS
    <3> QED
      BY <2>2, <3>1, UsedInObj DEF Copied
  <2> QED
    BY <2>1, <2>2 DEF Copied
<1>4. h = [h1 EXCEPT ![y].name = heap[mine].name, ![y].rel = rel]
  BY DEF Merged
<1> HIDE DEF h1, rel
<1>5. heap[mine].name \in Names \cup {None}
  BY DEF Node
<1> DEFINE h2 == [h1 EXCEPT ![y].name = heap[mine].name, ![y].rel = rel]
<1>6. h2 \in [Obj -> Node]
  BY <1>1, <1>2, <1>3, <1>5 DEF Node
<1>7. /\ \A x \in Used : h2[x].iri = heap[x].iri
      /\ \A x \in Used \ {y} : h2[x] = heap[x]
  BY <1>1, <1>3, <1>6, UsedInObj DEF Node
<1> HIDE DEF h2
<1> QED
  BY <1>4, <1>6, <1>7 DEF h2

\* A merge onto the identity of the resource, or into the identity map.
LEMMA MergeOK == CoreInv /\ Merge => HeapInv'
<1> SUFFICES ASSUME CoreInv, Merge PROVE HeapInv'
  OBVIOUS
<1> DEFINE i == MineIri
           y == cache.identity[i]
           below == Embeds(heap, mine) \ {1}
<1>1. mine # None /\ mine \in Obj /\ i \in Iris
  <2>1. mine # None
    BY BodyHasOne DEF Merge, OnInstance, CoreInv
  <2> QED
    BY <2>1 DEF CoreInv, HeapInv, HeapOK, MineIri
<1>2. heap \in [Obj -> Node] /\ Filed(cache, heap)
  BY DEF CoreInv, HeapInv, HeapOK
<1>3. CASE y = None
  <2>1. cache' = Register(cache, heap, mine) /\ mine' = mine /\ Collect(heap)
    BY <1>3 DEF Merge
  <2>2. Filed(cache', heap)
    BY <1>1, <1>2, <2>1, RegisterFiled
  <2> QED
    BY <2>1, <2>2, SameHeapOK DEF CoreInv
<1>4. CASE y # None
  <2>1. PICK new \in Allocations(Cardinality(below), Used) :
          /\ cache' = RegisterEmbedded(DropHydration(cache, {i}), Merged(new, y), y)
          /\ mine' = y
          /\ Collect(Merged(new, y))
    BY <1>4 DEF Merge, Merged
  <2> DEFINE h == Merged(new, y)
             count == Cardinality(below)
  <2>2. y \in Obj /\ y \in Used /\ heap[y].iri = i
    <3>1. y \in Used \cup {None}
      BY <1>1, HeldIsUsed DEF CoreInv, Within
    <3> QED
      BY <1>1, <1>2, <1>4, <3>1 DEF Filed, Cache, KeyedIn
  <2>3. new \in [1 .. count -> Obj \ Used]
    BY DEF Allocations
  <2>4. h \in [Obj -> Node] /\ \A x \in Used : h[x].iri = heap[x].iri
    <3>1. h = Merged(new, y)
      OBVIOUS
    <3> HIDE DEF h, y, count
    <3> QED
      BY <1>1, <1>2, <2>2, <2>3, <3>1, MergedOK
  <2> HIDE DEF h
  <2>5. Filed(cache, h)
    BY <1>2, <2>4, HeldIsUsed, SameIrisFiled DEF CoreInv
  <2>6. Filed(cache', h)
    BY <2>1, <2>5, DropHydrationFiled, RegisterEmbeddedFiled DEF h
  <2>7. HeapOK(h, cache', mine')
    BY <1>1, <2>1, <2>2, <2>4, <2>6 DEF HeapOK
  <2> QED
    BY <2>1, <2>7, CollectOK DEF h
<1> QED
  BY <1>3, <1>4

\* The application constructs an instance, or assigns to a field of the one it has.
LEMMA EditsOK == CoreInv /\ (New \/ Edit) => HeapInv'
<1> SUFFICES ASSUME CoreInv, New \/ Edit PROVE HeapInv'
  OBVIOUS
<1>1. /\ heap \in [Obj -> Node] /\ Filed(cache, heap) /\ cache' = cache
      /\ mine \in Obj \cup {None}
  BY DEF CoreInv, HeapInv, HeapOK, New, Edit
<1>2. ASSUME NEW i \in Iris PROVE Children[i] \subseteq Iris
  BY <1>2, ShapeAssumption
<1>3. CASE New
  <2>1. PICK new \in Allocations(1, Used), i \in Iris, n \in Names :
          \E t \in {Unset} \cup Children[i] \cup (IF mine # None THEN {mine} ELSE {}) :
            /\ mine' = new[1]
            /\ Collect([heap EXCEPT ![new[1]] = [iri |-> i, name |-> n, rel |-> t]])
    BY <1>3 DEF New
  <2> PICK t \in {Unset} \cup Children[i] \cup (IF mine # None THEN {mine} ELSE {}) :
        /\ mine' = new[1]
        /\ Collect([heap EXCEPT ![new[1]] = [iri |-> i, name |-> n, rel |-> t]])
    BY <2>1
  <2> DEFINE h == [heap EXCEPT ![new[1]] = [iri |-> i, name |-> n, rel |-> t]]
  <2>2. new[1] \in Obj \ Used
    BY DEF Allocations
  <2>3. [iri |-> i, name |-> n, rel |-> t] \in Node
    BY <1>1, <1>2 DEF Node, Item
  <2>4. /\ h \in [Obj -> Node] /\ h[new[1]].iri = i
        /\ \A x \in Used : h[x].iri = heap[x].iri
    BY <1>1, <2>2, <2>3
  <2> HIDE DEF h
  <2>5. Filed(cache', h)
    BY <1>1, <2>4, HeldIsUsed, SameIrisFiled DEF CoreInv
  <2>6. HeapOK(h, cache', mine')
    BY <2>2, <2>4, <2>5 DEF HeapOK
  <2> QED
    BY <2>6, CollectOK DEF h
<1>4. CASE Edit
  <2>1. mine # None /\ mine' = mine /\ mine \in Obj /\ MineIri \in Iris
    BY <1>4 DEF Edit, CoreInv, HeapInv, HeapOK, MineIri
  <2>2. ASSUME NEW h \in [Obj -> Node], \A x \in Obj : h[x].iri = heap[x].iri, Collect(h)
        PROVE  HeapInv'
    <3>1. Filed(cache', h)
      BY <1>1, <2>2, UsedInObj, HeldIsUsed, SameIrisFiled DEF CoreInv
    <3>2. HeapOK(h, cache', mine')
      BY <2>1, <2>2, <3>1 DEF HeapOK, MineIri
    <3> QED
      BY <2>2, <3>2, CollectOK
  <2>3. ASSUME NEW n \in Names, Collect([heap EXCEPT ![mine].name = n]) PROVE HeapInv'
    <3> DEFINE h == [heap EXCEPT ![mine].name = n]
    <3>1. h \in [Obj -> Node] /\ \A x \in Obj : h[x].iri = heap[x].iri
      BY <1>1, <2>1 DEF Node
    <3> HIDE DEF h
    <3> QED
      BY <2>2, <2>3, <3>1 DEF h
  <2>4. ASSUME NEW t \in {None} \cup Children[MineIri], Collect([heap EXCEPT ![mine].rel = t])
        PROVE  HeapInv'
    <3> DEFINE h == [heap EXCEPT ![mine].rel = t]
    <3>1. t \in Item
      BY <1>2, <2>1 DEF Item
    <3>2. h \in [Obj -> Node] /\ \A x \in Obj : h[x].iri = heap[x].iri
      BY <1>1, <2>1, <3>1 DEF Node
    <3> HIDE DEF h
    <3> QED
      BY <2>2, <2>4, <3>2 DEF h
  <2> QED
    BY <1>4, <2>3, <2>4 DEF Edit
<1> QED
  BY <1>3, <1>4

LEMMA HeapInvStep == CoreInv /\ [Next]_vars => HeapInv'
<1> SUFFICES ASSUME CoreInv, [Next]_vars PROVE HeapInv'
  OBVIOUS
<1>1. HeapInv /\ Filed(cache, heap) /\ mine \in Obj \cup {None}
  BY DEF CoreInv, HeapInv, HeapOK
<1>2. ASSUME NEW x \in Obj, PutSucceeds(x) \/ PutFails(x) PROVE Filed(cache', heap)
  <2>1. CASE cache' = cache
    BY <1>1, <2>1
  <2>2. CASE PutSucceeds(x)
    BY <1>1, <2>2, ExpireKeysFiled, RegisterFiled DEF PutSucceeds
  <2> QED
    BY <1>2, <2>1, <2>2 DEF PutFails
<1>3. CASE UNCHANGED <<heap, cache, mine>>
  BY <1>1, <1>3 DEF HeapInv, HeapOK, Filed, KeyedIn
<1>4. CASE New \/ Edit
  BY <1>4, EditsOK
<1>5. CASE FlushPut \/ FlushRaises
  BY <1>1, <1>2, <1>5, SameHeapOK DEF FlushPut, FlushRaises
<1>6. CASE FlushDone \/ Rollback \/ ExitError
  BY <1>1, <1>6, SameHeapOK DEF FlushDone, Rollback, ExitError
<1>7. CASE Put
  <2>1. mine \in Obj
    BY <1>1, <1>7, BodyHasOne DEF Put, OnInstance, CoreInv
  <2> QED
    BY <1>1, <1>2, <1>7, <2>1, SameHeapOK DEF Put
<1>8. CASE Queue \/ Delete \/ Expire \/ Expunge
  BY <1>1, <1>8, ExpireKeysFiled, SameHeapOK DEF Queue, Delete, Expire, Expunge
<1>9. CASE Add
  <2>1. mine \in Obj
    BY <1>1, <1>9, BodyHasOne DEF Add, OnInstance, CoreInv
  <2>2. Filed(ExpireKeys(Register(cache, heap, mine), DeleteSubjects(heap, mine)), heap)
    BY <1>1, <2>1, RegisterFiled, ExpireKeysFiled
  <2> QED
    BY <1>1, <1>9, <2>2, SameHeapOK DEF Add
<1>10. CASE Get
  <2>1. PICK c \in CallsOf("get") : GetAnswers(c.iri, c.depth) \/ GetRaises(c.iri, c.depth)
    BY <1>10 DEF Get
  <2>2. c.iri \in Iris /\ c.depth \in Depths
    BY DEF CallsOf
  <2> QED
    BY <1>1, <2>1, <2>2, GetOK
<1>11. CASE HydrateRow
  <2>1. PICK i \in call.left : GetAnswers(i, call.depth) \/ GetRaises(i, call.depth)
    BY <1>11 DEF HydrateRow
  <2>2. i \in Iris /\ call.depth \in Depths
    BY <1>11 DEF HydrateRow, CoreInv, ControlInv, Calls
  <2> QED
    BY <1>1, <2>1, <2>2, GetOK
<1>12. CASE Select
  BY <1>1, <1>12, SyncedOK, SameHeapOK DEF Select
<1>13. CASE Refresh
  <2>1. PICK c \in CallsOf("refresh") :
          /\ Runs(c)
          /\ \/ NoPull(MineIri) /\ Reload(Synced, graph, MineIri, c.depth)
             \/ /\ PullAnswers(MineIri)
                /\ Reload(Evicted(Synced, MineIri), Pulled(MineIri), MineIri, c.depth)
             \/ PullRaises(MineIri)
    BY <1>13 DEF Refresh
  <2>2. MineIri \in Iris
    BY <1>1, <2>1, OnInstanceHasOne DEF OnInstance, CoreInv, HeapInv, HeapOK, MineIri
  <2>3. ASSUME NEW d, NEW g, Filed(d, heap), Within(d, Used), Reload(d, g, MineIri, c.depth)
        PROVE  HeapInv'
    BY <1>1, <2>2, <2>3, HydratesOK, HydrationRaisesOK, SameHeapOK DEF Reload
  <2>4. CASE PullRaises(MineIri)
    BY <1>1, <2>4, SyncedOK, SameHeapOK DEF PullRaises
  <2> QED
    BY <1>1, <2>1, <2>3, <2>4, SyncedOK
<1>14. CASE Merge
  BY <1>14, MergeOK
<1>15. CASE ExpungeAll
  BY <1>1, <1>15, EmptyCacheFiled, SameHeapOK DEF ExpungeAll
<1>16. CASE Restart
  BY <1>16, EmptyCacheFiled DEF Restart, HeapInv, HeapOK, Blank, Node, Item
<1>17. CASE BeginFlush \/ SelectRaises \/ RowsDone \/ Execute \/ FlushCall \/ Close \/ Exit
            \/ SyncMirror \/ ForeignWrite \/ UNCHANGED vars
  BY <1>3, <1>17
     DEF BeginFlush, SelectRaises, RowsDone, Execute, FlushCall, Close, Exit, SyncMirror,
         ForeignWrite, vars
<1> QED
  BY <1>4, <1>5, <1>6, <1>7, <1>8, <1>9, <1>10, <1>11, <1>12, <1>13, <1>14, <1>15,
     <1>16, <1>17
  DEF Next, CallStep

LEMMA ControlInvStep == CoreInv /\ [Next]_vars => ControlInv'
<1> SUFFICES ASSUME CoreInv, [Next]_vars PROVE ControlInv'
  OBVIOUS
<1>1. ControlInv
  BY DEF CoreInv
<1>2. NoCall \in Calls
  BY DEF NoCall, Calls
<1>3. ASSUME moved' \in BOOLEAN, closed' \in BOOLEAN, Return PROVE ControlInv'
  BY <1>2, <1>3 DEF ControlInv, Return
<1>4. ASSUME moved' = moved \/ moved' \in BOOLEAN, closed' = closed,
             UNCHANGED <<pc, call, mine>>
      PROVE  ControlInv'
  BY <1>1, <1>4 DEF ControlInv
<1>5. CASE BeginFlush
  <2>1. PICK op \in Ops : MayCall(op) /\ call' \in CallsOf(op)
    BY <1>5 DEF BeginFlush
  <2>2. call' \in Calls /\ call'.op = op
    BY <2>1, CallsOfOK
  <2> QED
    BY <1>1, <1>5, <2>1, <2>2 DEF BeginFlush, ControlInv, MayCall, store
<1>6. CASE FlushPut \/ UNCHANGED vars \/ SyncMirror \/ ForeignWrite
  BY <1>4, <1>6 DEF FlushPut, vars, store, SyncMirror, ForeignWrite
<1>7. CASE FlushRaises
  BY <1>1, <1>2, <1>7 DEF FlushRaises, ControlInv
<1>8. CASE FlushDone
  BY <1>1, <1>8 DEF FlushDone, ControlInv, store
<1>9. CASE Put \/ Queue \/ Add \/ Delete \/ SelectRaises \/ RowsDone \/ Execute \/ Merge
           \/ Expire \/ Expunge \/ ExpungeAll \/ FlushCall \/ Rollback
  BY <1>1, <1>3, <1>9
     DEF Put, Queue, Add, Delete, SelectRaises, RowsDone, Execute, Merge, Expire, Expunge,
         ExpungeAll, FlushCall, Rollback, ControlInv, store
<1>10. CASE Get \/ Refresh
  BY <1>1, <1>3, <1>10
     DEF Get, Refresh, GetAnswers, GetRaises, NoPull, PullAnswers, PullRaises, ControlInv
<1>11. CASE Select
  <2>1. PICK c \in CallsOf("all") : Runs(c) /\ \E found \in SUBSET Iris :
          call' = [c EXCEPT !.left = found]
    BY <1>11 DEF Select
  <2>2. c \in [op : {"all"}, iri : {None}, depth : Depths, left : {{}}]
    BY DEF CallsOf
  <2>3. /\ call' \in [op : {"all"}, iri : {None}, depth : Depths, left : SUBSET Iris]
    BY <2>1, <2>2
  <2>4. call' \in Calls /\ call'.op = "all" /\ call'.depth \in Depths
    BY <2>3, ShapeAssumption DEF Calls, AllOps
  <2> QED
    BY <1>1, <1>11, <2>4 DEF Select, ControlInv, OnInstance
<1>12. CASE HydrateRow
  <2>1. moved' \in BOOLEAN /\ closed' = closed
    BY <1>1, <1>12 DEF HydrateRow, GetAnswers, GetRaises, NoPull, PullAnswers, PullRaises
  <2>2. CASE call' = NoCall /\ pc' = "idle"
    BY <1>1, <1>2, <2>1, <2>2 DEF ControlInv
  <2>3. CASE (\E i \in call.left : call' = [call EXCEPT !.left = @ \ {i}]) /\ pc' = pc
    <3>1. call' \in Calls /\ call'.op = "all" /\ call'.depth \in Depths
      BY <1>1, <1>12, <2>3 DEF HydrateRow, ControlInv, Calls
    <3> QED
      BY <1>1, <1>12, <2>1, <2>3, <3>1 DEF HydrateRow, ControlInv, OnInstance
  <2> QED
    BY <1>12, <2>2, <2>3 DEF HydrateRow
<1>13. CASE Close \/ Exit \/ ExitError
  <2>1. closed' \in BOOLEAN
    BY <1>13, OptionAssumption DEF Close, Exit, ExitError
  <2> QED
    BY <1>1, <1>3, <1>13, <2>1 DEF Close, Exit, ExitError, ControlInv, store
<1>14. CASE New \/ Edit
  BY <1>1, <1>14 DEF New, Edit, Ready, ControlInv, store
<1>15. CASE Restart
  BY <1>2, <1>15 DEF Restart, ControlInv
<1> QED
  BY <1>5, <1>6, <1>7, <1>8, <1>9, <1>10, <1>11, <1>12, <1>13, <1>14, <1>15
     DEF Next, CallStep

LEMMA CoreInvHolds == Spec => []CoreInv
<1>1. Init => CoreInv
  <2> SUFFICES ASSUME Init PROVE CoreInv
    OBVIOUS
  <2>1. HeapInv
    BY EmptyCacheFiled DEF Init, HeapInv, HeapOK, Blank, Node, Item
  <2>2. ControlInv
    <3>1. NoCall \in Calls
      BY DEF NoCall, Calls
    <3> QED
      BY <3>1 DEF Init, ControlInv
  <2> QED
    BY <2>1, <2>2 DEF CoreInv
<1>2. CoreInv /\ [Next]_vars => CoreInv'
  BY HeapInvStep, ControlInvStep DEF CoreInv
<1> QED
  BY <1>1, <1>2, PTL DEF Spec

\* Whatever is called, loaded and collected, the objects, the caches, the call in
\* progress and the instance the application holds are of their kinds.
THEOREM CoreTypeCorrect == Spec => []CoreTypeOK
<1>1. CoreInv => CoreTypeOK
  BY DEF CoreInv, HeapInv, HeapOK, Filed, ControlInv, CoreTypeOK
<1> QED
  BY <1>1, CoreInvHolds, PTL

\* The identity map and the hydration cache never answer with an instance of
\* another resource, for every class shape, depth and store
\* (session_state.SessionState).
THEOREM CachesAlwaysKeyed == Spec => []CachesKeyed
<1>1. CoreInv => CachesKeyed
  BY DEF CoreInv, HeapInv, HeapOK, Filed, CachesKeyed
<1> QED
  BY <1>1, CoreInvHolds, PTL

-----------------------------------------------------------------------------
(* The two caches agree                                                    *)

\* What a cache holds for a depth is the identity of the resource.
Agree(c) ==
  \A i \in Iris, d \in Depths :
    c.hydration[<<i, d>>] # None => c.hydration[<<i, d>>] = c.identity[i]

LEMMA EmptyCacheAgrees == Agree(EmptyCache)
  BY DEF Agree, EmptyCache, HydrationKey

LEMMA DropHydrationAgrees ==
  ASSUME NEW c \in Cache, NEW subjects, Agree(c)
  PROVE  DropHydration(c, subjects) \in Cache /\ Agree(DropHydration(c, subjects))
  BY DEF Agree, DropHydration, Cache, HydrationKey

LEMMA ExpireKeysAgrees ==
  ASSUME NEW c \in Cache, NEW subjects, Agree(c)
  PROVE  ExpireKeys(c, subjects) \in Cache /\ Agree(ExpireKeys(c, subjects))
<1> DEFINE c1 == DropIdentity(c, subjects)
<1>1. /\ c1 \in Cache /\ c1.hydration = c.hydration
      /\ \A i \in Iris \ subjects : c1.identity[i] = c.identity[i]
  BY DEF DropIdentity, Cache
<1> HIDE DEF c1
<1>2. ExpireKeys(c, subjects) = DropHydration(c1, subjects)
  BY DEF ExpireKeys, c1
<1> QED
  BY <1>1, <1>2 DEF Agree, DropHydration, Cache, HydrationKey

LEMMA SetIdentityAgrees ==
  ASSUME NEW c \in Cache, NEW i, NEW o \in Obj, Agree(c)
  PROVE  SetIdentity(c, i, o) \in Cache /\ Agree(SetIdentity(c, i, o))
<1> DEFINE c1 == [c EXCEPT !.identity[i] = o]
<1>1. /\ c1 \in Cache /\ c1.hydration = c.hydration
      /\ \A j \in Iris \ {i} : c1.identity[j] = c.identity[j]
  BY DEF Cache
<1> HIDE DEF c1
<1>2. SetIdentity(c, i, o) = DropHydration(c1, {i})
  BY DEF SetIdentity, c1
<1> QED
  BY <1>1, <1>2 DEF Agree, DropHydration, Cache, HydrationKey

LEMMA EmbeddedInObj ==
  ASSUME NEW h, NEW o, NEW i
  PROVE  Embedded(h, o, i) \subseteq Obj
  BY DEF Embedded, Embeds

LEMMA RegisterEmbeddedAgrees ==
  ASSUME NEW c \in Cache, NEW h, NEW o, Agree(c)
  PROVE  RegisterEmbedded(c, h, o) \in Cache /\ Agree(RegisterEmbedded(c, h, o))
<1> DEFINE identity ==
      [i \in Iris |-> IF Embedded(h, o, i) = {} THEN c.identity[i]
                       ELSE CHOOSE x \in Embedded(h, o, i) : TRUE]
           c1 == [c EXCEPT !.identity = identity]
           found == {i \in Iris : Embedded(h, o, i) # {}}
<1>1. /\ c1 \in Cache /\ c1.hydration = c.hydration
      /\ \A i \in Iris \ found : c1.identity[i] = c.identity[i]
  <2>1. identity \in [Iris -> Obj \cup {None}]
    BY EmbeddedInObj DEF Cache
  <2>2. \A i \in Iris \ found : identity[i] = c.identity[i]
    OBVIOUS
  <2> HIDE DEF identity, found
  <2> QED
    BY <2>1, <2>2 DEF Cache
<1>2. RegisterEmbedded(c, h, o) = DropHydration(c1, found)
  BY DEF RegisterEmbedded
<1> HIDE DEF c1, found
<1> QED
  BY <1>1, <1>2 DEF Agree, DropHydration, Cache, HydrationKey

LEMMA RegisterAgrees ==
  ASSUME NEW c \in Cache, NEW h, NEW o \in Obj, Agree(c)
  PROVE  Register(c, h, o) \in Cache /\ Agree(Register(c, h, o))
  BY SetIdentityAgrees, RegisterEmbeddedAgrees DEF Register

LEMMA SetHydrationAgrees ==
  ASSUME NEW c \in Cache, NEW i \in Iris, NEW d \in Depths, NEW o \in Obj, Agree(c),
         c.identity[i] = o
  PROVE  Agree(SetHydration(c, i, d, o)) /\ SetHydration(c, i, d, o).hydration[<<i, d>>] = o
  BY DEF Agree, SetHydration, Cache, HydrationKey

\* An object that embeds no other one of its own resource becomes its identity.
LEMMA RegisterIdentity ==
  ASSUME NEW c \in Cache, NEW h, NEW o \in Obj, NEW i \in Iris, h[o].iri = i,
         Embedded(h, o, i) = {}
  PROVE  Register(c, h, o).identity[i] = o
  BY DEF Register, RegisterEmbedded, SetIdentity, DropHydration, Cache

-----------------------------------------------------------------------------
(* Loaded objects                                                          *)

\* Rows written into new objects form a line of them, and leave the used ones.
LEMMA LoadedLine ==
  ASSUME NEW rows, rows \in Seq(LoadedRow), Len(rows) >= 1, heap \in [Obj -> Node],
         NEW new \in Allocations(Len(rows), Used),
         NEW h, h = Loaded(heap, rows, new), NEW L, L = Len(rows)
  PROVE  /\ h \in [Obj -> Node]
         /\ new \in [1 .. L -> Obj \ Used] /\ L \in Nat /\ L <= Cardinality(Obj)
         /\ \A k \in 1 .. L : h[new[k]].iri = rows[k].iri /\ h[new[k]].name = rows[k].name
         /\ \A k \in 1 .. L - 1 : h[new[k]].rel = new[k + 1]
         /\ h[new[L]].rel = rows[L].rel /\ rows[L].rel \notin Obj
         /\ \A y \in Used : h[y] = heap[y]
<1>1. /\ new \in [1 .. L -> Obj \ Used]
      /\ \A j, k \in 1 .. L : new[j] = new[k] => j = k
  BY DEF Allocations
<1>2. L \in Nat /\ L \in 1 .. L /\ \A k \in 1 .. L : rows[k] \in LoadedRow
  BY ElementOfSeq
<1>3. h \in [Obj -> Node]
  BY <1>1, LoadedOK
<1>4. L <= Cardinality(Obj)
  BY <1>1, <1>2, DistinctObjects
<1>5. ASSUME NEW k \in 1 .. L
      PROVE  h[new[k]] = [rows[k] EXCEPT !.rel = IF k < L THEN new[k + 1] ELSE rows[k].rel]
  <2>1. \E j \in DOMAIN new : new[j] = new[k]
    BY <1>1
  <2>2. (CHOOSE j \in DOMAIN new : new[j] = new[k]) = k
    BY <1>1
  <2> QED
    BY <1>1, <2>1, <2>2 DEF Loaded
<1>6. ASSUME NEW k \in 1 .. L
      PROVE  /\ h[new[k]].iri = rows[k].iri /\ h[new[k]].name = rows[k].name
             /\ h[new[k]].rel = IF k < L THEN new[k + 1] ELSE rows[k].rel
  <2>1. rows[k] \in LoadedRow
    BY <1>2
  <2> QED
    BY <1>5, <2>1 DEF LoadedRow
<1>7. rows[L].rel \notin Obj
  <2>1. rows[L] \in LoadedRow
    BY <1>2
  <2> QED
    BY <2>1, ItemAssumption DEF LoadedRow
<1>8. ASSUME NEW y \in Used PROVE h[y] = heap[y]
  <2>1. \A k \in DOMAIN new : new[k] # y
    BY <1>1
  <2> QED
    BY <1>8, <2>1, UsedInObj DEF Loaded
<1>9. \A k \in 1 .. L - 1 : h[new[k]].rel = new[k + 1]
  BY <1>2, <1>6
<1>10. h[new[L]].rel = rows[L].rel
  BY <1>2, <1>6
<1> QED
  BY <1>1, <1>2, <1>3, <1>4, <1>6, <1>7, <1>8, <1>9, <1>10

\* A line of objects of different resources embeds none of the first one's.
LEMMA LineEmbedsOthers ==
  ASSUME NEW h \in [Obj -> Node], NEW L \in Nat, L >= 1, L <= Cardinality(Obj),
         NEW b \in [1 .. L -> Obj], h[b[L]].rel \notin Obj,
         \A k \in 1 .. L - 1 : h[b[k]].rel = b[k + 1],
         NEW i, \A k \in 2 .. L : h[b[k]].iri # i
  PROVE  Embedded(h, b[1], i) = {}
<1>1. /\ Embeds(h, b[1]) = 1 .. L
      /\ \A k \in 1 .. L : IriAt(h, b[1], k) = h[b[k]].iri
  BY LineIsChain
<1>2. \A n \in 1 .. L : n # 1 => n \in 2 .. L
  OBVIOUS
<1>3. \A n \in Embeds(h, b[1]) \ {1} : IriAt(h, b[1], n) # i
  BY <1>1, <1>2
<1> QED
  BY <1>3 DEF Embedded

\* A loaded instance copied onto an object x: the contents that Attach leaves.
Onto(rows, new, x) ==
  LET copy == Assigned(Loaded(heap, rows, new), {new[k] : k \in DOMAIN new})
  IN  [copy EXCEPT ![x] = copy[new[1]]]

\* They form a line from x, and of the used objects only x changes.
LEMMA OntoLine ==
  ASSUME NEW rows, rows \in Seq(LoadedRow), Len(rows) >= 1, heap \in [Obj -> Node],
         NEW new \in Allocations(Len(rows), Used), NEW x \in Used,
         NEW h, h = Onto(rows, new, x), NEW L, L = Len(rows)
  PROVE  /\ h \in [Obj -> Node]
         /\ \A y \in Used \ {x} : h[y] = heap[y]
         /\ \A y \in Obj \ {x} :
              h[y] # Loaded(heap, rows, new)[y] => y \in {new[k] : k \in 1 .. L}
         /\ \E b \in [1 .. L -> Obj] :
              /\ b[1] = x
              /\ \A k \in 2 .. L : b[k] = new[k]
              /\ \A k \in 1 .. L : h[b[k]].iri = rows[k].iri /\ h[b[k]].name = rows[k].name
              /\ \A k \in 1 .. L - 1 : h[b[k]].rel = b[k + 1]
              /\ h[b[L]].rel \in {rows[L].rel, None} \ Obj
              /\ h[b[L]].rel # rows[L].rel => rows[L].rel = Unset
<1> DEFINE h1 == Loaded(heap, rows, new)
           objs == {new[k] : k \in DOMAIN new}
           copy == Assigned(h1, objs)
           b == [k \in 1 .. L |-> IF k = 1 THEN x ELSE new[k]]
<1>0. h = [copy EXCEPT ![x] = copy[new[1]]]
  BY DEF Onto
<1>1. /\ h1 \in [Obj -> Node]
      /\ new \in [1 .. L -> Obj \ Used] /\ L \in Nat /\ L <= Cardinality(Obj)
      /\ \A k \in 1 .. L : h1[new[k]].iri = rows[k].iri /\ h1[new[k]].name = rows[k].name
      /\ \A k \in 1 .. L - 1 : h1[new[k]].rel = new[k + 1]
      /\ h1[new[L]].rel = rows[L].rel /\ rows[L].rel \notin Obj
      /\ \A y \in Used : h1[y] = heap[y]
  BY LoadedLine
<1>2. x \in Obj /\ 1 \in 1 .. L /\ L \in 1 .. L
  BY <1>1, UsedInObj
<1> HIDE DEF h1
<1>3. /\ copy \in [Obj -> Node]
      /\ \A y \in Obj : copy[y] = IF y \in objs /\ h1[y].rel = Unset
                                       /\ HasRelationship(h1[y].iri)
                                    THEN [h1[y] EXCEPT !.rel = None] ELSE h1[y]
  <2>1. \A y \in Obj : [h1[y] EXCEPT !.rel = None] \in Node
    BY <1>1 DEF Node, Item
  <2> QED
    BY <1>1, <2>1 DEF Assigned
<1>4. ASSUME NEW y \in Obj
      PROVE  /\ copy[y].iri = h1[y].iri /\ copy[y].name = h1[y].name
             /\ copy[y].rel \in {h1[y].rel, None}
             /\ h1[y].rel # Unset => copy[y].rel = h1[y].rel
  <2>1. h1[y] \in Node
    BY <1>1
  <2> QED
    BY <1>3, <2>1 DEF Node
<1>5. \A y \in Used : copy[y] = heap[y]
  <2>1. \A y \in Used : y \notin objs
    BY <1>1
  <2> QED
    BY <1>1, <1>3, <2>1, UsedInObj
<1>6. \A y \in Obj : copy[y] # h1[y] => y \in {new[k] : k \in 1 .. L}
  <2>1. objs = {new[k] : k \in 1 .. L}
    BY <1>1
  <2> QED
    BY <1>3, <2>1
<1> HIDE DEF copy, objs
<1>7. /\ h \in [Obj -> Node] /\ h[x] = copy[new[1]]
      /\ \A y \in Obj \ {x} : h[y] = copy[y]
  <2>1. copy \in [Obj -> Node] /\ copy[new[1]] \in Node
    BY <1>1, <1>2, <1>3
  <2> QED
    BY <1>0, <1>2, <2>1
<1>8. /\ b \in [1 .. L -> Obj] /\ b[1] = x
      /\ \A k \in 1 .. L : k # 1 => b[k] = new[k]
  BY <1>1, <1>2
<1>b. \A k \in 2 .. L : b[k] = new[k]
  BY <1>1, <1>8
<1> HIDE DEF b
<1>9. \A k \in 1 .. L : h[b[k]] = copy[new[k]]
  BY <1>1, <1>2, <1>7, <1>8
<1>10. ASSUME NEW k \in 1 .. L - 1 PROVE h[b[k]].rel = b[k + 1]
  <2>1. k \in 1 .. L /\ k + 1 \in 1 .. L /\ k + 1 # 1
    BY <1>1
  <2>2. h1[new[k]].rel = new[k + 1] /\ new[k + 1] \in Obj /\ new[k] \in Obj
    BY <1>1, <2>1
  <2>3. copy[new[k]].rel = new[k + 1]
    BY <1>4, <2>2, ItemAssumption
  <2> QED
    BY <1>8, <1>9, <2>1, <2>3
<1>11. /\ h[b[L]].rel \in {rows[L].rel, None} \ Obj
       /\ h[b[L]].rel # rows[L].rel => rows[L].rel = Unset
  <2>1. new[L] \in Obj /\ h[b[L]] = copy[new[L]]
    BY <1>1, <1>2, <1>9
  <2> QED
    BY <1>1, <1>4, <2>1, NoneIsNoObject
<1>12. \A k \in 1 .. L : h[b[k]].iri = rows[k].iri /\ h[b[k]].name = rows[k].name
  BY <1>1, <1>4, <1>9
<1>13. /\ \A y \in Used \ {x} : h[y] = heap[y]
       /\ \A y \in Obj \ {x} : h[y] # h1[y] => y \in {new[k] : k \in 1 .. L}
  BY <1>5, <1>6, <1>7, UsedInObj
<1> QED
  BY <1>7, <1>8, <1>b, <1>10, <1>11, <1>12, <1>13 DEF h1

\* A read at a depth hands out what the caches then hold for it: the identity that
\* caches c have of the resource, if any.
HandsOut(c, i, depth) ==
  /\ cache'.hydration[<<i, depth>>] = mine'
  /\ c.identity[i] # None => mine' = c.identity[i]

\* A load that does not raise makes one instance the identity of its resource and
\* what the cache answers with for the depth asked for: the known one if there is one.
LEMMA AttachAgrees ==
  ASSUME NEW c, NEW g, NEW i \in Iris, NEW depth \in Depths, NEW rows,
         rows \in Seq(LoadedRow), Len(rows) >= 1, rows[1].iri = i, ~LoadRaises(rows),
         NEW new \in Allocations(Len(rows), Used),
         HeapInv, Filed(c, heap), Within(c, Used), Agree(c),
         Attach(c, g, i, depth, rows, new)
  PROVE  Agree(cache') /\ HandsOut(c, i, depth)
<1> DEFINE h1 == Loaded(heap, rows, new)
           L == Len(rows)
           x == c.identity[i]
           h2 == Onto(rows, new, x)
           expired == ExpireKeys(c, PutSubjects(h1, g, new[1]))
<1>1. heap \in [Obj -> Node] /\ c \in Cache
  BY DEF HeapInv, HeapOK, Filed
<1>2. L \in Nat /\ \A k \in 2 .. L : rows[k].iri # i
  BY DEF LoadRaises
<1>3. CASE x = None
  <2>1. mine' = new[1] /\ cache' = SetHydration(Register(c, h1, new[1]), i, depth, new[1])
    BY <1>3 DEF Attach
  <2>2. /\ h1 \in [Obj -> Node]
        /\ new \in [1 .. L -> Obj \ Used] /\ L \in Nat /\ L <= Cardinality(Obj)
        /\ \A k \in 1 .. L : h1[new[k]].iri = rows[k].iri /\ h1[new[k]].name = rows[k].name
        /\ \A k \in 1 .. L - 1 : h1[new[k]].rel = new[k + 1]
        /\ h1[new[L]].rel = rows[L].rel /\ rows[L].rel \notin Obj
        /\ \A y \in Used : h1[y] = heap[y]
    BY <1>1, LoadedLine
  <2> HIDE DEF h1, L
  <2>3. new[1] \in Obj /\ h1[new[1]].iri = i /\ new \in [1 .. L -> Obj]
    BY <1>2, <2>2 DEF L
  <2>4. \A k \in 2 .. L : h1[new[k]].iri # i
    BY <1>2, <2>2
  <2>5. Embedded(h1, new[1], i) = {}
    BY <1>2, <2>2, <2>3, <2>4, LineEmbedsOthers DEF L
  <2>6. Register(c, h1, new[1]).identity[i] = new[1]
    BY <1>1, <2>3, <2>5, RegisterIdentity
  <2>7. Register(c, h1, new[1]) \in Cache /\ Agree(Register(c, h1, new[1]))
    BY <1>1, <2>3, RegisterAgrees
  <2> QED
    BY <1>3, <2>1, <2>3, <2>6, <2>7, SetHydrationAgrees DEF HandsOut
<1>4. CASE x # None
  <2>1. mine' = x /\ cache' = SetHydration(Register(expired, h2, x), i, depth, x)
    BY <1>4 DEF Attach, Onto
  <2>2. x \in Used /\ x \in Obj
    BY <1>4, UsedInObj DEF Within
  <2> HIDE DEF x
  <2>3. h2 \in [Obj -> Node]
    BY <1>1, <2>2, OntoLine
  <2>b. \E b \in [1 .. L -> Obj] :
          /\ b[1] = x
          /\ \A k \in 2 .. L : b[k] = new[k]
          /\ \A k \in 1 .. L : h2[b[k]].iri = rows[k].iri /\ h2[b[k]].name = rows[k].name
          /\ \A k \in 1 .. L - 1 : h2[b[k]].rel = b[k + 1]
          /\ h2[b[L]].rel \in {rows[L].rel, None} \ Obj
          /\ h2[b[L]].rel # rows[L].rel => rows[L].rel = Unset
    BY <1>1, <2>2, OntoLine, SMTT(30)
  <2> PICK b \in [1 .. L -> Obj] :
        /\ b[1] = x
        /\ \A k \in 1 .. L : h2[b[k]].iri = rows[k].iri
        /\ \A k \in 1 .. L - 1 : h2[b[k]].rel = b[k + 1]
        /\ h2[b[L]].rel \notin Obj
    BY <2>b
  <2>4. L <= Cardinality(Obj)
    BY <1>1, LoadedLine
  <2>5. Agree(expired) /\ expired \in Cache
    BY <1>1, ExpireKeysAgrees
  <2> HIDE DEF h2, L, expired
  <2>6. h2[x].iri = i
    BY <1>2, <2>3 DEF L
  <2>7. \A k \in 2 .. L : h2[b[k]].iri # i
    BY <1>2, <2>3
  <2>8. Embedded(h2, x, i) = {}
    BY <1>2, <2>3, <2>4, <2>7, LineEmbedsOthers DEF L
  <2>9. Register(expired, h2, x).identity[i] = x
    BY <2>2, <2>5, <2>6, <2>8, RegisterIdentity
  <2>10. Register(expired, h2, x) \in Cache /\ Agree(Register(expired, h2, x))
    BY <2>2, <2>5, <2>6, RegisterAgrees
  <2> QED
    BY <2>1, <2>2, <2>9, <2>10, SetHydrationAgrees DEF HandsOut, x
<1> QED
  BY <1>3, <1>4

-----------------------------------------------------------------------------
(* Reads                                                                   *)

LEMMA AfterMissAgrees ==
  ASSUME NEW c \in Cache, NEW g, NEW i, NEW depth, Agree(c)
  PROVE  /\ AfterMiss(c, g, i, depth) \in Cache /\ Agree(AfterMiss(c, g, i, depth))
         /\ Typed(g, i) => AfterMiss(c, g, i, depth).identity = c.identity
<1>1. DropHydration(c, {i}).identity = c.identity
  BY DEF DropHydration, Cache
<1> QED
  BY <1>1, DropHydrationAgrees, ExpireKeysAgrees DEF AfterMiss

LEMMA HydratesAgrees ==
  ASSUME NEW c, NEW g, NEW i \in Iris, NEW depth \in Depths, HeapInv, Filed(c, heap),
         Within(c, Used), Agree(c), Hydrates(c, g, i, depth)
  PROVE  Agree(cache') /\ HandsOut(c, i, depth)
<1>1. PICK rows \in Loads(g, i, depth) :
        /\ ~LoadRaises(rows)
        /\ \E new \in Allocations(Len(rows), Used) : Attach(c, g, i, depth, rows, new)
  BY DEF Hydrates
<1>2. PICK new \in Allocations(Len(rows), Used) : Attach(c, g, i, depth, rows, new)
  BY <1>1
<1>3. rows \in Seq(LoadedRow) /\ Len(rows) >= 1 /\ rows[1].iri = i
  BY LoadsStartAtRoot
<1> QED
  BY <1>1, <1>2, <1>3, AttachAgrees

LEMMA LookupAgrees ==
  ASSUME NEW c, NEW g, NEW i \in Iris, NEW depth \in Depths, HeapInv,
         Filed(c, heap), Within(c, Used), Agree(c),
         LookupAnswers(c, g, i, depth) \/ LookupRaises(c, g, i, depth)
  PROVE  Agree(cache') /\ (mine' = mine \/ HandsOut(c, i, depth))
<1> DEFINE c1 == AfterMiss(c, g, i, depth)
<1>1. /\ c \in Cache /\ c1 \in Cache /\ Agree(c1)
      /\ Filed(c1, heap) /\ Within(c1, Used)
      /\ Typed(g, i) => c1.identity = c.identity
  BY AfterMissAgrees, AfterMissOK DEF Filed
<1> HIDE DEF c1
<1>2. CASE /\ Hit(c, g, i, depth)
           /\ cache' = c /\ mine' = c.hydration[<<i, depth>>]
  BY <1>2 DEF Hit, Agree, HandsOut
<1>3. CASE /\ Typed(g, i) /\ Usable(c1, i, depth)
           /\ cache' = SetHydration(c1, i, depth, c1.identity[i])
           /\ mine' = c1.identity[i]
  <2>1. c1.identity[i] \in Obj
    BY <1>1, <1>3 DEF Usable, Cache
  <2>2. Agree(cache') /\ cache'.hydration[<<i, depth>>] = mine'
    BY <1>1, <1>3, <2>1, SetHydrationAgrees
  <2> QED
    BY <1>1, <1>3, <2>2 DEF HandsOut
<1>4. CASE Typed(g, i) /\ Hydrates(c1, g, i, depth)
  <2>1. Agree(cache') /\ HandsOut(c1, i, depth)
    BY <1>1, <1>4, HydratesAgrees
  <2> QED
    BY <1>1, <1>4, <2>1 DEF HandsOut
<1>5. CASE cache' = ExpireKeys(c, {i}) /\ mine' = mine
  BY <1>1, <1>5, ExpireKeysAgrees DEF HandsOut
<1>6. CASE HydrationRaises(c1, g, i, depth)
  BY <1>1, <1>6 DEF HydrationRaises
<1> QED
  BY <1>2, <1>3, <1>4, <1>5, <1>6 DEF LookupAnswers, LookupRaises, c1

LEMMA SyncedAgrees ==
  ASSUME NEW i, HeapInv, Agree(cache)
  PROVE  Agree(Synced) /\ Agree(Evicted(Synced, i))
<1>1. Agree(Synced) /\ Synced \in Cache
  BY EmptyCacheAgrees, SyncedOK DEF Synced, Filed
<1> QED
  BY <1>1, ExpireKeysAgrees DEF Evicted

LEMMA GetAgrees ==
  ASSUME NEW i \in Iris, NEW depth \in Depths, HeapInv, Agree(cache),
         GetAnswers(i, depth) \/ GetRaises(i, depth)
  PROVE  /\ Agree(cache')
         /\ ~PullNeeded(i) => mine' = mine \/ HandsOut(Synced, i, depth)
<1>1. CASE LookupAnswers(Synced, graph, i, depth) \/ LookupRaises(Synced, graph, i, depth)
  BY <1>1, SyncedOK, SyncedAgrees, LookupAgrees
<1>2. CASE PullNeeded(i) /\ (\/ LookupAnswers(Evicted(Synced, i), Pulled(i), i, depth)
                             \/ LookupRaises(Evicted(Synced, i), Pulled(i), i, depth))
  BY <1>2, SyncedOK, SyncedAgrees, LookupAgrees
<1>3. CASE PullRaises(i)
  BY <1>3, SyncedAgrees DEF PullRaises
<1> QED
  BY <1>1, <1>2, <1>3 DEF GetAnswers, GetRaises, PullAnswers

LEMMA RefreshAgrees ==
  ASSUME HeapInv, Agree(cache), MineIri \in Iris, Refresh
  PROVE  /\ Agree(cache')
         /\ ~PullNeeded(MineIri) => mine' = mine \/ \E d \in Depths : HandsOut(Synced, MineIri, d)
<1>1. PICK c \in CallsOf("refresh") :
        \/ NoPull(MineIri) /\ Reload(Synced, graph, MineIri, c.depth)
        \/ /\ PullAnswers(MineIri)
           /\ Reload(Evicted(Synced, MineIri), Pulled(MineIri), MineIri, c.depth)
        \/ PullRaises(MineIri)
  BY DEF Refresh
<1>0. c.depth \in Depths
  BY DEF CallsOf
<1>2. ASSUME NEW d, NEW g, Filed(d, heap), Within(d, Used), Agree(d),
             Reload(d, g, MineIri, c.depth)
      PROVE  Agree(cache') /\ (mine' = mine \/ HandsOut(d, MineIri, c.depth))
  BY <1>0, <1>2, HydratesAgrees DEF Reload, HydrationRaises
<1>3. CASE PullRaises(MineIri)
  BY <1>3, SyncedAgrees DEF PullRaises
<1> QED
  BY <1>0, <1>1, <1>2, <1>3, SyncedOK, SyncedAgrees DEF PullAnswers

-----------------------------------------------------------------------------
(* One instance per resource                                               *)

\* The application's instance has a resource whenever a call works on it.
LEMMA HoldsOne ==
  ASSUME CoreInv, NEW op \in OnInstance, NEW c \in CallsOf(op), Runs(c)
  PROVE  mine \in Obj /\ MineIri \in Iris
  BY OnInstanceHasOne DEF CoreInv, HeapInv, HeapOK, MineIri

LEMMA MergeAgrees == CoreInv /\ Agree(cache) /\ Merge => Agree(cache')
<1> SUFFICES ASSUME CoreInv, Agree(cache), Merge PROVE Agree(cache')
  OBVIOUS
<1>1. mine \in Obj /\ heap[mine].iri \in Iris /\ cache \in Cache
  BY HoldsOne DEF Merge, Body, OnInstance, MineIri, CoreInv, HeapInv, HeapOK, Filed
<1>2. CASE cache' = Register(cache, heap, mine)
  BY <1>1, <1>2, RegisterAgrees
<1>3. CASE \E h, y : cache' = RegisterEmbedded(DropHydration(cache, {MineIri}), h, y)
  BY <1>1, <1>3, DropHydrationAgrees, RegisterEmbeddedAgrees
<1> QED
  BY <1>2, <1>3 DEF Merge

LEMMA AgreeStep == CoreInv /\ Agree(cache) /\ [Next]_vars => Agree(cache')
<1> SUFFICES ASSUME CoreInv, Agree(cache), [Next]_vars PROVE Agree(cache')
  OBVIOUS
<1>1. HeapInv /\ cache \in Cache /\ Filed(cache, heap)
  BY DEF CoreInv, HeapInv, HeapOK, Filed
<1>2. ASSUME NEW x \in Obj, PutSucceeds(x) \/ PutFails(x) PROVE Agree(cache')
  BY <1>1, <1>2, ExpireKeysAgrees, RegisterAgrees DEF PutSucceeds, PutFails
<1>3. CASE cache' = cache \/ cache' = EmptyCache
  BY <1>3, EmptyCacheAgrees
<1>4. CASE Queue \/ Delete \/ Expire \/ Expunge
  BY <1>1, <1>4, ExpireKeysAgrees DEF Queue, Delete, Expire, Expunge
<1>5. CASE FlushPut \/ FlushRaises
  BY <1>2, <1>5 DEF FlushPut, FlushRaises
<1>6. CASE Put
  <2>1. mine \in Obj
    BY <1>6, HoldsOne DEF Put, Body, OnInstance
  <2> QED
    BY <1>2, <1>6, <2>1 DEF Put
<1>7. CASE Add
  <2>1. mine \in Obj
    BY <1>7, HoldsOne DEF Add, Body, OnInstance
  <2> QED
    BY <1>1, <1>7, <2>1, RegisterAgrees, ExpireKeysAgrees DEF Add
<1>8. CASE Get
  <2>1. PICK c \in CallsOf("get") : GetAnswers(c.iri, c.depth) \/ GetRaises(c.iri, c.depth)
    BY <1>8 DEF Get
  <2>2. c.iri \in Iris /\ c.depth \in Depths
    BY DEF CallsOf
  <2> QED
    BY <1>1, <2>1, <2>2, GetAgrees
<1>9. CASE HydrateRow
  <2>1. PICK i \in call.left : GetAnswers(i, call.depth) \/ GetRaises(i, call.depth)
    BY <1>9 DEF HydrateRow
  <2>2. i \in Iris /\ call.depth \in Depths
    BY <1>9 DEF HydrateRow, CoreInv, ControlInv, Calls
  <2> QED
    BY <1>1, <2>1, <2>2, GetAgrees
<1>10. CASE Select
  BY <1>1, <1>10, SyncedAgrees DEF Select
<1>11. CASE Refresh
  <2>1. MineIri \in Iris
    BY <1>11, HoldsOne DEF Refresh, OnInstance
  <2> QED
    BY <1>1, <1>11, <2>1, RefreshAgrees
<1>12. CASE Merge
  BY <1>12, MergeAgrees
<1>13. CASE New \/ Edit \/ SyncMirror \/ ForeignWrite \/ Restart \/ BeginFlush \/ FlushDone
            \/ SelectRaises \/ RowsDone \/ Execute \/ ExpungeAll \/ FlushCall \/ Rollback
            \/ Close \/ Exit \/ ExitError \/ UNCHANGED vars
  BY <1>3, <1>13
     DEF New, Edit, SyncMirror, ForeignWrite, Restart, BeginFlush, FlushDone, SelectRaises,
         RowsDone, Execute, ExpungeAll, FlushCall, Rollback, Close, Exit, ExitError, vars
<1> QED
  BY <1>4, <1>5, <1>6, <1>7, <1>8, <1>9, <1>10, <1>11, <1>12, <1>13 DEF Next, CallStep

LEMMA AgreeHolds == Spec => []Agree(cache)
<1>1. Init => Agree(cache)
  BY EmptyCacheAgrees DEF Init
<1>2. CoreInv /\ Agree(cache) /\ [Next]_vars => Agree(cache)'
  BY AgreeStep DEF Agree
<1> QED
  BY <1>1, <1>2, CoreInvHolds, PTL DEF Spec

\* Whichever depth a get asks for, one resource has one instance: no load at another
\* depth, merge or embedded object leaves a hydration entry that is not the identity
\* of its resource (session_core.get_impl, session_state.set_identity).
THEOREM HydrationAlwaysIdentity == Spec => []HydrationIsIdentity
<1>1. Agree(cache) => HydrationIsIdentity
  BY DEF Agree, HydrationIsIdentity
<1> QED
  BY <1>1, AgreeHolds, PTL

-----------------------------------------------------------------------------
(* Instances over a store in memory                                        *)

\* A store in memory never bumps its generation.
Settled == StoreMode = "memory" => moved = FALSE

LEMMA SettledStep == Settled /\ [Next]_vars => Settled'
<1> SUFFICES ASSUME Settled, [Next]_vars, StoreMode = "memory" PROVE moved' = FALSE
  BY DEF Settled
<1>1. moved = FALSE /\ ~Http /\ \A i : ~PullNeeded(i)
  BY DEF Settled, Http, PullNeeded
<1>2. CASE Get \/ Refresh \/ HydrateRow
  BY <1>1, <1>2
     DEF Get, Refresh, HydrateRow, GetAnswers, GetRaises, NoPull, PullAnswers, PullRaises
<1>3. CASE Put \/ Queue \/ Add \/ Delete \/ SelectRaises \/ Execute \/ Merge
           \/ Expunge \/ ExpungeAll \/ FlushCall \/ Rollback \/ Expire \/ Close \/ Exit
           \/ ExitError \/ RowsDone \/ Select
  BY <1>1, <1>3
     DEF Put, Queue, Add, Delete, SelectRaises, Execute, Merge, Expunge, ExpungeAll,
         FlushCall, Rollback, Expire, Close, Exit, ExitError, RowsDone, Select, store
<1>4. CASE BeginFlush \/ FlushPut \/ FlushRaises \/ FlushDone \/ New \/ Edit \/ SyncMirror
           \/ ForeignWrite \/ Restart \/ UNCHANGED vars
  BY <1>1, <1>4
     DEF BeginFlush, FlushPut, FlushRaises, FlushDone, New, Edit, SyncMirror, ForeignWrite,
         Restart, vars, store
<1> QED
  BY <1>2, <1>3, <1>4 DEF Next, CallStep

\* What a step hands out is of a resource, and is its instance if it had one.
LEMMA KeepsInstance ==
  ASSUME StoreMode = "memory", CoreInv, CoreInv', Agree(cache), Settled, [Next]_vars,
         mine' \notin {mine, None}, ~New, cache.identity[heap'[mine'].iri] # None
  PROVE  mine' = cache.identity[heap'[mine'].iri]
<1>1. HeapInv /\ Synced = cache /\ \A i : ~PullNeeded(i)
  BY DEF CoreInv, Settled, Synced, PullNeeded, Http
<1>2. mine' \in Obj /\ heap'[mine'].iri \in Iris
  BY DEF CoreInv, HeapInv, HeapOK
<1>3. ASSUME NEW i \in Iris, NEW d \in Depths, HandsOut(cache, i, d)
      PROVE  mine' = cache.identity[heap'[mine'].iri]
  <2>1. heap'[mine'].iri = i
    BY <1>2, <1>3, NoneIsNoObject DEF HandsOut, CoreInv, HeapInv, HeapOK, Filed, KeyedIn
  <2> QED
    BY <1>3, <2>1 DEF HandsOut
<1>4. CASE Get
  <2>1. PICK c \in CallsOf("get") : GetAnswers(c.iri, c.depth) \/ GetRaises(c.iri, c.depth)
    BY <1>4 DEF Get
  <2>2. c.iri \in Iris /\ c.depth \in Depths
    BY DEF CallsOf
  <2> QED
    BY <1>1, <1>3, <2>1, <2>2, GetAgrees
<1>5. CASE HydrateRow
  <2>1. PICK i \in call.left : GetAnswers(i, call.depth) \/ GetRaises(i, call.depth)
    BY <1>5 DEF HydrateRow
  <2>2. i \in Iris /\ call.depth \in Depths
    BY <1>5 DEF HydrateRow, CoreInv, ControlInv, Calls
  <2> QED
    BY <1>1, <1>3, <2>1, <2>2, GetAgrees
<1>6. CASE Refresh
  <2>1. MineIri \in Iris
    BY <1>6, HoldsOne DEF Refresh, OnInstance
  <2> QED
    BY <1>1, <1>3, <1>6, <2>1, RefreshAgrees
<1>7. CASE Merge
  <2> DEFINE y == cache.identity[MineIri]
             count == Cardinality(Embeds(heap, mine) \ {1})
  <2>1. mine \in Obj /\ MineIri \in Iris
    BY <1>7, HoldsOne DEF Merge, Body, OnInstance
  <2>2. PICK new \in Allocations(count, Used) :
          y # None /\ mine' = y /\ Collect(Merged(new, y))
    BY <1>7 DEF Merge, Merged
  <2>3. heap \in [Obj -> Node] /\ y \in Used /\ heap[y].iri = MineIri
    BY <1>1, <2>1, <2>2, HeldIsUsed DEF HeapInv, HeapOK, Filed, KeyedIn, Within
  <2>4. new \in [1 .. count -> Obj \ Used]
    BY DEF Allocations
  <2> HIDE DEF y, count
  <2> DEFINE h == Merged(new, y)
  <2>5. h \in [Obj -> Node] /\ \A x \in Used : h[x].iri = heap[x].iri
    <3>1. h = Merged(new, y)
      OBVIOUS
    <3> HIDE DEF h
    <3> QED
      BY <2>1, <2>3, <2>4, <3>1, MergedOK
  <2> HIDE DEF h
  <2>6. heap'[mine'] = h[mine']
    <3>1. Collect(h) /\ mine' \in Roots'
      BY <2>2 DEF Roots, h
    <3> QED
      BY <1>2, <2>5, <3>1, CollectKeeps
  <2> QED
    BY <2>2, <2>3, <2>5, <2>6 DEF y
<1>8. CASE Put \/ Queue \/ Add \/ Delete \/ SelectRaises \/ Execute \/ Expunge
           \/ ExpungeAll \/ FlushCall \/ Rollback \/ Expire \/ Close \/ Exit
           \/ ExitError \/ RowsDone \/ Select
  BY <1>8
     DEF Put, Queue, Add, Delete, SelectRaises, Execute, Expunge,
         ExpungeAll, FlushCall, Rollback, Expire, Close, Exit, ExitError, RowsDone, Select
<1>9. CASE BeginFlush \/ FlushPut \/ FlushRaises \/ FlushDone \/ Edit \/ SyncMirror
           \/ ForeignWrite \/ Restart \/ UNCHANGED vars
  BY <1>9
     DEF BeginFlush, FlushPut, FlushRaises, FlushDone, Edit, SyncMirror, ForeignWrite,
         Restart, vars
<1> QED
  BY <1>4, <1>5, <1>6, <1>7, <1>8, <1>9 DEF Next, CallStep

\* Over a store in memory a get, refresh, merge or query hands out the instance the
\* session already has of a resource, whatever was loaded, merged, expunged and
\* freed before (session_core.get_impl, refresh_impl, merge_impl).
THEOREM InstancesKept == StoreMode = "memory" => (Spec => InstanceKept)
<1> SUFFICES ASSUME StoreMode = "memory" PROVE Spec => InstanceKept
  OBVIOUS
<1>1. Init => Settled
  BY DEF Init, Settled
<1>2. CoreInv /\ CoreInv' /\ Agree(cache) /\ Settled /\ [Next]_vars
        => [LET known == cache.identity[heap'[mine'].iri]
            IN  mine' \notin {mine, None} /\ known # None /\ ~New => mine' = known]_vars
  BY KeepsInstance
<1> QED
  BY <1>1, <1>2, SettledStep, CoreInvHolds, AgreeHolds, PTL DEF Spec, InstanceKept

-----------------------------------------------------------------------------
(* Reads that forget what they knew and ask the endpoint                    *)

\* Rows say of their resources what the graph says, and each is about the resource
\* that the one before it links.
Says(g, rows) ==
  \A k \in 1 .. Len(rows) :
    /\ rows[k].name # None => rows[k].name \in NamesIn(g, rows[k].iri)
    /\ {rows[k].rel} \cap Iris \subseteq LinksIn(g, rows[k].iri)
    /\ k < Len(rows) => /\ rows[k].rel \in Iris /\ rows[k + 1].iri = rows[k].rel
                        /\ HasRelationship(rows[k].iri) /\ Typed(g, rows[k].rel)

AllSay(g, loads) == \A i \in Iris : \A rows \in loads[i] : Says(g, rows)

LEMMA LoadSays ==
  ASSUME NEW g, NEW depth, NEW below, LoadsOK(below), AllSay(g, below), NEW i \in Iris,
         NEW rows \in LoadsFrom(g, i, RowItems(g, i, depth), below)
  PROVE  Says(g, rows)
<1>1. PICK n \in RowNames(g, i), t \in RowItems(g, i, depth) :
        rows \in IF t \in Iris /\ i \in Cascading /\ Typed(g, t)
                   THEN {<<Row(i, n, t)>> \o rest : rest \in below[t]}
                   ELSE {<<Row(i, n, t)>>}
  BY DEF LoadsFrom
<1> DEFINE first == <<Row(i, n, t)>>
<1>2. /\ first \in Seq(LoadedRow) /\ Len(first) = 1
      /\ first[1].iri = i /\ first[1].name = n /\ first[1].rel = t
  <2>1. Row(i, n, t) \in LoadedRow
    BY DEF Row, LoadedRow, RowNames, NamesIn, RowItems, LinksIn
  <2> QED
    BY <2>1 DEF Row
<1>3. n # None => n \in NamesIn(g, i)
  BY DEF RowNames
<1>4. {t} \cap Iris \subseteq LinksIn(g, i) /\ (t \in Iris => HasRelationship(i))
  BY ItemAssumption DEF RowItems
<1>5. CASE rows = first
  <2>1. Len(rows) = 1 /\ rows[1].iri = i /\ rows[1].name = n /\ rows[1].rel = t
    BY <1>2, <1>5
  <2>2. \A k \in 1 .. Len(rows) : k = 1 /\ ~(k < Len(rows))
    BY <2>1
  <2> QED
    BY <1>3, <1>4, <2>1, <2>2 DEF Says
<1>6. CASE t \in Iris /\ Typed(g, t) /\ \E rest \in below[t] : rows = first \o rest
  <2>1. PICK rest \in below[t] : rows = first \o rest
    BY <1>6
  <2>2. rest \in Seq(LoadedRow) /\ Len(rest) >= 1 /\ rest[1].iri = t /\ Says(g, rest)
    BY <1>6 DEF LoadsOK, AllSay
  <2> HIDE DEF first
  <2>3. /\ Len(rows) = Len(first) + Len(rest)
        /\ \A k \in 1 .. Len(first) + Len(rest) :
             rows[k] = IF k <= Len(first) THEN first[k] ELSE rest[k - Len(first)]
    BY <1>2, <2>1, <2>2, ConcatProperties
  <2> DEFINE M == Len(rest)
  <2>4. M \in Nat /\ M >= 1 /\ Len(rows) = 1 + M
    BY <1>2, <2>2, <2>3
  <2>5. rows[1] = first[1] /\ \A k \in 1 .. M : rows[k + 1] = rest[k]
    <3>1. \A k \in 1 .. 1 + M : rows[k] = IF k <= 1 THEN first[k] ELSE rest[k - 1]
      BY <1>2, <2>3
    <3> HIDE DEF M
    <3>2. 1 \in 1 .. 1 + M /\ \A k \in 1 .. M : k + 1 \in 1 .. 1 + M /\ ~(k + 1 <= 1) /\ k + 1 - 1 = k
      BY <2>4
    <3> QED
      BY <3>1, <3>2
  <2>6. \A k \in 1 .. M :
          /\ rest[k].name # None => rest[k].name \in NamesIn(g, rest[k].iri)
          /\ {rest[k].rel} \cap Iris \subseteq LinksIn(g, rest[k].iri)
          /\ k < M => /\ rest[k].rel \in Iris /\ rest[k + 1].iri = rest[k].rel
                      /\ HasRelationship(rest[k].iri) /\ Typed(g, rest[k].rel)
    BY <2>2 DEF Says
  <2> HIDE DEF M
  <2> SUFFICES ASSUME NEW k \in 1 .. 1 + M
               PROVE  /\ rows[k].name # None => rows[k].name \in NamesIn(g, rows[k].iri)
                      /\ {rows[k].rel} \cap Iris \subseteq LinksIn(g, rows[k].iri)
                      /\ k < 1 + M =>
                           /\ rows[k].rel \in Iris /\ rows[k + 1].iri = rows[k].rel
                           /\ HasRelationship(rows[k].iri) /\ Typed(g, rows[k].rel)
    BY <2>4 DEF Says
  <2>7. CASE k = 1
    <3>1. 1 \in 1 .. M /\ rows[2] = rest[1]
      <4>1. 1 \in 1 .. M
        BY <2>4
      <4>2. rows[1 + 1] = rest[1]
        BY <2>5, <4>1
      <4> QED
        BY <4>1, <4>2
    <3>2. /\ rows[k].iri = i /\ rows[k].name = n /\ rows[k].rel = t
          /\ rows[k + 1].iri = t
      BY <1>2, <2>2, <2>5, <2>7, <3>1
    <3> QED
      BY <1>3, <1>4, <1>6, <3>2
  <2>8. CASE k # 1
    <3>1. PICK j \in 1 .. M : k = j + 1
      <4>1. k - 1 \in 1 .. M /\ k = (k - 1) + 1
        BY <2>4, <2>8
      <4> QED
        BY <4>1
    <3>2. rows[k] = rest[j]
      BY <2>5, <3>1
    <3>3. k < 1 + M => j < M /\ j + 1 \in 1 .. M
      BY <2>4, <3>1
    <3>4. k < 1 + M => rows[k + 1] = rest[j + 1]
      BY <2>5, <3>1, <3>3
    <3> QED
      BY <2>6, <3>2, <3>3, <3>4
  <2> QED
    BY <2>7, <2>8
<1> QED
  BY <1>1, <1>5, <1>6

LEMMA LoadsSay ==
  ASSUME NEW g, NEW i \in Iris, NEW depth, NEW rows \in Loads(g, i, depth)
  PROVE  Says(g, rows)
<1> DEFINE none == [j \in Iris |-> {}]
           flat == LoadsAtDepth(g, 0, none)
           near == LoadsAtDepth(g, 1, flat)
           deep == LoadsAtDepth(g, 2, near)
<1>1. LoadsOK(none) /\ AllSay(g, none)
  BY DEF LoadsOK, AllSay
<1>2. ASSUME NEW d, NEW below, LoadsOK(below), AllSay(g, below)
      PROVE  /\ LoadsOK(LoadsAtDepth(g, d, below)) /\ AllSay(g, LoadsAtDepth(g, d, below))
  BY <1>2, LoadsStep, LoadSays DEF AllSay, LoadsAtDepth
<1> HIDE DEF none
<1>3. LoadsOK(flat) /\ AllSay(g, flat)
  BY <1>1, <1>2
<1> HIDE DEF flat
<1>4. LoadsOK(near) /\ AllSay(g, near)
  BY <1>2, <1>3
<1> HIDE DEF near
<1>5. AllSay(g, deep)
  BY <1>2, <1>4
<1> HIDE DEF deep
<1>6. rows \in flat[i] \/ rows \in near[i] \/ rows \in deep[i]
  BY DEF Loads, flat, near, deep, none
<1> QED
  BY <1>3, <1>4, <1>5, <1>6 DEF AllSay

\* What is handed out is of resource i and holds what graph g says of i.
SaidOf(g, i) ==
  LET x == heap'[mine']
  IN  x.iri = i /\ x.name \in NamesIn(g, i) /\ TargetOf(heap', x.rel) \subseteq LinksIn(g, i)

\* A load for a resource that the caches do not know hands out what the graph says.
LEMMA AttachFresh ==
  ASSUME NEW c, NEW g, NEW i \in Iris, NEW depth, NEW rows,
         rows \in Seq(LoadedRow), Len(rows) >= 1, rows[1].iri = i, ~LoadRaises(rows),
         Says(g, rows), NEW new \in Allocations(Len(rows), Used), HeapInv,
         c.identity[i] = None, Attach(c, g, i, depth, rows, new)
  PROVE  SaidOf(g, i)
<1> DEFINE h == Loaded(heap, rows, new)
           L == Len(rows)
<1>1. heap \in [Obj -> Node]
  BY DEF HeapInv, HeapOK
<1>2. /\ h \in [Obj -> Node]
      /\ new \in [1 .. L -> Obj \ Used] /\ L \in Nat /\ L <= Cardinality(Obj)
      /\ \A k \in 1 .. L : h[new[k]].iri = rows[k].iri /\ h[new[k]].name = rows[k].name
      /\ \A k \in 1 .. L - 1 : h[new[k]].rel = new[k + 1]
      /\ h[new[L]].rel = rows[L].rel /\ rows[L].rel \notin Obj
      /\ \A y \in Used : h[y] = heap[y]
  BY <1>1, LoadedLine
<1>3. mine' = new[1] /\ Collect(h)
  BY DEF Attach
<1>4. rows[1].name # None
  <2>1. 1 \in DOMAIN rows
    OBVIOUS
  <2> QED
    BY <2>1 DEF LoadRaises
<1>5. 1 \in 1 .. L /\ new[1] \in Obj
  BY <1>2
<1> DEFINE live == Reachable(h, Roots')
<1>6. heap' = [x \in Obj |-> IF x \in live THEN h[x] ELSE Blank]
  BY <1>3 DEF Collect
<1> HIDE DEF h
<1>7. new[1] \in live /\ \A x \in live : x \in Obj /\ (h[x].rel \in Obj => h[x].rel \in live)
  <2>1. new[1] \in Roots' \cap Obj
    BY <1>3, <1>5 DEF Roots
  <2> QED
    BY <1>2, <2>1, ReachClosed
<1> HIDE DEF live
<1>8. heap'[new[1]] = h[new[1]]
  BY <1>5, <1>6, <1>7
<1>9. h[new[1]].iri = i /\ h[new[1]].name \in NamesIn(g, i)
  <2>1. rows[1].iri = i /\ (rows[1].name # None => rows[1].name \in NamesIn(g, rows[1].iri))
    BY <1>5 DEF Says
  <2> QED
    BY <1>2, <1>4, <1>5, <2>1
<1>10. TargetOf(heap', h[new[1]].rel) \subseteq LinksIn(g, i)
  <2>1. CASE L = 1
    <3>1. h[new[1]].rel = rows[1].rel /\ rows[1].rel \notin Obj
      BY <1>2, <2>1
    <3>2. {rows[1].rel} \cap Iris \subseteq LinksIn(g, i)
      BY <1>5 DEF Says
    <3> QED
      BY <3>1, <3>2 DEF TargetOf
  <2>2. CASE L > 1
    <3>1. 1 \in 1 .. L - 1 /\ 2 \in 1 .. L /\ 1 + 1 = 2
      BY <1>2, <2>2
    <3>2. h[new[1]].rel = new[2] /\ new[2] \in Obj /\ h[new[2]].iri = rows[2].iri
      BY <1>2, <3>1
    <3>3. heap'[new[2]] = h[new[2]]
      BY <1>6, <1>7, <3>2
    <3>4. rows[2].iri = rows[1].rel /\ rows[1].rel \in LinksIn(g, i)
      <4>1. /\ {rows[1].rel} \cap Iris \subseteq LinksIn(g, rows[1].iri)
            /\ rows[1].rel \in Iris /\ rows[1 + 1].iri = rows[1].rel
        BY <1>5, <2>2 DEF Says
      <4> QED
        BY <3>1, <4>1
    <3>5. TargetOf(heap', h[new[1]].rel) = {rows[1].rel}
      BY <3>2, <3>3, <3>4 DEF TargetOf
    <3> QED
      BY <3>4, <3>5
  <2>3. L >= 1 /\ L \in Nat
    BY <1>2, <1>5
  <2> HIDE DEF L
  <2>4. L = 1 \/ L > 1
    BY <2>3
  <2> QED
    BY <2>1, <2>2, <2>4
<1> QED
  BY <1>3, <1>8, <1>9, <1>10 DEF SaidOf

LEMMA HydratesFresh ==
  ASSUME NEW c, NEW g, NEW i \in Iris, NEW depth, HeapInv, c.identity[i] = None,
         Hydrates(c, g, i, depth)
  PROVE  SaidOf(g, i)
<1>1. PICK rows \in Loads(g, i, depth) :
        /\ ~LoadRaises(rows)
        /\ \E new \in Allocations(Len(rows), Used) : Attach(c, g, i, depth, rows, new)
  BY DEF Hydrates
<1>2. PICK new \in Allocations(Len(rows), Used) : Attach(c, g, i, depth, rows, new)
  BY <1>1
<1>3. rows \in Seq(LoadedRow) /\ Len(rows) >= 1 /\ rows[1].iri = i
  BY LoadsStartAtRoot
<1>4. Says(g, rows)
  BY LoadsSay
<1> QED
  BY <1>1, <1>2, <1>3, <1>4, AttachFresh

\* After a pull the graph says of a resource what the endpoint says.
LEMMA PulledSays ==
  ASSUME NEW i
  PROVE  /\ Typed(Pulled(i), i) => Typed(remote, i)
         /\ NamesIn(Pulled(i), i) \subseteq NamesIn(remote, i)
         /\ LinksIn(Pulled(i), i) \subseteq LinksIn(remote, i)
  BY DEF Pulled, SubjectTriples, Typed, NamesIn, LinksIn

\* What a read hands out of resource i in remote_authoritative mode.
AnswersFresh(i) ==
  mine' = mine \/ (Typed(remote, i) /\ SaidOf(remote, i))

LEMMA HydratesPulled ==
  ASSUME NEW i \in Iris, NEW c, NEW depth, HeapInv, c.identity[i] = None,
         Typed(Pulled(i), i), Hydrates(c, Pulled(i), i, depth)
  PROVE  AnswersFresh(i)
<1>1. SaidOf(Pulled(i), i)
  BY HydratesFresh
<1> QED
  BY <1>1, PulledSays DEF SaidOf, AnswersFresh

LEMMA EvictedForgets ==
  ASSUME NEW i \in Iris, StoreMode = "remote_authoritative", HeapInv
  PROVE  /\ Evicted(Synced, i).identity[i] = None
         /\ \A d \in Depths : Evicted(Synced, i).hydration[<<i, d>>] = None
<1>1. Synced \in Cache
  BY SyncedOK DEF Filed
<1> QED
  BY <1>1 DEF Evicted, ExpireKeys, DropIdentity, DropHydration, Cache, HydrationKey

LEMMA GetFresh ==
  ASSUME NEW i \in Iris, NEW depth \in Depths, StoreMode = "remote_authoritative", HeapInv,
         GetAnswers(i, depth) \/ GetRaises(i, depth)
  PROVE  AnswersFresh(i)
<1> DEFINE c == Evicted(Synced, i)
<1>1. PullNeeded(i)
  BY DEF PullNeeded, Http
<1>2. c.identity[i] = None /\ c.hydration[<<i, depth>>] = None
  BY EvictedForgets
<1> HIDE DEF c
<1>3. AfterMiss(c, Pulled(i), i, depth) = c
  BY <1>2 DEF AfterMiss
<1>4. CASE LookupAnswers(c, Pulled(i), i, depth)
  <2>1. ~Hit(c, Pulled(i), i, depth) /\ ~Usable(c, i, depth)
    BY <1>2 DEF Hit, Usable
  <2>2. mine' = mine \/ (Typed(Pulled(i), i) /\ Hydrates(c, Pulled(i), i, depth))
    BY <1>3, <1>4, <2>1 DEF LookupAnswers
  <2> QED
    BY <1>2, <2>2, HydratesPulled DEF AnswersFresh
<1>5. CASE LookupRaises(c, Pulled(i), i, depth)
  BY <1>5 DEF LookupRaises, HydrationRaises, AnswersFresh
<1>6. CASE PullRaises(i)
  BY <1>6 DEF PullRaises, AnswersFresh
<1> QED
  BY <1>1, <1>4, <1>5, <1>6 DEF GetAnswers, GetRaises, NoPull, c

LEMMA ReadFresh ==
  ASSUME StoreMode = "remote_authoritative", CoreInv, Read
  PROVE  \E i \in Iris : AnswersFresh(i)
<1>1. HeapInv
  BY DEF CoreInv
<1>2. CASE Get
  <2>1. PICK c \in CallsOf("get") : GetAnswers(c.iri, c.depth) \/ GetRaises(c.iri, c.depth)
    BY <1>2 DEF Get
  <2>2. c.iri \in Iris /\ c.depth \in Depths
    BY DEF CallsOf
  <2> QED
    BY <1>1, <2>1, <2>2, GetFresh
<1>3. CASE HydrateRow
  <2>1. PICK i \in call.left : GetAnswers(i, call.depth) \/ GetRaises(i, call.depth)
    BY <1>3 DEF HydrateRow
  <2>2. i \in Iris /\ call.depth \in Depths
    BY <1>3 DEF HydrateRow, CoreInv, ControlInv, Calls
  <2> QED
    BY <1>1, <2>1, <2>2, GetFresh
<1>4. CASE Refresh
  <2> DEFINE i == MineIri
             d == Evicted(Synced, i)
  <2>1. PICK c \in CallsOf("refresh") :
          \/ NoPull(i) /\ Reload(Synced, graph, i, c.depth)
          \/ PullAnswers(i) /\ Reload(d, Pulled(i), i, c.depth)
          \/ PullRaises(i)
    BY <1>4 DEF Refresh
  <2>2. i \in Iris
    BY <1>4, HoldsOne DEF Refresh, OnInstance
  <2>3. PullNeeded(i)
    BY DEF PullNeeded, Http
  <2> HIDE DEF i
  <2>4. d.identity[i] = None
    BY <1>1, <2>2, EvictedForgets
  <2> HIDE DEF d
  <2>5. CASE Reload(d, Pulled(i), i, c.depth)
    <3>1. mine' = mine \/ (Typed(Pulled(i), i) /\ Hydrates(d, Pulled(i), i, c.depth))
      BY <2>5 DEF Reload, HydrationRaises
    <3> QED
      BY <1>1, <2>2, <2>4, <3>1, HydratesPulled DEF AnswersFresh
  <2>6. CASE PullRaises(i)
    BY <2>2, <2>6 DEF PullRaises, AnswersFresh
  <2> QED
    BY <2>1, <2>3, <2>5, <2>6 DEF NoPull
<1> QED
  BY <1>2, <1>3, <1>4 DEF Read

\* In remote_authoritative mode no read answers from the caches: what a get, a query
\* or a refresh hands out is what the endpoint said of the resource at its pull, for
\* every depth, whatever was cached, queued or left in the mirror
\* (session_core._pull_subject_for_read_sync).
THEOREM RemoteReadsFresh == StoreMode = "remote_authoritative" => (Spec => ReadsFresh)
<1> SUFFICES ASSUME StoreMode = "remote_authoritative" PROVE Spec => ReadsFresh
  OBVIOUS
<1>1. CoreInv /\ [Next]_vars
        => [LET x == heap'[mine']
            IN  mine' \notin {mine, None} /\ Read =>
                  /\ Typed(remote, x.iri)
                  /\ x.name \in NamesIn(remote, x.iri)
                  /\ TargetOf(heap', x.rel) \subseteq LinksIn(remote, x.iri)]_vars
  BY ReadFresh DEF AnswersFresh, SaidOf
<1> QED
  BY <1>1, CoreInvHolds, PTL DEF Spec, ReadsFresh
=============================================================================
