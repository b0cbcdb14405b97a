------------------------- MODULE SessionWriteProofs -------------------------
(***************************************************************************)
(* Theorems about the queue of deferred writes, the kinds of everything a  *)
(* session keeps, and what reaches the store and when: a put is an upsert, *)
(* no deferred write is lost, the pending list with flush, failures and    *)
(* autoflush is the queue of DeferredWrites, and over a store in memory    *)
(* the identity map says nothing that is not stored.                       *)
(***************************************************************************)
EXTENDS SessionProofs

-----------------------------------------------------------------------------
(* The elements of a sequence that are kept                                *)

\* The recursive function of Kept, element by element.
KeptFrom(f, q, at, X) ==
  /\ f \in [0 .. Len(q) -> Seq(X)]
  /\ f[0] = <<>>
  /\ \A n \in 1 .. Len(q) :
       f[n] = IF n \in at THEN Append(f[n - 1], q[n]) ELSE f[n - 1]

LEMMA KeptRecursion ==
  ASSUME NEW X, NEW q \in Seq(X), NEW at
  PROVE  \E f : KeptFrom(f, q, at, X) /\ Kept(q, at) = f[Len(q)]
<1> DEFINE L == Len(q)
           V == Seq(X)
           none == <<>>
           Body0(f) == [n \in 0 .. L |-> IF n = 0 THEN <<>>
                                         ELSE IF n \in at THEN Append(f[n - 1], q[n])
                                         ELSE f[n - 1]]
           next(n, s) == IF n + 1 \in at /\ n + 1 \in 1 .. L THEN Append(s, q[n + 1]) ELSE s
           step == [n \in Nat |-> [s \in V |-> next(n, s)]]
<1>1. L \in Nat /\ \A n \in 1 .. L : q[n] \in X
  BY ElementOfSeq
<1>2. ASSUME NEW n \in Nat, NEW s \in Seq(X) PROVE next(n, s) \in Seq(X)
  BY <1>1
<1>3. none \in V
  OBVIOUS
<1> HIDE DEF next
<1>4. step \in [Nat -> [V -> V]]
  BY <1>2
<1> HIDE DEF step, V, none
<1>a. PICK g : Iterates(g, V, none, step)
  BY <1>3, <1>4, RecursiveFunction
<1>5. g \in [Nat -> V] /\ g[0] = none /\ \A n \in Nat : g[n + 1] = step[n][g[n]]
  BY <1>a DEF Iterates
<1>6. ASSUME NEW n \in Nat PROVE g[n + 1] = next(n, g[n])
  <2>1. g[n] \in V
    BY <1>5
  <2> QED
    BY <1>5, <2>1 DEF step
<1> DEFINE f == [n \in 0 .. L |-> g[n]]
<1>7. ASSUME NEW n \in 1 .. L
      PROVE  f[n] = IF n \in at THEN Append(f[n - 1], q[n]) ELSE f[n - 1]
  <2>1. n - 1 \in Nat /\ (n - 1) + 1 = n /\ n \in 0 .. L /\ n - 1 \in 0 .. L
    BY <1>1
  <2>2. g[n] = next(n - 1, g[n - 1])
    BY <1>6, <2>1
  <2> QED
    BY <2>1, <2>2 DEF next
<1>8. f \in [0 .. L -> V] /\ f[0] = <<>>
  <2>1. 0 \in 0 .. L /\ 0 .. L \subseteq Nat
    BY <1>1
  <2> QED
    BY <1>5, <2>1 DEF none
<1>9. \E k : k = Body0(k)
  <2>1. f = Body0(f)
    <3> SUFFICES ASSUME NEW n \in 0 .. L
                 PROVE  f[n] = IF n = 0 THEN <<>>
                               ELSE IF n \in at THEN Append(f[n - 1], q[n]) ELSE f[n - 1]
      BY DEF f
    <3>1. n # 0 => n \in 1 .. L
      BY <1>1
    <3> QED
      BY <1>7, <1>8, <3>1
  <2> HIDE DEF f, Body0
  <2> QED
    BY <2>1
<1> DEFINE kept == CHOOSE k : k = Body0(k)
<1>10. kept = Body0(kept)
  BY <1>9
<1>11. Kept(q, at) = kept[L]
  BY DEF Kept
<1> HIDE DEF kept, f, L
<1>12. ASSUME NEW n \in Nat, n <= L PROVE kept[n] = f[n]
  <2> DEFINE S == {m \in Nat : m <= L => kept[m] = f[m]}
  <2>1. 0 \in S
    <3>1. 0 \in 0 .. L
      BY <1>1
    <3> QED
      BY <1>8, <1>10, <3>1
  <2>2. ASSUME NEW m \in Nat, m \in S PROVE m + 1 \in S
    <3> SUFFICES ASSUME m + 1 <= L PROVE kept[m + 1] = f[m + 1]
      OBVIOUS
    <3>1. m + 1 \in 0 .. L /\ m + 1 \in 1 .. L /\ m + 1 # 0 /\ (m + 1) - 1 = m /\ m <= L
      BY <1>1
    <3>2. kept[m] = f[m]
      BY <2>2, <3>1
    <3>3. f[m + 1] = IF m + 1 \in at THEN Append(f[m], q[m + 1]) ELSE f[m]
      BY <1>7, <3>1
    <3>4. kept[m + 1] = IF m + 1 \in at THEN Append(kept[m], q[m + 1]) ELSE kept[m]
      BY <1>10, <3>1
    <3> QED
      BY <3>2, <3>3, <3>4
  <2> HIDE DEF S
  <2>3. Nat \subseteq S
    BY <2>1, <2>2, NatSet
  <2> QED
    BY <1>12, <2>3 DEF S
<1>13. Kept(q, at) = f[L]
  BY <1>1, <1>11, <1>12
<1> QED
  BY <1>7, <1>8, <1>13 DEF KeptFrom, V, L

\* The elements of s are elements of q at different positions of those in at.
Picks(s, q, at) ==
  \E p \in [1 .. Len(s) -> at] :
    /\ \A k \in 1 .. Len(s) : s[k] = q[p[k]]
    /\ \A j, k \in 1 .. Len(s) : p[j] = p[k] => j = k

LEMMA PicksAppend ==
  ASSUME NEW X, NEW q, NEW s \in Seq(X), NEW at, NEW n, n \notin at, Picks(s, q, at),
         q[n] \in X
  PROVE  Append(s, q[n]) \in Seq(X) /\ Picks(Append(s, q[n]), q, at \cup {n})
<1> DEFINE m == Len(s)
           t == Append(s, q[n])
<1>1. PICK p \in [1 .. m -> at] :
        /\ \A k \in 1 .. m : s[k] = q[p[k]]
        /\ \A j, k \in 1 .. m : p[j] = p[k] => j = k
  BY DEF Picks
<1> DEFINE r == [k \in 1 .. m + 1 |-> IF k = m + 1 THEN n ELSE p[k]]
<1>2. /\ m \in Nat
      /\ t \in Seq(X) /\ Len(t) = m + 1 /\ t[m + 1] = q[n]
      /\ \A k \in 1 .. m : t[k] = s[k]
  OBVIOUS
<1> HIDE DEF m, t
<1>3. \A k \in 1 .. m + 1 : k # m + 1 => k \in 1 .. m
  BY <1>2
<1>4. r \in [1 .. m + 1 -> at \cup {n}]
  BY <1>1, <1>3
<1>5. \A k \in 1 .. m + 1 : t[k] = q[r[k]]
  BY <1>1, <1>2, <1>3
<1>6. r[m + 1] = n /\ \A k \in 1 .. m + 1 : k # m + 1 => r[k] = p[k] /\ p[k] \in at
  BY <1>1, <1>2, <1>3
<1> HIDE DEF r
<1>7. ASSUME NEW j \in 1 .. m + 1, NEW k \in 1 .. m + 1, r[j] = r[k] PROVE j = k
  <2>1. CASE j = m + 1
    BY <1>6, <1>7, <2>1
  <2>2. CASE k = m + 1
    BY <1>6, <1>7, <2>2
  <2>3. CASE j # m + 1 /\ k # m + 1
    <3>1. j \in 1 .. m /\ k \in 1 .. m
      BY <1>3, <2>3
    <3>2. p[j] = p[k]
      BY <1>6, <1>7, <2>3
    <3> QED
      BY <1>1, <3>1, <3>2
  <2> QED
    BY <2>1, <2>2, <2>3
<1>8. Len(t) = m + 1
  BY <1>2
<1>9. Picks(t, q, at \cup {n})
  BY <1>4, <1>5, <1>7, <1>8 DEF Picks
<1> QED
  BY <1>2, <1>9 DEF t

LEMMA PicksMore ==
  ASSUME NEW q, NEW s, NEW at, NEW more, at \subseteq more, Picks(s, q, at)
  PROVE  Picks(s, q, more)
  BY DEF Picks

LEMMA PicksNone == ASSUME NEW q, NEW at PROVE Picks(<<>>, q, at)
<1> DEFINE p == [k \in 1 .. 0 |-> 0]
<1>1. Len(<<>>) = 0 /\ 1 .. 0 = {}
  OBVIOUS
<1>2. p \in [1 .. 0 -> at]
  BY <1>1
<1> HIDE DEF p
<1> QED
  BY <1>1, <1>2 DEF Picks

\* What is kept comes from the positions at, in their order.
LEMMA KeptPicks ==
  ASSUME NEW X, NEW q \in Seq(X), NEW at
  PROVE  Kept(q, at) \in Seq(X) /\ Picks(Kept(q, at), q, DOMAIN q \cap at)
<1>1. PICK f : KeptFrom(f, q, at, X) /\ Kept(q, at) = f[Len(q)]
  BY KeptRecursion
<1> DEFINE L == Len(q)
           V == Seq(X)
           Upto(n) == (1 .. n) \cap at
           Fine(n) == f[n] \in V /\ Picks(f[n], q, Upto(n))
           S == {n \in Nat : n <= L => Fine(n)}
<1>2. L \in Nat /\ DOMAIN q = 1 .. L /\ \A n \in 1 .. L : q[n] \in X
  BY ElementOfSeq
<1> HIDE DEF L, V
<1>3. 0 \in S
  <2>1. f[0] = <<>> /\ f[0] \in V
    <3>1. f \in [0 .. L -> V] /\ 0 \in 0 .. L
      BY <1>1, <1>2 DEF KeptFrom, L, V
    <3> QED
      BY <1>1, <3>1 DEF KeptFrom
  <2>2. Picks(f[0], q, Upto(0))
    BY <2>1, PicksNone, Zenon
  <2> QED
    BY <2>1, <2>2
<1>4. ASSUME NEW n \in Nat, n \in S PROVE n + 1 \in S
  <2> SUFFICES ASSUME n + 1 <= L PROVE Fine(n + 1)
    OBVIOUS
  <2>1. n <= L /\ n + 1 \in 1 .. L /\ (n + 1) - 1 = n
    BY <1>2
  <2>2. Fine(n)
    BY <1>4, <2>1
  <2>3. f[n + 1] = IF n + 1 \in at THEN Append(f[n], q[n + 1]) ELSE f[n]
    BY <1>1, <2>1 DEF KeptFrom, L
  <2>4. /\ Upto(n) \subseteq Upto(n + 1) /\ n + 1 \notin Upto(n)
        /\ n + 1 \in at => Upto(n + 1) = Upto(n) \cup {n + 1}
    OBVIOUS
  <2>5. CASE n + 1 \in at
    <3>1. q[n + 1] \in X
      BY <1>2, <2>1
    <3> HIDE DEF Upto
    <3>2. /\ Append(f[n], q[n + 1]) \in V
          /\ Picks(Append(f[n], q[n + 1]), q, Upto(n) \cup {n + 1})
      BY <2>2, <2>4, <3>1, PicksAppend DEF V
    <3> QED
      BY <2>3, <2>4, <2>5, <3>2
  <2>6. CASE n + 1 \notin at
    <3> HIDE DEF Upto
    <3>1. Picks(f[n], q, Upto(n + 1))
      BY <2>2, <2>4, PicksMore
    <3> QED
      BY <2>2, <2>3, <2>6, <3>1
  <2> QED
    BY <2>5, <2>6
<1> HIDE DEF S
<1>5. Nat \subseteq S
  BY <1>3, <1>4, NatSet
<1> HIDE DEF Fine
<1>6. Fine(L)
  BY <1>2, <1>5 DEF S
<1> QED
  BY <1>1, <1>2, <1>6 DEF Fine, L, V

\* Whatever stands at a position of at is kept.
LEMMA KeptHas ==
  ASSUME NEW X, NEW q \in Seq(X), NEW at, NEW n \in DOMAIN q \cap at
  PROVE  \E k \in DOMAIN Kept(q, at) : Kept(q, at)[k] = q[n]
<1>1. PICK f : KeptFrom(f, q, at, X) /\ Kept(q, at) = f[Len(q)]
  BY KeptRecursion
<1> DEFINE L == Len(q)
           V == Seq(X)
           Has(m) == \E k \in DOMAIN f[m] : f[m][k] = q[n]
           S == {m \in Nat : n <= m /\ m <= L => Has(m)}
<1>2. L \in Nat /\ n \in 1 .. L /\ \A m \in 1 .. L : q[m] \in X
  BY ElementOfSeq
<1>3. \A m \in 0 .. L : f[m] \in V
  BY <1>1 DEF KeptFrom
<1> HIDE DEF L
<1>4. 0 \in S
  BY <1>2
<1>5. ASSUME NEW m \in Nat, m \in S PROVE m + 1 \in S
  <2> SUFFICES ASSUME n <= m + 1, m + 1 <= L PROVE Has(m + 1)
    OBVIOUS
  <2>1. m + 1 \in 1 .. L /\ (m + 1) - 1 = m /\ m \in 0 .. L
    BY <1>2
  <2>2. f[m] \in V /\ q[m + 1] \in X
    BY <1>2, <1>3, <2>1
  <2>3. f[m + 1] = IF m + 1 \in at THEN Append(f[m], q[m + 1]) ELSE f[m]
    BY <1>1, <2>1 DEF KeptFrom, L
  <2>4. \A s \in V, e \in X :
          LET t == Append(s, e)
          IN  /\ Len(s) + 1 \in DOMAIN t /\ t[Len(s) + 1] = e
              /\ \A k \in DOMAIN s : k \in DOMAIN t /\ t[k] = s[k]
    OBVIOUS
  <2>5. CASE n = m + 1
    BY <2>2, <2>3, <2>4, <2>5
  <2>6. CASE n # m + 1
    <3>1. n <= m /\ m <= L
      BY <1>2, <2>1, <2>6
    <3>2. PICK k \in DOMAIN f[m] : f[m][k] = q[n]
      BY <1>5, <3>1
    <3>3. k \in DOMAIN f[m + 1] /\ f[m + 1][k] = q[n]
      BY <2>2, <2>3, <2>4, <3>2
    <3> QED
      BY <3>3
  <2> QED
    BY <2>5, <2>6
<1> HIDE DEF S
<1>6. Nat \subseteq S
  BY <1>4, <1>5, NatSet
<1>7. L \in S /\ n <= L
  BY <1>2, <1>6
<1>8. Has(L)
  BY <1>2, <1>7 DEF S
<1> QED
  BY <1>1, <1>8 DEF L

\* Sequences whose elements correspond keep what corresponds.
LEMMA KeptCorrespond ==
  ASSUME NEW X, NEW q \in Seq(X), NEW Y, NEW r \in Seq(Y), NEW at, NEW R,
         Len(r) = Len(q), \A n \in 1 .. Len(q) : <<q[n], r[n]>> \in R
  PROVE  /\ Len(Kept(r, at)) = Len(Kept(q, at))
         /\ \A k \in 1 .. Len(Kept(q, at)) : <<Kept(q, at)[k], Kept(r, at)[k]>> \in R
<1>1. PICK f : KeptFrom(f, q, at, X) /\ Kept(q, at) = f[Len(q)]
  BY KeptRecursion
<1>2. PICK g : KeptFrom(g, r, at, Y) /\ Kept(r, at) = g[Len(r)]
  BY KeptRecursion
<1> DEFINE L == Len(q)
           Alike(s, t) == Len(s) = Len(t) /\ \A k \in 1 .. Len(s) : <<s[k], t[k]>> \in R
           S == {n \in Nat : n <= L => Alike(f[n], g[n])}
<1>3. /\ L \in Nat /\ Len(r) = L
      /\ \A n \in 1 .. L : q[n] \in X /\ r[n] \in Y
  BY ElementOfSeq
<1>4. ASSUME NEW n \in 0 .. L PROVE f[n] \in Seq(X) /\ g[n] \in Seq(Y)
  BY <1>1, <1>2, <1>3 DEF KeptFrom
<1>5. 0 \in S
  <2>1. f[0] = <<>> /\ g[0] = <<>>
    BY <1>1, <1>2 DEF KeptFrom
  <2>2. Alike(<<>>, <<>>)
    OBVIOUS
  <2> HIDE DEF Alike
  <2>3. Alike(f[0], g[0])
    BY <2>1, <2>2, Zenon
  <2> QED
    BY <2>3
<1>6. ASSUME NEW n \in Nat, n \in S PROVE n + 1 \in S
  <2> SUFFICES ASSUME n + 1 <= L PROVE Alike(f[n + 1], g[n + 1])
    OBVIOUS
  <2>1. n <= L /\ n \in 0 .. L /\ n + 1 \in 1 .. L /\ (n + 1) - 1 = n
    BY <1>3
  <2>2. Alike(f[n], g[n])
    BY <1>6, <2>1
  <2>3. /\ f[n + 1] = IF n + 1 \in at THEN Append(f[n], q[n + 1]) ELSE f[n]
        /\ g[n + 1] = IF n + 1 \in at THEN Append(g[n], r[n + 1]) ELSE g[n]
    BY <1>1, <1>2, <1>3, <2>1 DEF KeptFrom
  <2>4. f[n] \in Seq(X) /\ g[n] \in Seq(Y)
    BY <1>4, <2>1
  <2>5. ASSUME NEW s \in Seq(X), NEW t \in Seq(Y), NEW x \in X, NEW y \in Y,
               Alike(s, t), <<x, y>> \in R
        PROVE  Alike(Append(s, x), Append(t, y))
    <3>1. Len(Append(s, x)) = Len(s) + 1 /\ Len(Append(t, y)) = Len(s) + 1
      BY <2>5
    <3>2. ASSUME NEW k \in 1 .. Len(s) + 1
          PROVE  <<Append(s, x)[k], Append(t, y)[k]>> \in R
      <4>1. CASE k = Len(s) + 1
        <5>1. Append(s, x)[k] = x /\ Append(t, y)[k] = y
          BY <2>5, <4>1
        <5> QED
          BY <2>5, <5>1
      <4>2. CASE k # Len(s) + 1
        <5>1. k \in 1 .. Len(s) /\ k \in 1 .. Len(t)
          BY <2>5, <4>2
        <5>2. Append(s, x)[k] = s[k]
          BY <5>1
        <5>3. Append(t, y)[k] = t[k]
          BY <5>1
        <5> QED
          BY <2>5, <5>1, <5>2, <5>3
      <4> QED
        BY <4>1, <4>2
    <3> QED
      BY <3>1, <3>2
  <2>6. q[n + 1] \in X /\ r[n + 1] \in Y /\ <<q[n + 1], r[n + 1]>> \in R
    BY <1>3, <2>1
  <2> HIDE DEF Alike
  <2> QED
    BY <2>2, <2>3, <2>4, <2>5, <2>6
<1> HIDE DEF S
<1>7. Nat \subseteq S
  BY <1>5, <1>6, NatSet
<1>8. Alike(f[L], g[L])
  BY <1>3, <1>7 DEF S
<1> QED
  BY <1>1, <1>2, <1>3, <1>8

\* Nothing is lost when every position is kept.
LEMMA KeptAll ==
  ASSUME NEW X, NEW q \in Seq(X), NEW at, DOMAIN q \subseteq at
  PROVE  Kept(q, at) = q
<1>1. PICK f : KeptFrom(f, q, at, X) /\ Kept(q, at) = f[Len(q)]
  BY KeptRecursion
<1> DEFINE L == Len(q)
           Prefix(s, n) == Len(s) = n /\ \A k \in 1 .. n : s[k] = q[k]
           S == {n \in Nat : n <= L => Prefix(f[n], n)}
<1>2. L \in Nat /\ DOMAIN q = 1 .. L /\ \A n \in 1 .. L : q[n] \in X
  BY ElementOfSeq
<1>3. ASSUME NEW n \in 0 .. L PROVE f[n] \in Seq(X)
  BY <1>1, <1>2 DEF KeptFrom
<1>4. 0 \in S
  <2>1. f[0] = <<>>
    BY <1>1 DEF KeptFrom
  <2>2. Prefix(<<>>, 0)
    OBVIOUS
  <2> HIDE DEF Prefix
  <2>3. Prefix(f[0], 0)
    BY <2>1, <2>2, Zenon
  <2> QED
    BY <2>3
<1>5. ASSUME NEW n \in Nat, n \in S PROVE n + 1 \in S
  <2> SUFFICES ASSUME n + 1 <= L PROVE Prefix(f[n + 1], n + 1)
    OBVIOUS
  <2>1. n <= L /\ n \in 0 .. L /\ n + 1 \in 1 .. L /\ (n + 1) - 1 = n
    BY <1>2
  <2>2. Prefix(f[n], n) /\ f[n] \in Seq(X) /\ q[n + 1] \in X
    BY <1>2, <1>3, <1>5, <2>1
  <2>3. f[n + 1] = Append(f[n], q[n + 1])
    BY <1>1, <1>2, <2>1 DEF KeptFrom
  <2>4. ASSUME NEW k \in 1 .. n + 1 PROVE Append(f[n], q[n + 1])[k] = q[k]
    <3>1. k = n + 1 \/ k \in 1 .. n
      OBVIOUS
    <3> QED
      BY <2>2, <3>1
  <2>5. Len(Append(f[n], q[n + 1])) = n + 1
    BY <2>2
  <2> QED
    BY <2>3, <2>4, <2>5
<1> HIDE DEF S
<1>6. Nat \subseteq S
  BY <1>4, <1>5, NatSet
<1>7. Prefix(f[L], L) /\ f[L] \in Seq(X)
  BY <1>2, <1>3, <1>6 DEF S
<1>8. Kept(q, at) = f[L]
  BY <1>1
<1> HIDE DEF L
<1>9. f[L] = q
  BY <1>2, <1>7, SeqEqual DEF L
<1> QED
  BY <1>8, <1>9

-----------------------------------------------------------------------------
(* Live objects                                                            *)

\* An object that has a resource has its required value, and what it embeds has
\* a resource too.
HeapLive(h) ==
  \A x \in Obj : h[x].iri # None =>
    /\ h[x].name \in Names
    /\ h[x].rel \in Obj => h[h[x].rel].iri # None

\* Contents that a step may leave before what is unreachable is freed.
Sound(h) ==
  /\ h \in [Obj -> Node] /\ HeapLive(h)
  /\ \A x \in Used : h[x].iri = heap[x].iri

LEMMA WrittenLive ==
  ASSUME NEW h, HeapLive(heap), NEW W \in SUBSET Obj,
         \A x \in Obj \ W : h[x] = heap[x],
         \A x \in W : /\ h[x].iri # None /\ h[x].name \in Names
                      /\ h[x].rel \in Obj => h[x].rel \in W \/ heap[h[x].rel].iri # None
  PROVE  HeapLive(h)
  BY DEF HeapLive

LEMMA CollectLive ==
  ASSUME NEW h \in [Obj -> Node], HeapLive(h), Collect(h)
  PROVE  HeapLive(heap')
<1> DEFINE live == Reachable(h, Roots')
<1>1. heap' = [x \in Obj |-> IF x \in live THEN h[x] ELSE Blank]
  BY DEF Collect
<1>2. live \subseteq Obj /\ \A x \in live : h[x].rel \in Obj => h[x].rel \in live
  BY ReachClosed
<1> HIDE DEF live
<1>3. Blank.iri = None
  BY DEF Blank
<1> QED
  BY <1>1, <1>2, <1>3 DEF HeapLive

\* Everything that a live object embeds is live.
LEMMA ChainLive ==
  ASSUME NEW h \in [Obj -> Node], HeapLive(h), NEW o \in Obj, h[o].iri # None
  PROVE  \A x \in ChainObjs(h, o) : h[x].iri # None
<1> DEFINE c == Chain(h, o)
           L == Len(c)
           S == {n \in Nat : n + 1 <= L /\ c[n + 1] \in Obj => h[c[n + 1]].iri # None}
<1>1. IsWalk(h, o, c)
  BY ChainWalks DEF Item
<1> HIDE DEF c
<1>2. /\ c \in Seq(Item) /\ L \in Nat /\ DOMAIN c = 1 .. L /\ c[1] = o
      /\ \A k \in 1 .. L - 1 : c[k] \in Obj /\ c[k + 1] = h[c[k]].rel
  BY <1>1 DEF IsWalk
<1> HIDE DEF L
<1>3. 0 \in S
  BY <1>2
<1>4. ASSUME NEW n \in Nat, n \in S PROVE n + 1 \in S
  <2> SUFFICES ASSUME (n + 1) + 1 <= L, c[(n + 1) + 1] \in Obj
               PROVE  h[c[(n + 1) + 1]].iri # None
    OBVIOUS
  <2>1. n + 1 \in 1 .. L - 1 /\ n + 1 <= L
    BY <1>2
  <2>2. c[n + 1] \in Obj /\ c[(n + 1) + 1] = h[c[n + 1]].rel
    BY <1>2, <2>1
  <2>3. h[c[n + 1]].iri # None
    BY <1>4, <2>1, <2>2
  <2> QED
    BY <2>2, <2>3 DEF HeapLive
<1> HIDE DEF S
<1>5. Nat \subseteq S
  BY <1>3, <1>4, NatSet
<1>6. ASSUME NEW k \in 1 .. L, c[k] \in Obj PROVE h[c[k]].iri # None
  <2>1. k - 1 \in Nat /\ (k - 1) + 1 = k /\ k <= L
    BY <1>2
  <2>2. k - 1 \in S
    BY <1>5, <2>1
  <2> QED
    BY <1>6, <2>1, <2>2 DEF S
<1> QED
  BY <1>2, <1>6 DEF ChainObjs, c

\* The embedded objects come first in a chain.
LEMMA EmbedsInterval ==
  ASSUME NEW h \in [Obj -> Node], NEW o \in Obj
  PROVE  \E m \in Nat : m >= 1 /\ Embeds(h, o) = 1 .. m
<1> DEFINE c == Chain(h, o)
           L == Len(c)
<1>1. IsWalk(h, o, c)
  BY ChainWalks DEF Item
<1> HIDE DEF c
<1>2. /\ L \in Nat /\ L >= 1 /\ DOMAIN c = 1 .. L /\ c[1] = o
      /\ \A k \in 1 .. L - 1 : c[k] \in Obj
  BY <1>1 DEF IsWalk
<1>3. Embeds(h, o) = {n \in 1 .. L : c[n] \in Obj}
  BY <1>2 DEF Embeds, c
<1> HIDE DEF L
<1>4. CASE c[L] \in Obj
  <2>1. \A k \in 1 .. L : k # L => k \in 1 .. L - 1
    BY <1>2
  <2>2. Embeds(h, o) = 1 .. L
    BY <1>2, <1>3, <1>4, <2>1
  <2> QED
    BY <1>2, <2>2
<1>5. CASE c[L] \notin Obj
  <2>1. L # 1 /\ L - 1 \in Nat /\ L - 1 >= 1
    BY <1>2, <1>5
  <2>2. \A k \in 1 .. L : k # L <=> k \in 1 .. L - 1
    BY <1>2
  <2>3. 1 .. L - 1 \subseteq 1 .. L
    BY <1>2
  <2>4. Embeds(h, o) = 1 .. L - 1
    BY <1>2, <1>3, <1>5, <2>2, <2>3
  <2> QED
    BY <2>1, <2>4
<1> QED
  BY <1>4, <1>5

\* A load that does not raise leaves live objects.
LEMMA AttachSound ==
  ASSUME NEW c, NEW g, NEW i \in Iris, NEW depth, NEW rows,
         rows \in Seq(LoadedRow), Len(rows) >= 1, rows[1].iri = i, ~LoadRaises(rows),
         NEW new \in Allocations(Len(rows), Used),
         HeapInv, HeapLive(heap), Filed(c, heap), Within(c, Used),
         Attach(c, g, i, depth, rows, new)
  PROVE  \E h : Sound(h) /\ Collect(h)
<1> DEFINE h1 == Loaded(heap, rows, new)
           L == Len(rows)
           x == c.identity[i]
           h2 == Onto(rows, new, x)
           fresh == {new[k] : k \in 1 .. L}
<1>1. heap \in [Obj -> Node]
  BY DEF HeapInv, HeapOK
<1>2. \A k \in 1 .. L : rows[k].iri # None /\ rows[k].name \in Names
  <2> SUFFICES ASSUME NEW k \in 1 .. L PROVE rows[k].iri # None /\ rows[k].name \in Names
    OBVIOUS
  <2>1. rows[k] \in LoadedRow /\ k \in DOMAIN rows
    BY ElementOfSeq
  <2>2. rows[k].name # None
    BY <2>1 DEF LoadRaises
  <2> QED
    BY <2>1, <2>2, ItemAssumption DEF LoadedRow
<1>3. /\ h1 \in [Obj -> Node]
      /\ new \in [1 .. L -> Obj \ Used] /\ L \in Nat /\ L <= Cardinality(Obj)
      /\ \A k \in 1 .. L : h1[new[k]].iri = rows[k].iri /\ h1[new[k]].name = rows[k].name
      /\ \A k \in 1 .. L - 1 : h1[new[k]].rel = new[k + 1]
      /\ h1[new[L]].rel = rows[L].rel /\ rows[L].rel \notin Obj
      /\ \A y \in Used : h1[y] = heap[y]
  BY <1>1, LoadedLine
<1>4. \A y \in Obj \ fresh : h1[y] = heap[y]
  <2>1. DOMAIN new = 1 .. L
    BY <1>3
  <2> QED
    BY <2>1 DEF Loaded
<1>5. fresh \subseteq Obj \ Used /\ new[1] \in fresh /\ 1 \in 1 .. L
  BY <1>3
<1> HIDE DEF h1
<1>6. CASE x = None
  <2>1. Collect(h1)
    BY <1>6 DEF Attach, h1
  <2> HIDE DEF L
  <2>2. ASSUME NEW k \in 1 .. L
        PROVE  /\ h1[new[k]].iri # None /\ h1[new[k]].name \in Names
               /\ h1[new[k]].rel \in Obj => h1[new[k]].rel \in fresh
    <3>1. CASE k = L
      BY <1>2, <1>3, <3>1
    <3>2. CASE k # L
      <4>1. k \in 1 .. L - 1 /\ k + 1 \in 1 .. L
        BY <1>3, <3>2
      <4>2. h1[new[k]].rel = new[k + 1] /\ new[k + 1] \in fresh
        BY <1>3, <4>1
      <4>3. h1[new[k]].iri = rows[k].iri /\ h1[new[k]].name = rows[k].name
        BY <1>3
      <4> QED
        BY <1>2, <4>2, <4>3
    <3> QED
      BY <3>1, <3>2
  <2>3. \A y \in fresh : /\ h1[y].iri # None /\ h1[y].name \in Names
                         /\ h1[y].rel \in Obj => h1[y].rel \in fresh
    BY <2>2
  <2> HIDE DEF fresh
  <2>4. HeapLive(h1)
    BY <1>4, <1>5, <2>3, WrittenLive
  <2> QED
    BY <1>3, <2>1, <2>4 DEF Sound
<1>7. CASE x # None
  <2>1. Collect(h2)
    BY <1>7 DEF Attach, Onto
  <2>2. x \in Used /\ x \in Obj /\ heap[x].iri = i
    BY <1>7, UsedInObj DEF Within, Filed, KeyedIn
  <2> HIDE DEF x
  <2>3. h2[new[1]] = h2[x]
    <3> DEFINE copy == Assigned(Loaded(heap, rows, new), {new[k] : k \in DOMAIN new})
    <3>1. h2 = [copy EXCEPT ![x] = copy[new[1]]]
      BY DEF Onto
    <3>2. DOMAIN copy = Obj
      BY DEF Assigned
    <3> HIDE DEF copy, h2
    <3>3. new[1] \in Obj
      BY <1>5
    <3>4. h2[x] = copy[new[1]] /\ h2[new[1]] = copy[new[1]]
      BY <2>2, <3>1, <3>2, <3>3
    <3> QED
      BY <3>4
  <2>4. /\ h2 \in [Obj -> Node]
        /\ \A y \in Used \ {x} : h2[y] = heap[y]
        /\ \A y \in Obj \ {x} :
             h2[y] # Loaded(heap, rows, new)[y] => y \in {new[k] : k \in 1 .. L}
    BY <1>1, <2>2, OntoLine, SMTT(30)
  <2>b. \E b \in [1 .. L -> Obj] :
          /\ b[1] = x
          /\ \A k \in 2 .. L : b[k] = new[k]
          /\ \A k \in 1 .. L : h2[b[k]].iri = rows[k].iri /\ h2[b[k]].name = rows[k].name
          /\ \A k \in 1 .. L - 1 : h2[b[k]].rel = b[k + 1]
          /\ h2[b[L]].rel \in {rows[L].rel, None} \ Obj
          /\ h2[b[L]].rel # rows[L].rel => rows[L].rel = Unset
    BY <1>1, <2>2, OntoLine, SMTT(30)
  <2> HIDE DEF h2, L
  <2> PICK b \in [1 .. L -> Obj] :
        /\ b[1] = x
        /\ \A k \in 2 .. L : b[k] = new[k]
        /\ \A k \in 1 .. L : h2[b[k]].iri = rows[k].iri /\ h2[b[k]].name = rows[k].name
        /\ \A k \in 1 .. L - 1 : h2[b[k]].rel = b[k + 1]
        /\ h2[b[L]].rel \notin Obj
    BY <2>b
  <2> DEFINE W == fresh \cup {x}
  <2>5. \A k \in 2 .. L : b[k] \in W
    <3>1. \A k \in 2 .. L : k \in 1 .. L
      BY <1>3
    <3> QED
      BY <3>1
  <2>6. ASSUME NEW k \in 1 .. L
        PROVE  /\ h2[b[k]].iri # None /\ h2[b[k]].name \in Names
               /\ h2[b[k]].rel \in Obj => h2[b[k]].rel \in W
    <3>1. CASE k = L
      BY <1>2, <3>1
    <3>2. CASE k # L
      <4>1. k \in 1 .. L - 1 /\ k + 1 \in 2 .. L
        BY <1>3, <3>2
      <4> QED
        BY <1>2, <2>5, <4>1
    <3> QED
      BY <3>1, <3>2
  <2>7. ASSUME NEW y \in W
        PROVE  /\ h2[y].iri # None /\ h2[y].name \in Names
               /\ h2[y].rel \in Obj => h2[y].rel \in W
    <3>1. \A k \in 1 .. L : k # 1 => k \in 2 .. L
      BY <1>3
    <3>2. y = x \/ y = new[1] \/ \E k \in 2 .. L : y = b[k]
      BY <3>1
    <3>3. CASE y = x \/ y = new[1]
      BY <1>5, <2>3, <2>6, <3>3
    <3>4. CASE \E k \in 2 .. L : y = b[k]
      <4>1. \A k \in 2 .. L : k \in 1 .. L
        BY <1>3
      <4> QED
        BY <2>6, <3>4, <4>1
    <3> QED
      BY <3>2, <3>3, <3>4
  <2>8. W \subseteq Obj /\ \A y \in Obj \ W : h2[y] = heap[y]
    BY <1>4, <1>5, <2>2, <2>4 DEF h1
  <2> HIDE DEF W
  <2>9. HeapLive(h2)
    BY <2>7, <2>8, WrittenLive
  <2>10. h2[x].iri = heap[x].iri
    BY <1>5, <2>2
  <2>11. \A y \in Used : h2[y].iri = heap[y].iri
    BY <2>4, <2>10
  <2> QED
    BY <2>1, <2>4, <2>9, <2>11 DEF Sound
<1> QED
  BY <1>6, <1>7

\* So does a merge.
LEMMA MergeSound ==
  ASSUME CoreInv, HeapLive(heap), Merge
  PROVE  \E h : Sound(h) /\ Collect(h)
<1> DEFINE i == MineIri
           y == cache.identity[i]
           below == Embeds(heap, mine) \ {1}
           count == Cardinality(below)
<1>1. mine \in Obj /\ i \in Iris /\ heap \in [Obj -> Node] /\ Filed(cache, heap)
  BY HoldsOne DEF Merge, Body, OnInstance, CoreInv, HeapInv, HeapOK
<1>2. CASE y = None
  <2>1. Collect(heap)
    BY <1>2 DEF Merge
  <2> QED
    BY <1>1, <2>1 DEF Sound
<1>3. CASE y # None
  <2>1. PICK new \in Allocations(count, Used) : Collect(Merged(new, y))
    BY <1>3 DEF Merge, Merged
  <2> DEFINE h == Merged(new, y)
             c == Chain(heap, mine)
             at(o) == {k \in Embeds(heap, mine) : k - 1 \in DOMAIN new /\ new[k - 1] = o}
             W == {o \in Obj : at(o) # {}} \cup {y}
             h1 == Copied(heap, mine, new)
             rel == IF 1 \in DOMAIN new THEN new[1]
                    ELSE IF heap[mine].rel = Unset THEN heap[y].rel
                    ELSE heap[mine].rel
  <2>2. y \in Obj /\ y \in Used /\ heap[y].iri = i /\ i # None
    BY <1>1, <1>3, HeldIsUsed, ItemAssumption DEF CoreInv, Within, Filed, Cache, KeyedIn
  <2>3. new \in [1 .. count -> Obj \ Used]
    BY DEF Allocations
  <2>4. PICK m \in Nat : m >= 1 /\ Embeds(heap, mine) = 1 .. m
    BY <1>1, EmbedsInterval
  <2>5. count = m - 1
    <3>1. IsFiniteSet(1 .. m) /\ Cardinality(1 .. m) = m
      BY <2>4, FS_Interval
    <3>2. 1 \in 1 .. m
      BY <2>4
    <3> QED
      BY <2>4, <3>1, <3>2, FS_RemoveElement
  <2>6. /\ h \in [Obj -> Node]
        /\ \A o \in Used : h[o].iri = heap[o].iri
    <3> HIDE DEF h, y, count
    <3>1. h = Merged(new, y)
      BY DEF h
    <3> QED
      BY <1>1, <2>2, <2>3, <3>1, MergedOK
  <2>7. ASSUME NEW k \in 1 .. count PROVE new[k] \in W
    <3>1. k + 1 \in 1 .. m /\ (k + 1) - 1 = k
      BY <2>4, <2>5
    <3>2. k + 1 \in at(new[k])
      BY <2>3, <2>4, <3>1
    <3> QED
      BY <2>3, <3>2
  <2>8. ASSUME NEW k \in Embeds(heap, mine)
        PROVE  c[k] \in Obj /\ heap[c[k]].iri # None
    <3>1. k \in DOMAIN c /\ c[k] \in Obj
      BY DEF Embeds
    <3>2. c[k] \in ChainObjs(heap, mine)
      BY <3>1 DEF ChainObjs
    <3> QED
      BY <1>1, <2>2, <3>1, <3>2, ChainLive DEF MineIri
  <2>9. h1 \in [Obj -> Node] /\ h = [h1 EXCEPT ![y].name = heap[mine].name, ![y].rel = rel]
    <3>1. h = [h1 EXCEPT ![y].name = heap[mine].name, ![y].rel = rel]
      BY DEF Merged
    <3>2. ASSUME NEW o \in Obj PROVE h1[o] \in Node
      <4> DEFINE k == CHOOSE k \in at(o) : TRUE
                 link == IF k \in DOMAIN new THEN new[k] ELSE heap[c[k]].rel
      <4>1. h1[o] = IF at(o) = {} THEN heap[o] ELSE [heap[c[k]] EXCEPT !.rel = link]
        BY DEF Copied
      <4>2. CASE at(o) = {}
        BY <1>1, <4>1, <4>2
      <4>3. CASE at(o) # {}
        <5>1. c[k] \in Obj
          BY <2>8, <4>3
        <5>2. heap[c[k]] \in Node /\ (k \in DOMAIN new => new[k] \in Obj)
          BY <1>1, <2>3, <5>1
        <5> HIDE DEF k, c
        <5>3. link \in Item
          BY <5>2 DEF Node, Item
        <5> HIDE DEF link
        <5> QED
          BY <4>1, <4>3, <5>2, <5>3 DEF Node
      <4> QED
        BY <4>2, <4>3
    <3> QED
      BY <3>1, <3>2 DEF Copied
  <2>10. ASSUME NEW o \in Obj, at(o) # {}
         PROVE  /\ h1[o].iri # None /\ h1[o].name \in Names
                /\ h1[o].rel \in Obj => h1[o].rel \in W \/ heap[h1[o].rel].iri # None
    <3> DEFINE k == CHOOSE k \in at(o) : TRUE
               link == IF k \in DOMAIN new THEN new[k] ELSE heap[c[k]].rel
    <3>1. h1[o] = [heap[c[k]] EXCEPT !.rel = link]
      BY <2>10 DEF Copied
    <3>2. c[k] \in Obj /\ heap[c[k]].iri # None
      BY <2>8, <2>10
    <3>3. heap[c[k]] \in Node
      BY <1>1, <3>2
    <3>4. k \in DOMAIN new => new[k] \in W
      BY <2>3, <2>7
    <3> HIDE DEF k, c, W
    <3>5. link \in Obj => link \in W \/ heap[link].iri # None
      BY <3>2, <3>4 DEF HeapLive
    <3>6. heap[c[k]].name \in Names
      BY <3>2 DEF HeapLive
    <3> HIDE DEF link
    <3>7. h1[o].iri = heap[c[k]].iri /\ h1[o].name = heap[c[k]].name /\ h1[o].rel = link
      BY <3>1, <3>3 DEF Node
    <3> QED
      BY <3>2, <3>5, <3>6, <3>7
  <2>11. rel \in Obj => rel \in W \/ heap[rel].iri # None
    <3>1. 1 \in DOMAIN new => new[1] \in W
      BY <2>3, <2>7
    <3>2. heap[mine].iri # None
      BY <2>2 DEF MineIri
    <3> HIDE DEF W, y
    <3> QED
      BY <1>1, <2>2, <3>1, <3>2 DEF HeapLive
  <2>12. W \subseteq Obj
    BY <2>2
  <2>13. \A o \in Obj \ W : h1[o] = heap[o]
    BY DEF Copied
  <2>14. heap[mine].name \in Names
    BY <1>1, <2>2 DEF HeapLive, MineIri
  <2>15. y \in W /\ \A o \in W : o = y \/ at(o) # {}
    OBVIOUS
  <2>16. h[y].iri # None
    BY <2>2, <2>6
  <2> HIDE DEF W, h1, rel, y, h, at
  <2>17. /\ h[y].name = heap[mine].name /\ h[y].rel = rel
         /\ \A o \in Obj \ {y} : h[o] = h1[o]
    BY <2>2, <2>9 DEF Node
  <2>18. HeapLive(h)
    <3>1. \A o \in Obj \ W : h[o] = heap[o]
      BY <2>13, <2>15, <2>17
    <3>2. ASSUME NEW o \in W
          PROVE  /\ h[o].iri # None /\ h[o].name \in Names
                 /\ h[o].rel \in Obj => h[o].rel \in W \/ heap[h[o].rel].iri # None
      BY <2>10, <2>11, <2>12, <2>14, <2>15, <2>16, <2>17
    <3> QED
      BY <2>12, <3>1, <3>2, WrittenLive
  <2> QED
    BY <2>1, <2>6, <2>18 DEF Sound, h
<1> QED
  BY <1>2, <1>3

\* So does the construction of an instance, and an assignment to one of its fields.
LEMMA EditsSound ==
  ASSUME CoreInv, HeapLive(heap), New \/ Edit
  PROVE  \E h : Sound(h) /\ Collect(h)
<1>1. /\ heap \in [Obj -> Node] /\ mine \in Obj \cup {None}
      /\ mine # None => MineIri \in Iris /\ heap[mine].iri # None
  BY ItemAssumption DEF CoreInv, HeapInv, HeapOK, MineIri
<1>2. ASSUME NEW i \in Iris PROVE Children[i] \subseteq Iris
  BY <1>2, ShapeAssumption
<1>3. CASE New
  <2>1. PICK new \in Allocations(1, Used), i \in Iris, n \in Names :
          \E t \in {Unset} \cup Children[i] \cup (IF mine # None THEN {mine} ELSE {}) :
            Collect([heap EXCEPT ![new[1]] = [iri |-> i, name |-> n, rel |-> t]])
    BY <1>3 DEF New
  <2>a. PICK t \in {Unset} \cup Children[i] \cup (IF mine # None THEN {mine} ELSE {}) :
        Collect([heap EXCEPT ![new[1]] = [iri |-> i, name |-> n, rel |-> t]])
    BY <2>1
  <2> DEFINE o == new[1]
             h == [heap EXCEPT ![o] = [iri |-> i, name |-> n, rel |-> t]]
  <2>2. o \in Obj \ Used
    BY DEF Allocations
  <2>3. [iri |-> i, name |-> n, rel |-> t] \in Node
    BY <1>1, <1>2 DEF Node, Item
  <2>4. t \in Obj => heap[t].iri # None
    BY <1>1, <1>2, ItemAssumption
  <2> HIDE DEF o
  <2>5. /\ h \in [Obj -> Node] /\ h[o] = [iri |-> i, name |-> n, rel |-> t]
        /\ \A x \in Obj \ {o} : h[x] = heap[x]
    BY <1>1, <2>2, <2>3
  <2> HIDE DEF h
  <2>6. \A x \in Used : h[x].iri = heap[x].iri
    BY <2>2, <2>5, UsedInObj
  <2>7. /\ h[o].iri # None /\ h[o].name \in Names
        /\ h[o].rel \in Obj => h[o].rel \in {o} \/ heap[h[o].rel].iri # None
    BY <2>4, <2>5, ItemAssumption
  <2>8. HeapLive(h)
    <3>1. \A x \in Obj \ {o} : h[x] = heap[x] /\ h[x].iri = heap[x].iri
      BY <2>5
    <3>2. \A x \in Obj : heap[x].iri # None => h[x].iri # None
      BY <2>7, <3>1
    <3> QED
      BY <2>7, <3>1, <3>2 DEF HeapLive
  <2> QED
    BY <2>a, <2>5, <2>6, <2>8 DEF Sound, h, o
<1>4. CASE Edit
  <2>1. mine \in Obj /\ MineIri \in Iris /\ heap[mine].iri # None
    BY <1>1, <1>4 DEF Edit
  <2>2. ASSUME NEW n \in Names, Collect([heap EXCEPT ![mine].name = n])
        PROVE  \E h : Sound(h) /\ Collect(h)
    <3> DEFINE h == [heap EXCEPT ![mine].name = n]
    <3>1. /\ h \in [Obj -> Node] /\ \A x \in Obj : h[x].iri = heap[x].iri
          /\ h[mine].name = n /\ h[mine].rel = heap[mine].rel
          /\ \A x \in Obj \ {mine} : h[x] = heap[x]
      BY <1>1, <2>1 DEF Node
    <3> HIDE DEF h
    <3>2. HeapLive(h)
      BY <2>1, <3>1 DEF HeapLive
    <3> QED
      BY <2>2, <3>1, <3>2, UsedInObj DEF Sound, h
  <2>3. ASSUME NEW t \in {None} \cup Children[MineIri], Collect([heap EXCEPT ![mine].rel = t])
        PROVE  \E h : Sound(h) /\ Collect(h)
    <3> DEFINE h == [heap EXCEPT ![mine].rel = t]
    <3>1. t \in Item /\ t \notin Obj
      BY <1>2, <2>1, ItemAssumption DEF Item
    <3>2. /\ h \in [Obj -> Node] /\ \A x \in Obj : h[x].iri = heap[x].iri
          /\ h[mine].name = heap[mine].name /\ h[mine].rel = t
          /\ \A x \in Obj \ {mine} : h[x] = heap[x]
      BY <1>1, <2>1, <3>1 DEF Node
    <3> HIDE DEF h
    <3>3. HeapLive(h)
      BY <2>1, <3>1, <3>2 DEF HeapLive
    <3> QED
      BY <2>3, <3>2, <3>3, UsedInObj DEF Sound, h
  <2> QED
    BY <1>4, <2>2, <2>3 DEF Edit
<1> QED
  BY <1>3, <1>4

LEMMA SameSound ==
  ASSUME HeapInv, HeapLive(heap), Collect(heap)
  PROVE  \E h : Sound(h) /\ Collect(h)
  BY DEF Sound, HeapInv, HeapOK

LEMMA HydratesSound ==
  ASSUME NEW c, NEW g, NEW i \in Iris, NEW depth, HeapInv, HeapLive(heap),
         Filed(c, heap), Within(c, Used), Hydrates(c, g, i, depth)
  PROVE  \E h : Sound(h) /\ Collect(h)
<1>1. PICK rows \in Loads(g, i, depth) :
        /\ ~LoadRaises(rows)
        /\ \E new \in Allocations(Len(rows), Used) : Attach(c, g, i, depth, rows, new)
  BY DEF Hydrates
<1>2. PICK new \in Allocations(Len(rows), Used) : Attach(c, g, i, depth, rows, new)
  BY <1>1
<1>3. rows \in Seq(LoadedRow) /\ Len(rows) >= 1 /\ rows[1].iri = i
  BY LoadsStartAtRoot
<1> QED
  BY <1>1, <1>2, <1>3, AttachSound

LEMMA LookupSound ==
  ASSUME NEW c, NEW g, NEW i \in Iris, NEW depth, HeapInv, HeapLive(heap),
         Filed(c, heap), Within(c, Used),
         LookupAnswers(c, g, i, depth) \/ LookupRaises(c, g, i, depth)
  PROVE  \E h : Sound(h) /\ Collect(h)
<1>1. CASE Collect(heap)
  BY <1>1, SameSound
<1>2. CASE Hydrates(AfterMiss(c, g, i, depth), g, i, depth)
  BY <1>2, AfterMissOK, HydratesSound
<1> QED
  BY <1>1, <1>2 DEF LookupAnswers, LookupRaises, HydrationRaises

LEMMA GetSound ==
  ASSUME NEW i \in Iris, NEW depth, HeapInv, HeapLive(heap),
         GetAnswers(i, depth) \/ GetRaises(i, depth)
  PROVE  \E h : Sound(h) /\ Collect(h)
<1>1. CASE LookupAnswers(Synced, graph, i, depth) \/ LookupRaises(Synced, graph, i, depth)
  BY <1>1, SyncedOK, LookupSound
<1>2. CASE \/ LookupAnswers(Evicted(Synced, i), Pulled(i), i, depth)
           \/ LookupRaises(Evicted(Synced, i), Pulled(i), i, depth)
  BY <1>2, SyncedOK, LookupSound
<1>3. CASE PullRaises(i)
  BY <1>3, SameSound DEF PullRaises
<1> QED
  BY <1>1, <1>2, <1>3 DEF GetAnswers, GetRaises

\* What a step does to the objects: nothing, a new start, or sound contents of which
\* what is still referenced is left.
LEMMA StepSound ==
  ASSUME CoreInv, HeapLive(heap), [Next]_vars
  PROVE  Restart \/ UNCHANGED heap \/ \E h : Sound(h) /\ Collect(h)
<1>1. HeapInv
  BY DEF CoreInv
<1>2. CASE Collect(heap)
  BY <1>1, <1>2, SameSound
<1>3. CASE FlushPut \/ FlushRaises \/ FlushDone \/ Put \/ Queue \/ Add \/ Delete \/ Select
           \/ Expire \/ Expunge \/ ExpungeAll \/ Rollback \/ ExitError
  BY <1>2, <1>3
     DEF FlushPut, FlushRaises, FlushDone, Put, Queue, Add, Delete, Select, Expire, Expunge,
         ExpungeAll, Rollback, ExitError
<1>4. CASE New \/ Edit
  BY <1>4, EditsSound
<1>5. CASE Get
  <2>1. PICK c \in CallsOf("get") : GetAnswers(c.iri, c.depth) \/ GetRaises(c.iri, c.depth)
    BY <1>5 DEF Get
  <2>2. c.iri \in Iris
    BY DEF CallsOf
  <2> QED
    BY <1>1, <2>1, <2>2, GetSound
<1>6. CASE HydrateRow
  <2>1. PICK i \in call.left : GetAnswers(i, call.depth) \/ GetRaises(i, call.depth)
    BY <1>6 DEF HydrateRow
  <2>2. i \in Iris
    BY DEF CoreInv, ControlInv, Calls
  <2> QED
    BY <1>1, <2>1, <2>2, GetSound
<1>7. CASE Refresh
  <2>1. PICK c \in CallsOf("refresh") :
          \/ NoPull(MineIri) /\ Reload(Synced, graph, MineIri, c.depth)
          \/ /\ PullAnswers(MineIri)
             /\ Reload(Evicted(Synced, MineIri), Pulled(MineIri), MineIri, c.depth)
          \/ PullRaises(MineIri)
    BY <1>7 DEF Refresh
  <2>2. MineIri \in Iris
    BY <1>7, HoldsOne DEF Refresh, OnInstance
  <2>3. ASSUME NEW d, NEW g, Filed(d, heap), Within(d, Used), Reload(d, g, MineIri, c.depth)
        PROVE  \E h : Sound(h) /\ Collect(h)
    <3>1. Hydrates(d, g, MineIri, c.depth) \/ Collect(heap)
      BY <2>3 DEF Reload, HydrationRaises
    <3>2. CASE Hydrates(d, g, MineIri, c.depth)
      BY <1>1, <2>2, <2>3, <3>2, HydratesSound
    <3>3. CASE Collect(heap)
      BY <1>1, <3>3, SameSound
    <3> QED
      BY <3>1, <3>2, <3>3
  <2>4. CASE PullRaises(MineIri)
    BY <1>2, <2>4 DEF PullRaises
  <2> QED
    BY <1>1, <2>1, <2>3, <2>4, SyncedOK
<1>8. CASE Merge
  BY <1>8, MergeSound
<1>9. CASE BeginFlush \/ SelectRaises \/ RowsDone \/ Execute \/ FlushCall \/ Close \/ Exit
           \/ SyncMirror \/ ForeignWrite \/ UNCHANGED vars
  BY <1>9
     DEF BeginFlush, SelectRaises, RowsDone, Execute, FlushCall, Close, Exit, SyncMirror,
         ForeignWrite, vars
<1> QED
  BY <1>3, <1>4, <1>5, <1>6, <1>7, <1>8, <1>9 DEF Next, CallStep

-----------------------------------------------------------------------------
(* The graph                                                               *)

LEMMA NestedInChain ==
  ASSUME NEW h, NEW o
  PROVE  NestedModels(h, o) \subseteq ChainObjs(h, o)
  BY DEF NestedModels, CascadePositions, Embeds, ChainObjs

\* What a live object writes are triples.
LEMMA ModelGraphTyped ==
  ASSUME NEW h \in [Obj -> Node], HeapLive(h), NEW o \in Obj, h[o].iri # None
  PROVE  ModelGraph(h, o) \subseteq Triple
<1> SUFFICES ASSUME NEW m \in NestedModels(h, o) PROVE InstanceTriples(h, m) \subseteq Triple
  BY DEF ModelGraph
<1>1. m \in Obj /\ h[m].iri # None
  BY NestedInChain, ChainLive DEF ChainObjs
<1>2. /\ h[m].iri \in Iris /\ h[m].name \in Names
      /\ h[m].rel \in Obj => h[h[m].rel].iri \in Iris
  <2>1. /\ h[m] \in Node /\ h[m].name \in Names
        /\ h[m].rel \in Obj => h[h[m].rel] \in Node /\ h[h[m].rel].iri # None
    BY <1>1 DEF HeapLive
  <2> QED
    BY <1>1, <2>1 DEF Node
<1>3. TargetOf(h, h[m].rel) \subseteq Iris
  BY <1>2 DEF TargetOf
<1> QED
  BY <1>2, <1>3 DEF InstanceTriples, Triple

Triples == graph \subseteq Triple /\ remote \subseteq Triple

LEMMA StoreTyped ==
  ASSUME Triples, NEW gone, NEW new, new \subseteq Triple,
         StoreApplies(gone, new) \/ (StoreRaises(gone, new) /\ UNCHANGED graph)
  PROVE  Triples'
  BY DEF Triples, StoreApplies, StoreRaises

LEMMA PutTyped ==
  ASSUME Triples, HeapInv, HeapLive(heap), NEW x \in Obj, heap[x].iri # None,
         PutSucceeds(x) \/ PutFails(x)
  PROVE  Triples'
<1>1. ModelGraph(heap, x) \subseteq Triple
  BY ModelGraphTyped DEF HeapInv, HeapOK
<1>2. CASE StoreApplies(PutRemoves(x), ModelGraph(heap, x))
  BY <1>1, <1>2, StoreTyped
<1>3. CASE StoreRaises(PutRemoves(x), ModelGraph(heap, x))
  BY <1>1, <1>3, StoreTyped DEF StoreRaises
<1>4. CASE UNCHANGED <<graph, remote>>
  BY <1>4 DEF Triples
<1> QED
  BY <1>2, <1>3, <1>4 DEF PutSucceeds, PutFails

LEMMA ReadTyped ==
  ASSUME Triples, NEW i, NoPull(i) \/ PullAnswers(i) \/ PullRaises(i)
  PROVE  Triples'
  BY DEF Triples, NoPull, PullAnswers, PullRaises, Pulled, SubjectTriples

-----------------------------------------------------------------------------
(* The queue                                                               *)

\* A queue of live objects of different resources.
Queued(q, h) ==
  /\ q \in Seq(Obj)
  /\ \A n \in DOMAIN q : h[q[n]].iri # None
  /\ \A m, n \in DOMAIN q : h[q[m]].iri = h[q[n]].iri => m = n

LEMMA NothingQueued == ASSUME NEW h PROVE Queued(<<>>, h)
  BY DEF Queued

LEMMA RemoveQueued ==
  ASSUME NEW q, NEW h, NEW subjects, Queued(q, h)
  PROVE  /\ Queued(RemovePending(q, h, subjects), h)
         /\ PendingObjs(RemovePending(q, h, subjects)) \subseteq PendingObjs(q)
         /\ \A n \in DOMAIN RemovePending(q, h, subjects) :
              h[RemovePending(q, h, subjects)[n]].iri \notin subjects
<1> DEFINE at == {n \in DOMAIN q : h[q[n]].iri \notin subjects}
           r == Kept(q, at)
<1>1. r \in Seq(Obj) /\ Picks(r, q, DOMAIN q \cap at)
  BY KeptPicks DEF Queued
<1>2. RemovePending(q, h, subjects) = r
  BY DEF RemovePending
<1>3. DOMAIN q \cap at = at /\ at \subseteq DOMAIN q
  OBVIOUS
<1> HIDE DEF r
<1>4. DOMAIN r = 1 .. Len(r)
  BY <1>1
<1>5. PICK p \in [DOMAIN r -> at] :
        /\ \A k \in DOMAIN r : r[k] = q[p[k]]
        /\ \A j, k \in DOMAIN r : p[j] = p[k] => j = k
  BY <1>1, <1>3, <1>4 DEF Picks
<1>6. \A k \in DOMAIN r : /\ r[k] = q[p[k]] /\ p[k] \in DOMAIN q
                          /\ h[q[p[k]]].iri \notin subjects
  BY <1>5
<1> HIDE DEF at
<1>7. Queued(r, h)
  BY <1>1, <1>5, <1>6 DEF Queued
<1>8. PendingObjs(r) \subseteq PendingObjs(q)
  BY <1>6 DEF PendingObjs
<1> QED
  BY <1>2, <1>6, <1>7, <1>8

LEMMA AppendQueued ==
  ASSUME NEW q, NEW h, NEW o \in Obj, Queued(q, h), h[o].iri # None,
         \A n \in DOMAIN q : h[q[n]].iri # h[o].iri
  PROVE  Queued(Append(q, o), h) /\ PendingObjs(Append(q, o)) = PendingObjs(q) \cup {o}
<1> DEFINE L == Len(q)
           r == Append(q, o)
<1>1. q \in Seq(Obj)
  BY DEF Queued
<1>2. L \in Nat /\ DOMAIN q = 1 .. L
  BY <1>1
<1>3. r \in Seq(Obj) /\ Len(r) = L + 1 /\ r[L + 1] = o /\ \A n \in 1 .. L : r[n] = q[n]
  BY <1>1
<1>4. DOMAIN r = 1 .. L + 1
  BY <1>3
<1> HIDE DEF L, r
<1>5. \A n \in DOMAIN r : n \in DOMAIN q \/ n = L + 1
  BY <1>2, <1>4
<1>6. \A n \in DOMAIN q : n \in DOMAIN r /\ r[n] = q[n]
  BY <1>2, <1>3, <1>4
<1>7. L + 1 \in DOMAIN r
  BY <1>2, <1>4
<1>8. Queued(r, h)
  BY <1>3, <1>5, <1>6 DEF Queued
<1>9. PendingObjs(r) = PendingObjs(q) \cup {o}
  BY <1>3, <1>5, <1>6, <1>7 DEF PendingObjs
<1> QED
  BY <1>8, <1>9 DEF r

LEMMA AddQueued ==
  ASSUME NEW q, NEW h, NEW o \in Obj, Queued(q, h), h[o].iri # None
  PROVE  /\ Queued(AddPending(q, h, o), h)
         /\ PendingObjs(AddPending(q, h, o)) \subseteq PendingObjs(q) \cup {o}
<1> DEFINE r == RemovePending(q, h, {h[o].iri})
<1>1. /\ Queued(r, h) /\ PendingObjs(r) \subseteq PendingObjs(q)
      /\ \A n \in DOMAIN r : h[r[n]].iri # h[o].iri
  BY RemoveQueued
<1>2. AddPending(q, h, o) = Append(r, o)
  BY DEF AddPending
<1> HIDE DEF r
<1>3. Queued(Append(r, o), h) /\ PendingObjs(Append(r, o)) = PendingObjs(r) \cup {o}
  BY <1>1, AppendQueued
<1> QED
  BY <1>1, <1>2, <1>3

LEMMA RemoveKeeps ==
  ASSUME NEW q, NEW h, NEW subjects, Queued(q, h), NEW x \in PendingObjs(q),
         h[x].iri \notin subjects
  PROVE  x \in PendingObjs(RemovePending(q, h, subjects))
<1> DEFINE at == {n \in DOMAIN q : h[q[n]].iri \notin subjects}
<1>1. PICK n \in DOMAIN q : x = q[n]
  BY DEF PendingObjs
<1>2. n \in DOMAIN q \cap at
  BY <1>1
<1>3. q \in Seq(Obj) /\ RemovePending(q, h, subjects) = Kept(q, at)
  BY DEF RemovePending, Queued
<1> HIDE DEF at
<1>4. \E k \in DOMAIN Kept(q, at) : Kept(q, at)[k] = x
  BY <1>1, <1>2, <1>3, KeptHas
<1> QED
  BY <1>3, <1>4 DEF PendingObjs

LEMMA AddKeeps ==
  ASSUME NEW q, NEW h, NEW o \in Obj, Queued(q, h), h[o].iri # None,
         NEW x \in PendingObjs(q), h[x].iri # h[o].iri
  PROVE  x \in PendingObjs(AddPending(q, h, o))
<1> DEFINE r == RemovePending(q, h, {h[o].iri})
<1>1. Queued(r, h) /\ \A n \in DOMAIN r : h[r[n]].iri # h[o].iri
  BY RemoveQueued
<1>2. x \in PendingObjs(r)
  BY RemoveKeeps
<1>3. AddPending(q, h, o) = Append(r, o)
  BY DEF AddPending
<1> HIDE DEF r
<1>4. PendingObjs(Append(r, o)) = PendingObjs(r) \cup {o}
  BY <1>1, AppendQueued
<1> QED
  BY <1>2, <1>3, <1>4

LEMMA TailQueued ==
  ASSUME NEW q, NEW h, Queued(q, h), q # <<>>
  PROVE  /\ Queued(Tail(q), h) /\ PendingObjs(Tail(q)) \subseteq PendingObjs(q)
         /\ Head(q) \in Obj /\ h[Head(q)].iri # None
<1> DEFINE L == Len(q)
           r == Tail(q)
<1>1. q \in Seq(Obj)
  BY DEF Queued
<1>2. L \in Nat /\ L >= 1 /\ DOMAIN q = 1 .. L
  BY <1>1, EmptySeq
<1>3. r \in Seq(Obj) /\ Len(r) = L - 1 /\ \A n \in 1 .. L - 1 : r[n] = q[n + 1]
  BY <1>1, <1>2
<1>4. Head(q) = q[1] /\ 1 \in DOMAIN q
  BY <1>2
<1>5. DOMAIN r = 1 .. L - 1
  BY <1>3
<1> HIDE DEF L, r
<1>6. \A n \in DOMAIN r : n + 1 \in DOMAIN q /\ r[n] = q[n + 1]
  BY <1>2, <1>3, <1>5
<1>7. \A m, n \in DOMAIN r : m + 1 = n + 1 => m = n
  BY <1>2, <1>5
<1>8. Queued(r, h) /\ PendingObjs(r) \subseteq PendingObjs(q)
  BY <1>3, <1>6, <1>7 DEF Queued, PendingObjs
<1>9. Head(q) \in Obj /\ h[Head(q)].iri # None
  BY <1>1, <1>4, ElementOfSeq DEF Queued
<1> QED
  BY <1>8, <1>9 DEF r

\* Queueing again in turn what is queued gives the same queue.
LEMMA RequeuedSame ==
  ASSUME NEW q, NEW h, Queued(q, h)
  PROVE  Requeued(q, h) = q
<1> DEFINE L == Len(q)
           part == [n \in 0 .. L |-> SubSeq(q, 1, n)]
           Turn(f) == [n \in 0 .. L |-> IF n = 0 THEN <<>> ELSE AddPending(f[n - 1], h, q[n])]
<1>1. q \in Seq(Obj) /\ L \in Nat /\ DOMAIN q = 1 .. L /\ \A n \in 1 .. L : q[n] \in Obj
  <2>1. q \in Seq(Obj)
    BY DEF Queued
  <2> QED
    BY <2>1, ElementOfSeq
<1>2. ASSUME NEW n \in 0 .. L
      PROVE  /\ part[n] \in Seq(Obj) /\ Len(part[n]) = n
             /\ \A k \in 1 .. n : part[n][k] = q[k]
  BY <1>1, SubSeqProperties
<1>3. part[0] = <<>>
  BY <1>1, <1>2, EmptySeq
<1> HIDE DEF part
<1>4. ASSUME NEW n \in 1 .. L PROVE part[n] = AddPending(part[n - 1], h, q[n])
  <2> DEFINE s == part[n - 1]
             at == {k \in DOMAIN s : h[s[k]].iri \notin {h[q[n]].iri}}
  <2>1. n - 1 \in 0 .. L /\ n \in 0 .. L /\ n - 1 \in Nat /\ (n - 1) + 1 = n
    BY <1>1
  <2>2. s \in Seq(Obj) /\ Len(s) = n - 1 /\ \A k \in 1 .. n - 1 : s[k] = q[k]
    BY <1>2, <2>1
  <2>3. DOMAIN s = 1 .. n - 1
    BY <2>2
  <2> HIDE DEF s
  <2>4. \A k \in 1 .. n - 1 : k \in 1 .. L /\ k # n
    BY <1>1
  <2>5. DOMAIN s \subseteq at
    BY <1>1, <2>2, <2>3, <2>4 DEF Queued
  <2>6. Kept(s, at) = s
    BY <2>2, <2>5, KeptAll
  <2>7. AddPending(s, h, q[n]) = Append(s, q[n])
    BY <2>6 DEF AddPending, RemovePending
  <2> HIDE DEF at
  <2>8. /\ Append(s, q[n]) \in Seq(Obj) /\ Len(Append(s, q[n])) = n
        /\ \A k \in 1 .. n : Append(s, q[n])[k] = q[k]
    <3>1. q[n] \in Obj
      BY <1>1
    <3>2. \A k \in 1 .. n : k = n \/ k \in 1 .. n - 1
      BY <1>1
    <3>3. Append(s, q[n]) \in Seq(Obj) /\ Len(Append(s, q[n])) = (n - 1) + 1
      BY <2>2, <3>1
    <3>4. Append(s, q[n])[(n - 1) + 1] = q[n] /\ \A k \in 1 .. n - 1 : Append(s, q[n])[k] = s[k]
      BY <2>1, <2>2, <3>1
    <3> QED
      BY <2>1, <2>2, <3>2, <3>3, <3>4
  <2>9. part[n] = Append(s, q[n])
    <3>1. /\ part[n] \in Seq(Obj) /\ Len(part[n]) = n
          /\ \A k \in 1 .. n : part[n][k] = q[k]
      BY <1>2, <2>1
    <3> QED
      BY <2>8, <3>1, SeqEqual
  <2> QED
    BY <2>7, <2>9 DEF s
<1>5. part = Turn(part)
  <2>1. part = [n \in 0 .. L |-> part[n]]
    BY DEF part
  <2>2. \A n \in 0 .. L : n = 0 \/ n \in 1 .. L
    BY <1>1
  <2>3. \A n \in 0 .. L : part[n] = IF n = 0 THEN <<>> ELSE AddPending(part[n - 1], h, q[n])
    BY <1>3, <1>4, <2>2
  <2> HIDE DEF L
  <2> QED
    BY <2>1, <2>3
<1> DEFINE added == CHOOSE f : f = Turn(f)
<1>6. added = Turn(added)
  <2> HIDE DEF Turn
  <2> QED
    BY <1>5
<1>7. Requeued(q, h) = added[L]
  BY DEF Requeued, AddedInTurn
<1> HIDE DEF added, L
<1> DEFINE S == {n \in Nat : n <= L => added[n] = part[n]}
<1>8. 0 \in S
  <2>1. 0 \in 0 .. L
    BY <1>1
  <2>2. added[0] = <<>>
    BY <1>6, <2>1
  <2> QED
    BY <1>3, <2>2
<1>9. ASSUME NEW n \in Nat, n \in S PROVE n + 1 \in S
  <2> SUFFICES ASSUME n + 1 <= L PROVE added[n + 1] = part[n + 1]
    OBVIOUS
  <2>1. /\ n + 1 \in 0 .. L /\ n + 1 \in 1 .. L /\ n + 1 # 0 /\ (n + 1) - 1 = n /\ n <= L
    BY <1>1
  <2>2. added[n] = part[n]
    BY <1>9, <2>1
  <2>3. added[n + 1] = AddPending(added[n], h, q[n + 1])
    BY <1>6, <2>1
  <2>4. part[n + 1] = AddPending(part[n], h, q[n + 1])
    BY <1>4, <2>1
  <2> QED
    BY <2>2, <2>3, <2>4
<1> HIDE DEF S
<1>10. Nat \subseteq S
  BY <1>8, <1>9, NatSet
<1>11. added[L] = part[L]
  BY <1>1, <1>10 DEF S
<1>12. part[L] = q
  <2>1. L \in 0 .. L
    BY <1>1
  <2>2. /\ part[L] \in Seq(Obj) /\ Len(part[L]) = L
        /\ \A k \in 1 .. L : part[L][k] = q[k]
    BY <1>2, <2>1
  <2>3. Len(q) = L
    BY DEF L
  <2> QED
    BY <1>1, <2>2, <2>3, SeqEqual
<1> QED
  BY <1>7, <1>11, <1>12

LEMMA QueuedAlike ==
  ASSUME NEW q, NEW g, NEW h, Queued(q, h), \A x \in PendingObjs(q) : g[x].iri = h[x].iri
  PROVE  Queued(q, g)
  BY DEF Queued, PendingObjs

-----------------------------------------------------------------------------
(* The steps of a session: its queue, its graphs and its objects            *)

\* The objects are live, the queues hold live objects of different resources, and
\* the graphs hold triples.
LiveInv ==
  /\ HeapLive(heap)
  /\ Queued(pending, heap) /\ Queued(todo, heap)
  /\ Triples

\* A queue made of what the session and the application hold.
Rearranged(q) ==
  /\ Queued(q, heap)
  /\ PendingObjs(q) \subseteq PendingObjs(pending) \cup PendingObjs(todo) \cup ({mine} \cap Obj)

LEMMA RearrangedSame ==
  ASSUME LiveInv
  PROVE  Rearranged(pending) /\ Rearranged(todo) /\ Rearranged(<<>>)
  BY NothingQueued DEF LiveInv, Rearranged, PendingObjs

LEMMA RearrangedLess ==
  ASSUME LiveInv, NEW subjects
  PROVE  Rearranged(RemovePending(pending, heap, subjects))
<1> DEFINE q == RemovePending(pending, heap, subjects)
<1>1. Queued(q, heap) /\ PendingObjs(q) \subseteq PendingObjs(pending)
  BY RemoveQueued DEF LiveInv
<1> HIDE DEF q
<1> QED
  BY <1>1 DEF Rearranged, q

\* The instance the application holds, in a call that works on it.
LEMMA MineLive ==
  ASSUME CoreInv, NEW op \in OnInstance, Body(op)
  PROVE  mine \in Obj /\ heap[mine].iri \in Iris /\ heap[mine].iri # None
<1>1. mine # None
  BY BodyHasOne DEF CoreInv
<1> QED
  BY <1>1, ItemAssumption DEF CoreInv, HeapInv, HeapOK

\* What the steps do to the queue and to the rest of a flush's snapshot.
LEMMA QueueStep ==
  ASSUME CoreInv, LiveInv, [Next]_vars
  PROVE  Restart \/ (Rearranged(pending') /\ Rearranged(todo'))
<1>1. Rearranged(pending) /\ Rearranged(todo) /\ Rearranged(<<>>)
  BY RearrangedSame
<1>2. CASE New \/ Edit \/ SyncMirror \/ ForeignWrite \/ SelectRaises \/ Execute \/ RowsDone
           \/ FlushCall \/ Close \/ Exit \/ Get \/ Refresh \/ Select \/ HydrateRow
           \/ ExpungeAll \/ UNCHANGED vars
  BY <1>1, <1>2
     DEF New, Edit, SyncMirror, ForeignWrite, SelectRaises, Execute, RowsDone, FlushCall,
         Close, Exit, Get, Refresh, Select, HydrateRow, ExpungeAll, Return, vars
<1>3. CASE BeginFlush
  BY <1>1, <1>3 DEF BeginFlush
<1>4. CASE FlushPut
  <2>1. PICK x \in Obj : pending' = PendingAfterPut(x) /\ todo' = Tail(todo) /\ todo # <<>>
    BY <1>4 DEF FlushPut
  <2>2. Queued(Tail(todo), heap) /\ PendingObjs(Tail(todo)) \subseteq PendingObjs(todo)
    BY <2>1, TailQueued DEF LiveInv
  <2>3. Rearranged(todo')
    BY <2>1, <2>2 DEF Rearranged
  <2>4. Rearranged(pending')
    BY <2>1, RearrangedLess DEF PendingAfterPut
  <2> QED
    BY <2>3, <2>4
<1>5. CASE FlushRaises
  <2>1. pending' = Requeued(todo, heap) /\ todo' = <<>>
    BY <1>5 DEF FlushRaises
  <2>2. pending' = todo
    BY <2>1, RequeuedSame DEF LiveInv
  <2> QED
    BY <1>1, <2>1, <2>2
<1>6. CASE FlushDone
  BY <1>1, <1>6 DEF FlushDone
<1>7. CASE Put \/ Add \/ Delete \/ Merge \/ Expire \/ Expunge
  <2>1. /\ todo' = todo
        /\ \E subjects : pending' = RemovePending(pending, heap, subjects)
    BY <1>7 DEF Put, PendingAfterPut, Add, Delete, Merge, Expire, Expunge, Return
  <2> QED
    BY <1>1, <2>1, RearrangedLess
<1>8. CASE Queue
  <2>1. pending' = AddPending(pending, heap, mine) /\ todo' = todo
    BY <1>8 DEF Queue, Return
  <2>2. mine \in Obj /\ heap[mine].iri # None
    BY <1>8, MineLive DEF Queue, OnInstance
  <2>3. /\ Queued(AddPending(pending, heap, mine), heap)
        /\ PendingObjs(AddPending(pending, heap, mine)) \subseteq PendingObjs(pending) \cup {mine}
    BY <2>2, AddQueued DEF LiveInv
  <2>4. Rearranged(pending')
    BY <2>1, <2>2, <2>3 DEF Rearranged
  <2> QED
    BY <1>1, <2>1, <2>4
<1>9. CASE Rollback
  BY <1>1, <1>9 DEF Rollback, Return
<1>10. CASE ExitError
  BY <1>1, <1>10 DEF ExitError, Return
<1> QED
  BY <1>2, <1>3, <1>4, <1>5, <1>6, <1>7, <1>8, <1>9, <1>10 DEF Next, CallStep

\* What waits after a step has the resource it had before.
LEMMA WaitingKeepIris ==
  ASSUME CoreInv, LiveInv, [Next]_vars
  PROVE  \/ Restart
         \/ \A x \in PendingObjs(pending') \cup PendingObjs(todo') :
              x \in Obj /\ heap'[x].iri = heap[x].iri
<1>1. SUFFICES ASSUME ~Restart, NEW x \in PendingObjs(pending') \cup PendingObjs(todo')
               PROVE  x \in Obj /\ heap'[x].iri = heap[x].iri
  OBVIOUS
<1>2. Rearranged(pending') /\ Rearranged(todo')
  BY <1>1, QueueStep
<1>3. x \in PendingObjs(pending) \cup PendingObjs(todo) \cup ({mine} \cap Obj)
  BY <1>2 DEF Rearranged
<1>4. PendingObjs(pending) \subseteq Obj /\ PendingObjs(todo) \subseteq Obj
  <2>1. pending \in Seq(Obj) /\ todo \in Seq(Obj)
    BY DEF LiveInv, Queued
  <2> QED
    BY <2>1 DEF PendingObjs
<1>5. x \in Obj /\ x \in Roots /\ x \in Roots'
  BY <1>1, <1>3, <1>4 DEF Roots
<1>6. x \in Used
  BY <1>5 DEF Used, Reachable
<1>7. CASE UNCHANGED heap
  BY <1>5, <1>7
<1>8. CASE \E h : Sound(h) /\ Collect(h)
  <2>a. PICK h : Sound(h) /\ Collect(h)
    BY <1>8
  <2>1. heap'[x] = h[x]
    BY <1>5, <2>a, CollectKeeps DEF Sound
  <2> QED
    BY <1>5, <1>6, <2>a, <2>1 DEF Sound
<1> QED
  BY <1>1, <1>7, <1>8, StepSound DEF LiveInv

\* What the steps do to the graph and to the dataset behind an HTTP store.
LEMMA GraphStep ==
  ASSUME CoreInv, LiveInv, [Next]_vars
  PROVE  Triples'
<1>1. Triples /\ HeapInv /\ HeapLive(heap)
  BY DEF LiveInv, CoreInv
<1>2. CASE UNCHANGED <<graph, remote>>
  BY <1>1, <1>2 DEF Triples
<1>3. CASE FlushPut \/ FlushRaises
  <2>1. PICK x \in Obj : todo # <<>> /\ x = Head(todo) /\ (PutSucceeds(x) \/ PutFails(x))
    BY <1>3 DEF FlushPut, FlushRaises
  <2>2. heap[x].iri # None
    BY <2>1, TailQueued DEF LiveInv
  <2> QED
    BY <1>1, <2>1, <2>2, PutTyped
<1>4. CASE Put
  <2>1. mine \in Obj /\ heap[mine].iri # None
    BY <1>4, MineLive DEF Put, OnInstance
  <2> QED
    BY <1>1, <1>4, <2>1, PutTyped DEF Put
<1>5. CASE Add
  <2>1. mine \in Obj /\ heap[mine].iri # None
    BY <1>5, MineLive DEF Add, OnInstance
  <2>2. ModelGraph(heap, mine) \subseteq Triple
    BY <1>1, <2>1, ModelGraphTyped DEF HeapInv, HeapOK
  <2>3. \/ StoreApplies({}, ModelGraph(heap, mine))
        \/ StoreRaises({}, ModelGraph(heap, mine))
        \/ UNCHANGED <<graph, remote>>
    BY <1>5 DEF Add
  <2> QED
    BY <1>1, <1>2, <2>2, <2>3, StoreTyped DEF StoreRaises
<1>6. CASE Delete
  <2>a. PICK gone : StoreApplies(gone, {}) \/ StoreRaises(gone, {})
    BY <1>6 DEF Delete
  <2> QED
    BY <1>1, <2>a, StoreTyped DEF StoreRaises
<1>7. ASSUME NEW i, GetAnswers(i, call.depth) \/ GetRaises(i, call.depth)
                      \/ \E d : GetAnswers(i, d) \/ GetRaises(i, d)
      PROVE  Triples'
  BY <1>1, <1>7, ReadTyped DEF GetAnswers, GetRaises
<1>8. CASE Get \/ HydrateRow
  BY <1>7, <1>8 DEF Get, HydrateRow
<1>9. CASE Refresh
  BY <1>1, <1>9, ReadTyped DEF Refresh
<1>10. CASE SyncMirror
  BY <1>1, <1>10 DEF SyncMirror, Triples
<1>11. CASE ForeignWrite
  <2>1. Foreign \subseteq Triple
    BY OptionAssumption
  <2> QED
    BY <1>1, <1>11, <2>1 DEF ForeignWrite, Triples
<1>12. CASE Restart
  BY <1>1, <1>12 DEF Restart, Triples
<1>13. CASE New \/ Edit \/ BeginFlush \/ FlushDone \/ Queue \/ Select \/ SelectRaises
            \/ RowsDone \/ Execute \/ Merge \/ Expire \/ Expunge \/ ExpungeAll \/ FlushCall
            \/ Rollback \/ Close \/ Exit \/ ExitError \/ UNCHANGED vars
  BY <1>2, <1>13
     DEF New, Edit, BeginFlush, FlushDone, Queue, Select, SelectRaises, RowsDone, Execute,
         Merge, Expire, Expunge, ExpungeAll, FlushCall, Rollback, Close, Exit, ExitError,
         vars, store
<1> QED
  BY <1>3, <1>4, <1>5, <1>6, <1>8, <1>9, <1>10, <1>11, <1>12, <1>13 DEF Next, CallStep

LEMMA LiveStep == CoreInv /\ LiveInv /\ [Next]_vars => LiveInv'
<1> SUFFICES ASSUME CoreInv, LiveInv, [Next]_vars PROVE LiveInv'
  OBVIOUS
<1>1. Triples'
  BY GraphStep
<1>2. CASE Restart
  <2>1. heap' = [o \in Obj |-> Blank] /\ pending' = <<>> /\ todo' = <<>>
    BY <1>2 DEF Restart
  <2>2. HeapLive(heap')
    BY <2>1 DEF HeapLive, Blank
  <2> QED
    BY <1>1, <2>1, <2>2, NothingQueued DEF LiveInv
<1>3. CASE ~Restart
  <2>1. HeapLive(heap')
    <3>1. CASE UNCHANGED heap
      BY <3>1 DEF LiveInv
    <3>2. CASE \E h : Sound(h) /\ Collect(h)
      BY <3>2, CollectLive DEF Sound
    <3> QED
      BY <1>3, <3>1, <3>2, StepSound DEF LiveInv
  <2>2. Queued(pending', heap) /\ Queued(todo', heap)
    BY <1>3, QueueStep DEF Rearranged
  <2>3. Queued(pending', heap') /\ Queued(todo', heap')
    BY <1>3, <2>2, WaitingKeepIris, QueuedAlike
  <2> QED
    BY <1>1, <2>1, <2>3 DEF LiveInv
<1> QED
  BY <1>2, <1>3

LEMMA LiveInvHolds == Spec => []LiveInv
<1>1. Init => LiveInv
  <2> SUFFICES ASSUME Init PROVE LiveInv
    OBVIOUS
  <2>1. HeapLive(heap)
    BY DEF Init, HeapLive, Blank
  <2>2. Triples
    BY OptionAssumption DEF Init, Triples
  <2> QED
    BY <2>1, <2>2, NothingQueued DEF Init, LiveInv
<1> QED
  BY <1>1, LiveStep, CoreInvHolds, PTL DEF Spec

\* The graphs hold triples only, the queue and what a flush has still to write only
\* objects, and the rest is of its kind: nothing is ever written of an object that
\* was freed or never completed (session_core.put_impl, session.flush).
THEOREM TypesCorrect == Spec => []TypeOK
<1>1. CoreTypeOK /\ LiveInv => TypeOK
  BY DEF LiveInv, Queued, Triples, TypeOK
<1> QED
  BY <1>1, CoreTypeCorrect, LiveInvHolds, PTL

-----------------------------------------------------------------------------
(* A put                                                                   *)

\* No two objects of a composition tree are of the same resource.
LEMMA NestedDistinct ==
  ASSUME NEW h \in [Obj -> Node], NEW o \in Obj, NEW m \in NestedModels(h, o),
         NEW n \in NestedModels(h, o), h[m].iri = h[n].iri
  PROVE  m = n
<1> DEFINE c == Chain(h, o)
           Fresh(k) == \A a, b \in 1 .. k : a < b => h[c[a]].iri # h[c[b]].iri
<1>1. PICK k \in CascadePositions(h, o) : m = c[k] /\ Fresh(k)
  BY DEF NestedModels
<1>2. PICK l \in CascadePositions(h, o) : n = c[l] /\ Fresh(l)
  BY DEF NestedModels
<1>3. PICK e \in Nat : e >= 1 /\ Embeds(h, o) = 1 .. e
  BY EmbedsInterval
<1>4. k \in 1 .. e /\ l \in 1 .. e
  BY <1>3 DEF CascadePositions
<1> HIDE DEF c
<1>5. CASE k < l
  <2>1. k \in 1 .. l /\ l \in 1 .. l
    BY <1>4, <1>5
  <2> QED
    BY <1>1, <1>2, <1>5, <2>1
<1>6. CASE l < k
  <2>1. k \in 1 .. k /\ l \in 1 .. k
    BY <1>4, <1>6
  <2> QED
    BY <1>1, <1>2, <1>6, <2>1
<1>7. CASE k = l
  BY <1>1, <1>2, <1>7
<1> QED
  BY <1>4, <1>5, <1>6, <1>7

\* Of a live object in a composition tree.
LEMMA NestedLive ==
  ASSUME NEW h \in [Obj -> Node], HeapLive(h), NEW o \in Obj, h[o].iri # None,
         NEW m \in NestedModels(h, o)
  PROVE  /\ m \in Obj /\ h[m].iri \in Iris /\ h[m].name \in Names
         /\ TargetOf(h, h[m].rel) \subseteq Iris
<1>1. m \in Obj /\ h[m].iri # None
  BY NestedInChain, ChainLive DEF ChainObjs
<1>2. /\ h[m].iri \in Iris /\ h[m].name \in Names
      /\ h[m].rel \in Obj => h[h[m].rel].iri \in Iris
  <2>1. /\ h[m] \in Node /\ h[m].name \in Names
        /\ h[m].rel \in Obj => h[h[m].rel] \in Node /\ h[h[m].rel].iri # None
    BY <1>1 DEF HeapLive
  <2> QED
    BY <1>1, <2>1 DEF Node
<1> QED
  BY <1>1, <1>2 DEF TargetOf

\* What a put that succeeds leaves of each object of the tree: everything old that
\* its class declares is removed, and only that object writes about its resource.
LEMMA PutStores ==
  ASSUME HeapInv, HeapLive(heap), NEW x \in Obj, heap[x].iri # None, PutSucceeds(x)
  PROVE  Stored(heap, graph', x)
<1> SUFFICES ASSUME NEW m \in NestedModels(heap, x)
             PROVE  /\ Typed(graph', heap[m].iri)
                    /\ NamesIn(graph', heap[m].iri) = {heap[m].name}
                    /\ HasRelationship(heap[m].iri)
                         => LinksIn(graph', heap[m].iri) = TargetOf(heap, heap[m].rel)
  BY DEF Stored
<1> DEFINE i == heap[m].iri
<1>1. graph' = (graph \ PutRemoves(x)) \cup ModelGraph(heap, x)
  BY DEF PutSucceeds, StoreApplies
<1>2. heap \in [Obj -> Node]
  BY DEF HeapInv, HeapOK
<1>3. /\ i \in Iris /\ heap[m].name \in Names
      /\ TargetOf(heap, heap[m].rel) \subseteq Iris
  BY <1>2, NestedLive
<1>4. i \in PutSubjects(heap, graph, x)
  BY DEF PutSubjects, NestedIris
<1>5. InstanceTriples(heap, m) \subseteq graph'
  BY <1>1 DEF ModelGraph
<1>6. ASSUME NEW p \in DeclaredPredicates(i), NEW v, <<i, p, v>> \in graph'
      PROVE  <<i, p, v>> \in InstanceTriples(heap, m)
  <2>1. <<i, p, v>> \in graph => <<i, p, v>> \in PutRemoves(x)
    BY <1>4 DEF PutRemoves, OwnedTriples
  <2>2. <<i, p, v>> \in ModelGraph(heap, x)
    BY <1>1, <1>6, <2>1
  <2>3. PICK n \in NestedModels(heap, x) : <<i, p, v>> \in InstanceTriples(heap, n)
    BY <2>2 DEF ModelGraph
  <2>4. heap[n].iri = i
    BY <2>3 DEF InstanceTriples
  <2>5. n = m
    BY <1>2, <2>4, NestedDistinct
  <2> QED
    BY <2>3, <2>5
<1>7. /\ <<i, "type", "Class">> \in InstanceTriples(heap, m)
      /\ \A v : <<i, "name", v>> \in InstanceTriples(heap, m) <=> v = heap[m].name
      /\ \A v : <<i, "rel", v>> \in InstanceTriples(heap, m)
                   <=> v \in TargetOf(heap, heap[m].rel)
  BY DEF InstanceTriples
<1>8. "name" \in DeclaredPredicates(i) /\ (HasRelationship(i) => "rel" \in DeclaredPredicates(i))
  BY DEF DeclaredPredicates
<1> HIDE DEF i
<1>9. Typed(graph', i)
  BY <1>5, <1>7 DEF Typed
<1>10. NamesIn(graph', i) = {heap[m].name}
  BY <1>3, <1>5, <1>6, <1>7, <1>8 DEF NamesIn
<1>11. ASSUME HasRelationship(i) PROVE LinksIn(graph', i) = TargetOf(heap, heap[m].rel)
  BY <1>3, <1>5, <1>6, <1>7, <1>8, <1>11 DEF LinksIn
<1> QED
  BY <1>9, <1>10, <1>11 DEF i

\* The object that a put or a flush has written.
LEMMA WrittenFacts ==
  ASSUME CoreInv, LiveInv, [Next]_vars, PutSucceeded
  PROVE  Written \in Obj /\ heap[Written].iri # None /\ PutSucceeds(Written)
<1>1. CASE FlushPut
  <2>1. /\ pc = "flush" /\ todo # <<>> /\ PutSucceeds(Head(todo))
    BY <1>1 DEF FlushPut
  <2> QED
    BY <2>1, TailQueued DEF LiveInv, Written
<1>2. CASE Put /\ PutSucceeds(mine)
  <2>1. mine \in Obj /\ heap[mine].iri # None
    BY <1>2, MineLive DEF Put, OnInstance
  <2>2. PICK c : Runs(c)
    BY <1>2 DEF Put, Body
  <2>3. Written = mine
    BY <2>2 DEF Written, Runs, MayCall, Ready
  <2> QED
    BY <1>2, <2>1, <2>3
<1> QED
  BY <1>1, <1>2 DEF PutSucceeded

\* A put is an upsert, for every class shape, graph and composition tree: whatever
\* add, an earlier put or a foreign tool left in the graph, afterwards it says of each
\* resource of the tree what its object holds and nothing older
\* (session_core.put_impl).
THEOREM PutAlwaysUpserts == Spec => PutIsUpsert
<1>1. CoreInv /\ LiveInv /\ [Next]_vars => (PutSucceeded => Stored(heap, graph', Written))
  BY WrittenFacts, PutStores DEF CoreInv, LiveInv
<1> QED
  BY <1>1, CoreInvHolds, LiveInvHolds, PTL DEF Spec, PutIsUpsert

-----------------------------------------------------------------------------
(* Deferred writes                                                         *)

LEMMA QueueInvHolds == Spec => []QueueInv
<1>1. Init => QueueInv
  BY DEF Init, QueueInv, ClosedIsClean
<1> QED
  BY <1>1, QueueInvStep, PTL DEF Spec

\* Outside a flush the queue is the pending list; a flush takes it over, and a write
\* that fails leaves everything that was not written.
LEMMA WaitingStep ==
  ASSUME QueueInv, LiveInv, [Next]_vars
  PROVE  \/ Put \/ Queue \/ Add \/ Delete \/ Merge \/ Expunge \/ Expire
         \/ Rollback \/ ExitError \/ Restart
         \/ FlushPut
         \/ Waiting' = Waiting
<1>1. CASE BeginFlush
  <2>1. pc = "idle"
    BY <1>1 DEF BeginFlush, MayCall, Ready
  <2> QED
    BY <1>1, <2>1 DEF BeginFlush, Waiting
<1>2. CASE FlushRaises
  <2>1. pending' = Requeued(todo, heap) /\ pc = "flush" /\ pc' = "idle"
    BY <1>2 DEF FlushRaises
  <2>2. pending' = todo
    BY <2>1, RequeuedSame DEF LiveInv
  <2> QED
    BY <2>1, <2>2 DEF Waiting
<1>3. CASE FlushDone
  BY <1>3 DEF FlushDone, Waiting
<1>4. CASE Get \/ Refresh \/ Select \/ SelectRaises \/ Execute \/ ExpungeAll \/ FlushCall
           \/ Close \/ Exit
  <2>1. \E c : Runs(c)
    BY <1>4
       DEF Get, Refresh, Select, SelectRaises, Execute, ExpungeAll, FlushCall, Close, Exit, Body
  <2>2. pc # "flush"
    BY <2>1, BodyFacts
  <2>3. pc' # "flush" /\ pending' = pending
    BY <1>4, <2>2
       DEF Get, Refresh, Select, SelectRaises, Execute, ExpungeAll, FlushCall, Close, Exit, Return
  <2> QED
    BY <2>2, <2>3 DEF Waiting
<1>5. CASE HydrateRow \/ RowsDone
  BY <1>5 DEF HydrateRow, RowsDone, Return, Waiting
<1>6. CASE New \/ Edit \/ SyncMirror \/ ForeignWrite \/ UNCHANGED vars
  BY <1>6 DEF New, Edit, SyncMirror, ForeignWrite, vars, Waiting
<1> QED
  BY <1>1, <1>2, <1>3, <1>4, <1>5, <1>6 DEF Next, CallStep

\* What a flush takes off its snapshot is in the store.
LEMMA FlushStores ==
  ASSUME CoreInv, LiveInv, FlushPut, NEW x \in Leaving
  PROVE  Stored(heap, graph', x)
<1>1. /\ pc = "flush" /\ pc' = pc /\ todo # <<>> /\ todo' = Tail(todo)
      /\ PutSucceeds(Head(todo))
  BY DEF FlushPut
<1>2. x \in PendingObjs(todo) /\ x \notin PendingObjs(Tail(todo))
  BY <1>1 DEF Waiting, Leaving
<1>3. x = Head(todo)
  <2> DEFINE L == Len(todo)
             r == Tail(todo)
  <2>1. todo \in Seq(Obj)
    BY DEF LiveInv, Queued
  <2>2. L \in Nat /\ L >= 1 /\ DOMAIN todo = 1 .. L
    BY <1>1, <2>1, EmptySeq
  <2>3. Len(r) = L - 1 /\ DOMAIN r = 1 .. L - 1 /\ \A n \in 1 .. L - 1 : r[n] = todo[n + 1]
    BY <2>1, <2>2
  <2>4. Head(todo) = todo[1]
    BY <2>1, <2>2
  <2> HIDE DEF L, r
  <2>5. PICK n \in 1 .. L : x = todo[n]
    BY <1>2, <2>2 DEF PendingObjs
  <2>6. CASE n # 1
    <3>1. n - 1 \in 1 .. L - 1 /\ (n - 1) + 1 = n
      BY <2>2, <2>6
    <3>2. x = r[n - 1]
      BY <2>3, <2>5, <3>1
    <3> QED
      BY <1>2, <2>3, <3>1, <3>2 DEF PendingObjs, r
  <2> QED
    BY <2>4, <2>5, <2>6
<1>4. x \in Obj /\ heap[x].iri # None
  BY <1>1, <1>3, TailQueued DEF LiveInv
<1> QED
  BY <1>1, <1>3, <1>4, PutStores DEF CoreInv, LiveInv

\* A call that takes subjects off the pending list costs no other resource its write.
LEMMA RemovalLeaves ==
  ASSUME CoreInv, LiveInv, QueueInv, NEW c, Runs(c), pc' # "flush", NEW subjects,
         pending' = RemovePending(pending, heap, subjects), NEW x \in Leaving
  PROVE  heap[x].iri \in subjects
<1>1. pc # "flush"
  BY BodyFacts
<1>2. x \in PendingObjs(pending) /\ x \notin PendingObjs(RemovePending(pending, heap, subjects))
  BY <1>1 DEF Leaving, Waiting
<1> QED
  BY <1>2, RemoveKeeps DEF LiveInv

\* Queueing a model costs no other resource its write.
LEMMA QueueLeaves ==
  ASSUME CoreInv, LiveInv, QueueInv, Queue, NEW x \in Leaving
  PROVE  heap[x].iri = MineIri
<1>1. pc # "flush" /\ pc' # "flush" /\ pending' = AddPending(pending, heap, mine)
  BY BodyFacts DEF Queue, Body, Return
<1>2. x \in PendingObjs(pending) /\ x \notin PendingObjs(AddPending(pending, heap, mine))
  BY <1>1 DEF Leaving, Waiting
<1>3. mine \in Obj /\ heap[mine].iri # None
  BY MineLive DEF Queue, OnInstance
<1> QED
  BY <1>2, <1>3, AddKeeps DEF LiveInv, MineIri

\* A deferred write that leaves the queue is in the store as its object has it, unless
\* a call about its own resource ended it or the application gave up the whole queue:
\* no put, delete, merge or expire costs another resource its write, and reads,
\* failing flushes, expunge_all and close cost none (session.flush,
\* session_state.remove_pending_for, session_state.expunge_all).
THEOREM DeferredWritesNeverLost == Spec => DeferredWritesAccounted
<1>1. ASSUME CoreInv, LiveInv, QueueInv, [Next]_vars, NEW x \in Leaving
      PROVE  \/ FlushPut /\ Stored(heap, graph', x)
             \/ EndsWriteOf(heap[x].iri)
             \/ EndsAllWrites
  <2>1. CASE FlushPut
    BY <1>1, <2>1, FlushStores
  <2>2. CASE Put \/ Delete
    <3>1. CASE Put
      <4>1. (\E c : Runs(c)) /\ pc' # "flush"
            /\ pending' = RemovePending(pending, heap, PutSubjects(heap, graph, mine))
        BY <3>1 DEF Put, PendingAfterPut, Body, Return
      <4> QED
        BY <1>1, <3>1, <4>1, RemovalLeaves DEF EndsWriteOf
    <3>2. CASE Delete
      <4>1. (\E c : Runs(c)) /\ pc' # "flush"
            /\ pending' = RemovePending(pending, heap, DeleteSubjects(heap, mine))
        BY <3>2 DEF Delete, Body, Return
      <4> QED
        BY <1>1, <3>2, <4>1, RemovalLeaves DEF EndsWriteOf
    <3> QED
      BY <2>2, <3>1, <3>2
  <2>3. CASE Add \/ Merge \/ Expunge
    <3>1. (\E c : Runs(c)) /\ pc' # "flush"
          /\ pending' = RemovePending(pending, heap, {MineIri})
      BY <2>3 DEF Add, Merge, Expunge, Body, Return
    <3>2. heap[x].iri \in {MineIri}
      BY <1>1, <3>1, RemovalLeaves
    <3> QED
      BY <2>3, <3>2 DEF EndsWriteOf
  <2>4. CASE Expire
    <3>1. PICK c \in CallsOf("expire") :
            /\ Runs(c) /\ cache' = ExpireKeys(cache, {c.iri}) /\ pc' # "flush"
            /\ pending' = RemovePending(pending, heap, {c.iri})
      BY <2>4 DEF Expire, Return
    <3>2. \A y \in Leaving : heap[y].iri \in {c.iri}
      BY <1>1, <3>1, RemovalLeaves
    <3>3. heap[x].iri = c.iri /\ \A y \in Leaving : heap[y].iri = c.iri
      BY <1>1, <3>2
    <3> QED
      BY <2>4, <3>1, <3>3 DEF EndsWriteOf
  <2>5. CASE Queue
    BY <1>1, <2>5, QueueLeaves DEF EndsWriteOf
  <2>6. CASE Rollback \/ Restart
    BY <2>6 DEF EndsAllWrites
  <2>7. CASE ExitError
    <3>1. CASE RollbackOnError
      BY <2>7, <3>1 DEF EndsAllWrites
    <3>2. CASE ~RollbackOnError
      <4>1. (\E c : Runs(c)) /\ pc' # "flush" /\ pending' = pending
        BY <2>7, <3>2 DEF ExitError, Body, Return
      <4>2. Waiting' = Waiting
        BY <1>1, <4>1, BodyFacts DEF Waiting
      <4> QED
        BY <1>1, <4>2 DEF Leaving
    <3> QED
      BY <3>1, <3>2
  <2>8. CASE Waiting' = Waiting
    BY <1>1, <2>8 DEF Leaving
  <2> QED
    BY <1>1, <2>1, <2>2, <2>3, <2>4, <2>5, <2>6, <2>7, <2>8, WaitingStep
<1>2. CoreInv /\ LiveInv /\ QueueInv /\ [Next]_vars
        => \A x \in Leaving : \/ FlushPut /\ Stored(heap, graph', x)
                              \/ EndsWriteOf(heap[x].iri)
                              \/ EndsAllWrites
  BY <1>1
<1> QED
  BY <1>2, CoreInvHolds, LiveInvHolds, QueueInvHolds, PTL DEF Spec, DeferredWritesAccounted

-----------------------------------------------------------------------------
(* The pending list implements the queue of DeferredWrites                  *)

\* The resources of the objects of a queue.
IrisOf(q, h) == [n \in DOMAIN q |-> h[q[n]].iri]

LEMMA IrisSeq ==
  ASSUME NEW h \in [Obj -> Node], NEW q, Queued(q, h)
  PROVE  /\ q \in Seq(Obj)
         /\ IrisOf(q, h) \in Seq(Iris) /\ Len(IrisOf(q, h)) = Len(q)
         /\ DOMAIN IrisOf(q, h) = DOMAIN q
         /\ \A n \in 1 .. Len(q) : IrisOf(q, h)[n] = h[q[n]].iri
<1> DEFINE L == Len(q)
           s == IrisOf(q, h)
<1>1. q \in Seq(Obj)
  BY DEF Queued
<1>2. L \in Nat /\ DOMAIN q = 1 .. L /\ \A n \in 1 .. L : q[n] \in Obj
  BY <1>1, ElementOfSeq
<1>3. \A n \in 1 .. L : h[q[n]].iri \in Iris
  BY <1>2 DEF Queued, Node
<1>4. s = [n \in 1 .. L |-> h[q[n]].iri]
  BY <1>2 DEF IrisOf
<1> HIDE DEF L, s
<1>5. s \in Seq(Iris) /\ Len(s) = L /\ DOMAIN s = 1 .. L
  <2>1. s \in [1 .. L -> Iris]
    BY <1>3, <1>4
  <2> HIDE DEF s
  <2> QED
    BY <1>2, <2>1
<1>6. \A n \in 1 .. L : s[n] = h[q[n]].iri
  BY <1>4
<1> QED
  BY <1>1, <1>2, <1>5, <1>6 DEF L, s

\* What is kept of a queue, by resource.
LEMMA IrisKept ==
  ASSUME NEW h \in [Obj -> Node], NEW q, Queued(q, h), NEW subjects
  PROVE  IrisOf(RemovePending(q, h, subjects), h)
           = Kept(IrisOf(q, h), {n \in DOMAIN IrisOf(q, h) : IrisOf(q, h)[n] \notin subjects \cap Iris})
<1> DEFINE s == IrisOf(q, h)
           at == {n \in DOMAIN q : h[q[n]].iri \notin subjects}
           atS == {n \in DOMAIN s : s[n] \notin subjects \cap Iris}
           R == {p \in Obj \X Iris : p[2] = h[p[1]].iri}
           r == Kept(q, at)
           t == Kept(s, at)
<1>1. /\ q \in Seq(Obj) /\ s \in Seq(Iris) /\ Len(s) = Len(q) /\ DOMAIN s = DOMAIN q
      /\ DOMAIN q = 1 .. Len(q)
      /\ \A n \in 1 .. Len(q) : s[n] = h[q[n]].iri /\ q[n] \in Obj /\ s[n] \in Iris
  <2>1. /\ q \in Seq(Obj) /\ s \in Seq(Iris) /\ Len(s) = Len(q) /\ DOMAIN s = DOMAIN q
        /\ \A n \in 1 .. Len(q) : s[n] = h[q[n]].iri
    BY IrisSeq
  <2> HIDE DEF s
  <2>2. DOMAIN q = 1 .. Len(q) /\ \A n \in 1 .. Len(q) : q[n] \in Obj
    BY <2>1, ElementOfSeq
  <2>3. \A n \in 1 .. Len(q) : s[n] \in Iris
    BY <2>1, ElementOfSeq
  <2> QED
    BY <2>1, <2>2, <2>3
<1> HIDE DEF s
<1>2. atS = at
  BY <1>1
<1>3. \A n \in 1 .. Len(q) : <<q[n], s[n]>> \in R
  BY <1>1
<1> HIDE DEF at, atS, R
<1>4. Len(t) = Len(r) /\ \A k \in 1 .. Len(r) : <<r[k], t[k]>> \in R
  BY <1>1, <1>3, KeptCorrespond
<1>5. r \in Seq(Obj) /\ t \in Seq(Iris)
  BY <1>1, KeptPicks
<1>6. Queued(r, h) /\ RemovePending(q, h, subjects) = r
  <2>1. Queued(RemovePending(q, h, subjects), h)
    BY RemoveQueued
  <2>2. RemovePending(q, h, subjects) = r
    BY DEF RemovePending, at
  <2> QED
    BY <2>1, <2>2
<1> HIDE DEF r, t
<1>7. /\ IrisOf(r, h) \in Seq(Iris) /\ Len(IrisOf(r, h)) = Len(r)
      /\ \A n \in 1 .. Len(r) : IrisOf(r, h)[n] = h[r[n]].iri
  BY <1>6, IrisSeq
<1>8. \A k \in 1 .. Len(r) : t[k] = h[r[k]].iri
  BY <1>4 DEF R
<1>9. IrisOf(r, h) = t
  <2> DEFINE u == IrisOf(r, h)
  <2>1. /\ u \in Seq(Iris) /\ Len(u) = Len(t)
        /\ \A k \in 1 .. Len(t) : u[k] = t[k]
    BY <1>4, <1>7, <1>8
  <2> HIDE DEF u
  <2>2. u = t
    BY <1>5, <2>1, SeqEqual
  <2> QED
    BY <2>2 DEF u
<1> QED
  BY <1>2, <1>6, <1>9 DEF t, atS, s

LEMMA IrisAppend ==
  ASSUME NEW h \in [Obj -> Node], NEW q, NEW o \in Obj, Queued(q, h), Queued(Append(q, o), h)
  PROVE  IrisOf(Append(q, o), h) = Append(IrisOf(q, h), h[o].iri)
<1> DEFINE s == IrisOf(q, h)
           r == Append(q, o)
           u == IrisOf(r, h)
           t == Append(s, h[o].iri)
<1>1. /\ q \in Seq(Obj) /\ s \in Seq(Iris) /\ Len(s) = Len(q)
      /\ \A n \in 1 .. Len(q) : s[n] = h[q[n]].iri
  BY IrisSeq
<1>2. Len(q) \in Nat
  BY <1>1
<1>3. Len(r) = Len(q) + 1 /\ r[Len(q) + 1] = o /\ \A n \in 1 .. Len(q) : r[n] = q[n]
  BY <1>1
<1>4. u \in Seq(Iris) /\ Len(u) = Len(r) /\ \A n \in 1 .. Len(r) : u[n] = h[r[n]].iri
  BY IrisSeq
<1>5. h[o].iri \in Iris
  <2>1. Len(q) + 1 \in 1 .. Len(r)
    BY <1>2, <1>3
  <2> HIDE DEF r, u
  <2>2. u[Len(q) + 1] \in Iris
    BY <1>4, <2>1, ElementOfSeq
  <2> QED
    BY <1>3, <1>4, <2>1, <2>2
<1> HIDE DEF s
<1>6. /\ t \in Seq(Iris) /\ Len(t) = Len(s) + 1 /\ t[Len(s) + 1] = h[o].iri
      /\ \A n \in 1 .. Len(s) : t[n] = s[n]
  BY <1>1, <1>5
<1> HIDE DEF r, u, t
<1>7. \A n \in 1 .. Len(q) + 1 : n \in 1 .. Len(q) \/ n = Len(q) + 1
  BY <1>2
<1>8. \A n \in 1 .. Len(t) : u[n] = t[n]
  BY <1>1, <1>3, <1>4, <1>6, <1>7
<1>9. u = t
  BY <1>1, <1>3, <1>4, <1>6, <1>8, SeqEqual
<1> QED
  BY <1>9 DEF u, t, r, s

LEMMA IrisTail ==
  ASSUME NEW h \in [Obj -> Node], NEW q, Queued(q, h), q # <<>>
  PROVE  IrisOf(Tail(q), h) = Tail(IrisOf(q, h)) /\ IrisOf(q, h) # <<>>
<1> DEFINE s == IrisOf(q, h)
           r == Tail(q)
           u == IrisOf(r, h)
           t == Tail(s)
<1>1. /\ q \in Seq(Obj) /\ s \in Seq(Iris) /\ Len(s) = Len(q)
      /\ \A n \in 1 .. Len(q) : s[n] = h[q[n]].iri
  BY IrisSeq
<1>2. Len(q) \in Nat /\ Len(q) >= 1
  BY <1>1, EmptySeq
<1>3. r \in Seq(Obj) /\ Len(r) = Len(q) - 1 /\ \A n \in 1 .. Len(q) - 1 : r[n] = q[n + 1]
  BY <1>1, <1>2
<1>4. Queued(r, h)
  BY TailQueued
<1>5. u \in Seq(Iris) /\ Len(u) = Len(r) /\ \A n \in 1 .. Len(r) : u[n] = h[r[n]].iri
  BY <1>4, IrisSeq
<1> HIDE DEF s
<1>6. s # <<>>
  BY <1>1, <1>2
<1>7. t \in Seq(Iris) /\ Len(t) = Len(s) - 1 /\ \A n \in 1 .. Len(s) - 1 : t[n] = s[n + 1]
  BY <1>1, <1>2, <1>6
<1> HIDE DEF r, u, t
<1>8. \A n \in 1 .. Len(q) - 1 : n + 1 \in 1 .. Len(q)
  BY <1>2
<1>9. \A n \in 1 .. Len(t) : u[n] = t[n]
  BY <1>1, <1>3, <1>5, <1>7, <1>8
<1>10. u = t
  BY <1>1, <1>3, <1>5, <1>7, <1>9, SeqEqual
<1> QED
  BY <1>6, <1>10 DEF u, t, r, s

LEMMA IrisAlike ==
  ASSUME NEW q \in Seq(Obj), NEW g, NEW h, \A x \in PendingObjs(q) : g[x].iri = h[x].iri
  PROVE  IrisOf(q, g) = IrisOf(q, h)
  BY DEF IrisOf, PendingObjs

LEMMA IrisNone == ASSUME NEW h PROVE IrisOf(<<>>, h) = <<>>
  BY DEF IrisOf

LEMMA KeptNone == ASSUME NEW X, NEW q \in Seq(X) PROVE Kept(q, {}) = <<>>
<1> DEFINE r == Kept(q, {})
<1>1. r \in Seq(X) /\ Picks(r, q, DOMAIN q \cap {})
  BY KeptPicks
<1> HIDE DEF r
<1>2. PICK p \in [1 .. Len(r) -> DOMAIN q \cap {}] : TRUE
  BY <1>1 DEF Picks
<1>3. Len(r) \in Nat /\ ~(1 \in 1 .. Len(r))
  BY <1>1, <1>2
<1>4. Len(r) = 0
  BY <1>3
<1>5. r = <<>>
  BY <1>1, <1>4, EmptySeq
<1> QED
  BY <1>5 DEF r

\* The steps of DeferredWrites, said of the queue of a session.
LEMMA DiscardStep ==
  ASSUME NEW subjects, ~closed, closed' = closed, pc # "flush", pc' # "flush",
         subjects \in {{i} : i \in Iris} \cup Scopes,
         IrisOf(Waiting, heap) \in Seq(Iris),
         NEW at, at = {n \in DOMAIN IrisOf(Waiting, heap) :
                         IrisOf(Waiting, heap)[n] \notin subjects \cap Iris},
         IrisOf(Waiting', heap') = Kept(IrisOf(Waiting, heap), at)
  PROVE  Deferred!Discard
<1>1. \A n \in DOMAIN IrisOf(Waiting, heap) : IrisOf(Waiting, heap)[n] \in Iris
  BY ElementOfSeq
<1>2. at = {n \in DOMAIN IrisOf(Waiting, heap) : IrisOf(Waiting, heap)[n] \notin subjects}
  BY <1>1
<1>3. IrisOf(Waiting', heap') = Deferred!Without(IrisOf(Waiting, heap), subjects)
  BY <1>2 DEF Deferred!Without, Deferred!Kept, Kept
<1> QED
  BY <1>3 DEF Deferred!Discard, IrisOf

LEMMA ClearStep ==
  ASSUME ~closed, closed' = closed, pc # "flush", pc' # "flush",
         IrisOf(Waiting', heap') = <<>>
  PROVE  Deferred!Clear
BY DEF Deferred!Clear, IrisOf

LEMMA DeferStep ==
  ASSUME NEW i \in Iris, ~closed, closed' = closed, pc # "flush", pc' # "flush",
         NEW at, at = {n \in DOMAIN IrisOf(Waiting, heap) :
                         IrisOf(Waiting, heap)[n] \notin {i} \cap Iris},
         IrisOf(Waiting', heap') = Append(Kept(IrisOf(Waiting, heap), at), i)
  PROVE  Deferred!Defer
<1>1. {i} \cap Iris = {i}
  OBVIOUS
<1>2. IrisOf(Waiting', heap')
        = Append(Deferred!Without(IrisOf(Waiting, heap), {i}), i)
  BY <1>1 DEF Deferred!Without, Deferred!Kept, Kept
<1> QED
  BY <1>2 DEF Deferred!Defer, IrisOf

LEMMA SameQueueSteps ==
  ASSUME IrisOf(Waiting', heap') = IrisOf(Waiting, heap), closed' = closed
  PROVE  /\ (pc = "flush") = (pc' = "flush") => UNCHANGED Deferred!vars
         /\ pc # "flush" /\ pc' = "flush" /\ ~closed => Deferred!BeginFlush
         /\ pc = "flush" /\ pc' # "flush" => Deferred!EndFlush
BY DEF Deferred!vars, Deferred!BeginFlush, Deferred!EndFlush, IrisOf

LEMMA WriteStep ==
  ASSUME IrisOf(Waiting, heap) # <<>>,
         IrisOf(Waiting', heap') = Tail(IrisOf(Waiting, heap)), closed' = closed,
         pc = "flush", pc' = "flush"
  PROVE  Deferred!Write
BY DEF Deferred!Write, IrisOf

LEMMA EmptyQueueSteps ==
  ASSUME IrisOf(Waiting', heap') = <<>>, pc' # "flush"
  PROVE  /\ closed' = FALSE => Deferred!Restart
         /\ closed' = TRUE /\ ~closed /\ pc # "flush" => Deferred!Close
BY DEF Deferred!Restart, Deferred!Close, IrisOf

\* The queue of a flush and the pending list outside one are queues; whatever a step
\* leaves in them, collecting objects does not change their resources.
LEMMA WaitingIris ==
  ASSUME CoreInv, LiveInv, [Next]_vars, ~Restart
  PROVE  /\ Queued(Waiting, heap)
         /\ IrisOf(Waiting', heap') = IrisOf(Waiting', heap)
<1>1. Queued(Waiting, heap)
  BY DEF LiveInv, Waiting
<1>2. Queued(pending', heap) /\ Queued(todo', heap)
  BY QueueStep DEF Rearranged
<1>3. Queued(Waiting', heap) /\ PendingObjs(Waiting') \subseteq PendingObjs(pending') \cup PendingObjs(todo')
  BY <1>2 DEF Waiting
<1>4. \A x \in PendingObjs(Waiting') : heap'[x].iri = heap[x].iri
  BY <1>3, WaitingKeepIris
<1>5. Waiting' \in Seq(Obj)
  BY <1>3 DEF Queued
<1> QED
  BY <1>1, <1>4, <1>5, IrisAlike

\* Calls that take models off the pending list discard their writes.
LEMMA RemovalDiscards ==
  ASSUME CoreInv, LiveInv, [Next]_vars, ~Restart, NEW subjects,
         subjects \in {{i} : i \in Iris} \cup Scopes,
         ~closed, closed' = closed, pc # "flush", pc' # "flush",
         pending' = RemovePending(pending, heap, subjects)
  PROVE  Deferred!Discard
<1>1. heap \in [Obj -> Node]
  BY DEF CoreInv, HeapInv, HeapOK
<1>2. Waiting = pending /\ Waiting' = pending'
  BY DEF Waiting
<1>3. Queued(pending, heap) /\ IrisOf(Waiting', heap') = IrisOf(pending', heap)
  BY <1>2, WaitingIris
<1> DEFINE at == {n \in DOMAIN IrisOf(pending, heap) :
                    IrisOf(pending, heap)[n] \notin subjects \cap Iris}
<1>4. IrisOf(RemovePending(pending, heap, subjects), heap) = Kept(IrisOf(pending, heap), at)
  BY <1>1, <1>3, IrisKept
<1>5. at = {n \in DOMAIN IrisOf(Waiting, heap) :
              IrisOf(Waiting, heap)[n] \notin subjects \cap Iris}
  BY <1>2
<1> HIDE DEF at
<1>6. IrisOf(Waiting', heap') = Kept(IrisOf(Waiting, heap), at)
  BY <1>2, <1>3, <1>4
<1>7. IrisOf(Waiting, heap) \in Seq(Iris)
  BY <1>1, <1>2, <1>3, IrisSeq
<1> QED
  BY <1>5, <1>6, <1>7, DiscardStep

\* What a put or a delete of the held instance is about.
LEMMA MineScopes ==
  ASSUME CoreInv, NEW op \in OnInstance, Body(op)
  PROVE  /\ PutSubjects(heap, graph, mine) \in Scopes
         /\ DeleteSubjects(heap, mine) \in Scopes
         /\ {MineIri} \in {{i} : i \in Iris}
<1>1. mine # None
  BY BodyHasOne DEF CoreInv
<1>2. MineIri \in Iris
  BY MineLive DEF MineIri
<1> QED
  BY <1>1, <1>2 DEF Scopes

\* A rollback discards all of them.
LEMMA ClearingDiscards ==
  ASSUME ~closed, closed' = closed, pc # "flush", pc' # "flush", pending' = <<>>
  PROVE  Deferred!Clear
<1>1. Waiting' = <<>>
  BY DEF Waiting
<1> QED
  BY <1>1, ClearStep, IrisNone

LEMMA QueueDefers ==
  ASSUME CoreInv, LiveInv, QueueInv, [Next]_vars, ~Restart, Queue
  PROVE  Deferred!Defer
<1>1. /\ heap \in [Obj -> Node] /\ mine \in Obj /\ heap[mine].iri \in Iris
      /\ heap[mine].iri # None
  BY MineLive DEF CoreInv, HeapInv, HeapOK, Queue, OnInstance
<1>2. ~closed /\ pc # "flush" /\ pc' # "flush" /\ closed' = closed
  BY BodyFacts DEF Queue, Body, Return
<1>3. Waiting = pending /\ Waiting' = AddPending(pending, heap, mine)
  BY <1>2 DEF Waiting, Queue
<1>4. Queued(pending, heap) /\ IrisOf(Waiting', heap') = IrisOf(Waiting', heap)
  BY <1>3, WaitingIris
<1> DEFINE i == heap[mine].iri
           r == RemovePending(pending, heap, {i})
           s == IrisOf(pending, heap)
           at == {n \in DOMAIN s : s[n] \notin {i} \cap Iris}
<1>5. Queued(r, heap) /\ Queued(AddPending(pending, heap, mine), heap)
  BY <1>1, <1>4, RemoveQueued, AddQueued
<1>6. AddPending(pending, heap, mine) = Append(r, mine)
  BY DEF AddPending
<1>7. IrisOf(r, heap) = Kept(s, at)
  BY <1>1, <1>4, IrisKept
<1> HIDE DEF r, at
<1>8. IrisOf(Append(r, mine), heap) = Append(IrisOf(r, heap), i)
  BY <1>1, <1>5, <1>6, IrisAppend
<1>9. IrisOf(Waiting', heap') = Append(Kept(IrisOf(Waiting, heap), at), i)
  BY <1>3, <1>4, <1>6, <1>7, <1>8
<1>10. at = {n \in DOMAIN IrisOf(Waiting, heap) : IrisOf(Waiting, heap)[n] \notin {i} \cap Iris}
  BY <1>3 DEF at
<1>11. i \in Iris
  BY <1>1
<1> HIDE DEF i
<1> QED
  BY <1>2, <1>9, <1>10, <1>11, DeferStep

LEMMA FlushPutWrites ==
  ASSUME CoreInv, LiveInv, [Next]_vars, ~Restart, FlushPut
  PROVE  Deferred!Write
<1>1. heap \in [Obj -> Node]
  BY DEF CoreInv, HeapInv, HeapOK
<1>2. pc = "flush" /\ pc' = "flush" /\ closed' = closed /\ todo # <<>> /\ todo' = Tail(todo)
  BY DEF FlushPut
<1>3. Waiting = todo /\ Waiting' = Tail(todo)
  BY <1>2 DEF Waiting
<1>4. Queued(todo, heap) /\ IrisOf(Waiting', heap') = IrisOf(Tail(todo), heap)
  BY <1>3, WaitingIris
<1>5. IrisOf(Tail(todo), heap) = Tail(IrisOf(todo, heap)) /\ IrisOf(todo, heap) # <<>>
  BY <1>1, <1>2, <1>4, IrisTail
<1> QED
  BY <1>2, <1>3, <1>4, <1>5, WriteStep

\* Every step of a session is a step of the queue of DeferredWrites, or none.
LEMMA QueueRefines ==
  ASSUME CoreInv, LiveInv, QueueInv, [Next]_vars
  PROVE  [Deferred!Next]_(Deferred!vars)
<1> USE DEF Deferred!Next
<1>1. CASE Restart
  <2>1. /\ pending' = <<>> /\ todo' = <<>> /\ pc' = "idle" /\ closed' = FALSE
    BY <1>1 DEF Restart
  <2>2. Waiting' = <<>>
    BY <2>1 DEF Waiting
  <2> QED
    BY <2>1, <2>2, IrisNone, EmptyQueueSteps
<1> SUFFICES ASSUME ~Restart PROVE [Deferred!Next]_(Deferred!vars)
  BY <1>1
<1>2. ASSUME NEW c, Runs(c) PROVE ~closed /\ pc # "flush"
  BY <1>2, BodyFacts
<1>3. CASE FlushPut
  BY <1>3, FlushPutWrites
<1>4. CASE Put \/ Add \/ Delete \/ Merge \/ Expunge \/ Expire
  <2>1. \E c : Runs(c)
    BY <1>4 DEF Put, Add, Delete, Merge, Expunge, Expire, Body
  <2>2. \E subjects \in {{i} : i \in Iris} \cup Scopes :
          pending' = RemovePending(pending, heap, subjects)
    <3>1. CASE Put
      <4>1. Body("put") /\ pending' = RemovePending(pending, heap, PutSubjects(heap, graph, mine))
        BY <3>1 DEF Put, PendingAfterPut
      <4> QED
        BY <4>1, MineScopes DEF OnInstance
    <3>2. CASE Delete
      <4>1. Body("delete") /\ pending' = RemovePending(pending, heap, DeleteSubjects(heap, mine))
        BY <3>2 DEF Delete
      <4> QED
        BY <4>1, MineScopes DEF OnInstance
    <3>3. CASE Add \/ Merge \/ Expunge
      <4>1. /\ \E op \in OnInstance : Body(op)
            /\ pending' = RemovePending(pending, heap, {MineIri})
        BY <3>3 DEF Add, Merge, Expunge, OnInstance
      <4> QED
        BY <4>1, MineScopes
    <3>4. CASE Expire
      <4>1. PICK c \in CallsOf("expire") : pending' = RemovePending(pending, heap, {c.iri})
        BY <3>4 DEF Expire
      <4>2. c.iri \in Iris
        BY DEF CallsOf
      <4> QED
        BY <4>1, <4>2
    <3> QED
      BY <1>4, <3>1, <3>2, <3>3, <3>4
  <2>3. closed' = closed /\ pc' # "flush"
    BY <1>4 DEF Put, Add, Delete, Merge, Expunge, Expire, Return
  <2> QED
    BY <1>2, <2>1, <2>2, <2>3, RemovalDiscards
<1>5. CASE Queue
  BY <1>5, QueueDefers
<1>6. CASE Rollback
  <2>1. (\E c : Runs(c)) /\ pending' = <<>> /\ closed' = closed /\ pc' # "flush"
    BY <1>6 DEF Rollback, Return, Body
  <2> QED
    BY <1>2, <2>1, ClearingDiscards
<1>7. CASE ExitError
  <2>1. /\ \E c : Runs(c)
        /\ pending' = <<>> \/ pending' = pending
        /\ closed' = (CloseOnExit /\ pending' = <<>>)
        /\ pc' # "flush"
    BY <1>7 DEF ExitError, Return, Body
  <2>2. ~closed /\ pc # "flush"
    BY <1>2, <2>1
  <2>3. Waiting = pending /\ Waiting' = pending'
    BY <2>1, <2>2 DEF Waiting
  <2>4. closed \in BOOLEAN /\ closed' \in BOOLEAN
    BY <2>1, OptionAssumption DEF CoreInv, ControlInv
  <2>5. CASE closed' = TRUE
    <3>1. pending' = <<>>
      BY <2>1, <2>5
    <3>2. IrisOf(Waiting', heap') = <<>>
      BY <2>3, <3>1, IrisNone
    <3> QED
      BY <2>1, <2>2, <2>5, <3>2, EmptyQueueSteps
  <2>6. CASE closed' = FALSE
    <3>1. closed' = closed
      BY <2>2, <2>4, <2>6
    <3>2. CASE pending' = <<>>
      BY <2>1, <2>2, <3>1, <3>2, ClearingDiscards
    <3>3. CASE pending' = pending
      <4>1. IrisOf(Waiting', heap') = IrisOf(Waiting, heap)
        BY <2>3, <3>3, WaitingIris
      <4> QED
        BY <2>1, <2>2, <3>1, <4>1, SameQueueSteps
    <3> QED
      BY <2>1, <3>2, <3>3
  <2> QED
    BY <2>4, <2>5, <2>6
<1>8. CASE Close \/ Exit
  <2>1. (\E c : Runs(c)) /\ pending' = pending /\ pc' # "flush"
    BY <1>8 DEF Close, Exit, Return, Body
  <2>2. ~closed /\ pc # "flush"
    BY <1>2, <2>1
  <2>3. closed \in BOOLEAN /\ closed' \in BOOLEAN
    BY <1>8, OptionAssumption DEF CoreInv, ControlInv, Close, Exit
  <2>4. Waiting = pending /\ Waiting' = pending
    BY <2>1, <2>2 DEF Waiting
  <2>5. CASE closed' = TRUE
    <3>1. pending = <<>>
      <4>1. CASE Close
        BY <2>5, <4>1 DEF Close
      <4>2. CASE Exit
        <5>1. PICK c \in CallsOf("exit") : Runs(c)
          BY <4>2 DEF Exit, Body
        <5>2. c.op = "exit"
          BY DEF CallsOf
        <5> QED
          BY <5>1, <5>2, BodyFacts
      <4> QED
        BY <1>8, <4>1, <4>2
    <3>2. IrisOf(Waiting', heap') = <<>>
      BY <2>4, <3>1, IrisNone
    <3> QED
      BY <2>1, <2>2, <2>5, <3>2, EmptyQueueSteps
  <2>6. CASE closed' = FALSE
    <3>1. closed' = closed
      BY <2>2, <2>3, <2>6
    <3>2. IrisOf(Waiting', heap') = IrisOf(Waiting, heap)
      BY <2>4, WaitingIris
    <3> QED
      BY <2>1, <2>2, <3>1, <3>2, SameQueueSteps
  <2> QED
    BY <2>3, <2>5, <2>6
<1>9. CASE BeginFlush
  <2>1. /\ ~closed /\ pc = "idle" /\ pc' = "flush" /\ closed' = closed
        /\ todo' = pending
    BY <1>9 DEF BeginFlush, MayCall, Ready
  <2>2. Waiting' = Waiting
    BY <2>1 DEF Waiting
  <2>3. IrisOf(Waiting', heap') = IrisOf(Waiting, heap)
    BY <2>2, WaitingIris
  <2> QED
    BY <2>1, <2>3, SameQueueSteps
<1>10. CASE FlushRaises \/ FlushDone
  <2>1. pc = "flush" /\ pc' # "flush" /\ closed' = closed
    BY <1>10 DEF FlushRaises, FlushDone
  <2>2. Waiting' = Waiting
    <3>1. CASE FlushRaises
      <4>1. pending' = Requeued(todo, heap)
        BY <3>1 DEF FlushRaises
      <4>2. pending' = todo
        BY <4>1, RequeuedSame DEF LiveInv
      <4> QED
        BY <2>1, <4>2 DEF Waiting
    <3>2. CASE FlushDone
      BY <3>2 DEF FlushDone, Waiting
    <3> QED
      BY <1>10, <3>1, <3>2
  <2>3. IrisOf(Waiting', heap') = IrisOf(Waiting, heap)
    BY <2>2, WaitingIris
  <2> QED
    BY <2>1, <2>3, SameQueueSteps
<1>11. CASE Get \/ Refresh \/ Select \/ SelectRaises \/ Execute \/ ExpungeAll \/ FlushCall
            \/ HydrateRow \/ RowsDone \/ New \/ Edit \/ SyncMirror \/ ForeignWrite
            \/ UNCHANGED vars
  <2>1. closed' = closed /\ pending' = pending /\ todo' = todo
    BY <1>11
       DEF Get, Refresh, Select, SelectRaises, Execute, ExpungeAll, FlushCall, HydrateRow,
           RowsDone, New, Edit, SyncMirror, ForeignWrite, Return, vars
  <2>2. (pc = "flush") = (pc' = "flush")
    <3>1. CASE Get \/ Refresh \/ Select \/ SelectRaises \/ Execute \/ ExpungeAll \/ FlushCall
      <4>1. (\E c : Runs(c)) /\ pc' # "flush"
        BY <3>1
           DEF Get, Refresh, Select, SelectRaises, Execute, ExpungeAll, FlushCall, Return, Body
      <4> QED
        BY <1>2, <4>1
    <3>2. CASE HydrateRow \/ RowsDone
      BY <3>2 DEF HydrateRow, RowsDone, Return
    <3>3. CASE New \/ Edit \/ SyncMirror \/ ForeignWrite \/ UNCHANGED vars
      BY <3>3 DEF New, Edit, SyncMirror, ForeignWrite, vars
    <3> QED
      BY <1>11, <3>1, <3>2, <3>3
  <2>3. Waiting' = Waiting
    BY <2>1, <2>2 DEF Waiting
  <2>4. IrisOf(Waiting', heap') = IrisOf(Waiting, heap)
    BY <2>3, WaitingIris
  <2> QED
    BY <2>1, <2>2, <2>4, SameQueueSteps
<1> QED
  BY <1>3, <1>4, <1>5, <1>6, <1>7, <1>8, <1>9, <1>10, <1>11 DEF Next, CallStep

\* The pending list with flush, failures, autoflush and garbage collection implements
\* the queue without duplicates that DeferredWrites promises, for every class shape,
\* store and set of calls (session_state.add_pending, session.flush).
THEOREM PendingListIsTheQueue == Spec => DeferredSpec
<1>1. Init => Deferred!Init
  <2> SUFFICES ASSUME Init PROVE Deferred!Init
    OBVIOUS
  <2>1. Waiting = <<>> /\ pc # "flush" /\ closed = FALSE
    BY DEF Init, Waiting
  <2>2. IrisOf(Waiting, heap) = <<>>
    BY <2>1, IrisNone
  <2> QED
    BY <2>1, <2>2 DEF Deferred!Init, IrisOf
<1> QED
  BY <1>1, QueueRefines, CoreInvHolds, LiveInvHolds, QueueInvHolds, PTL
     DEF Spec, DeferredSpec, Deferred!Spec

-----------------------------------------------------------------------------
(* What the identity map says is in the graph                              *)

\* Graph g says what object x holds of its resource.
SaidBy(g, h, x) ==
  /\ Typed(g, h[x].iri)
  /\ h[x].name \in NamesIn(g, h[x].iri)
  /\ TargetOf(h, h[x].rel) \subseteq LinksIn(g, h[x].iri)

Stated(c, g, h) ==
  \A i \in Iris : c.identity[i] # None => SaidBy(g, h, c.identity[i])

\* An object that embeds another one is of a class with a relationship.
Shaped(h) ==
  \A x \in Obj : h[x].rel \in Obj => h[x].iri \in Iris /\ HasRelationship(h[x].iri)

\* Every relationship is part of the composition tree.
AllCascade == \A i \in Iris : HasRelationship(i) => i \in Cascading

\* The caches say no more after they have forgotten something.
LEMMA ForgetStated ==
  ASSUME NEW c \in Cache, NEW g, NEW h, Stated(c, g, h)
  PROVE  /\ Stated(EmptyCache, g, h)
         /\ \A S : Stated(ExpireKeys(c, S), g, h) /\ Stated(DropHydration(c, S), g, h)
         /\ \A i, d, o : Stated(SetHydration(c, i, d, o), g, h)
<1>1. Stated(EmptyCache, g, h)
  BY DEF Stated, EmptyCache
<1>2. ASSUME NEW S PROVE Stated(ExpireKeys(c, S), g, h) /\ Stated(DropHydration(c, S), g, h)
  BY DEF Stated, ExpireKeys, DropIdentity, DropHydration, Cache
<1>3. ASSUME NEW i, NEW d, NEW o PROVE Stated(SetHydration(c, i, d, o), g, h)
  BY DEF Stated, SetHydration, Cache
<1> QED
  BY <1>1, <1>2, <1>3

\* Registering files objects of the chain, and nothing else changes.
LEMMA RegisterStated ==
  ASSUME NEW c \in Cache, NEW g, NEW h \in [Obj -> Node], NEW o \in Obj,
         \A y \in ChainObjs(h, o) : SaidBy(g, h, y),
         \A i \in Iris : c.identity[i] # None /\ i # h[o].iri => SaidBy(g, h, c.identity[i])
  PROVE  Stated(Register(c, h, o), g, h)
<1> SUFFICES ASSUME NEW i \in Iris, Register(c, h, o).identity[i] # None
             PROVE  SaidBy(g, h, Register(c, h, o).identity[i])
  BY DEF Stated
<1> DEFINE c1 == SetIdentity(c, h[o].iri, o)
<1>1. c1.identity[i] = IF i = h[o].iri THEN o ELSE c.identity[i]
  BY DEF SetIdentity, DropHydration, Cache
<1> HIDE DEF c1
<1>2. Register(c, h, o).identity[i]
        = IF Embedded(h, o, i) = {} THEN c1.identity[i] ELSE CHOOSE x \in Embedded(h, o, i) : TRUE
  BY DEF Register, RegisterEmbedded, DropHydration, c1
<1>3. Embedded(h, o, i) \subseteq ChainObjs(h, o)
  BY DEF Embedded, Embeds, ChainObjs
<1>4. o \in ChainObjs(h, o)
  BY ChainHasItself
<1> QED
  BY <1>1, <1>2, <1>3, <1>4

\* Collection frees nothing that the caches say.
LEMMA CollectStated ==
  ASSUME NEW h \in [Obj -> Node], cache' \in Cache, NEW g, Stated(cache', g, h), Collect(h)
  PROVE  Stated(cache', g, heap')
<1> SUFFICES ASSUME NEW i \in Iris, cache'.identity[i] # None
             PROVE  SaidBy(g, heap', cache'.identity[i])
  BY DEF Stated
<1> DEFINE x == cache'.identity[i]
           live == Reachable(h, Roots')
<1>1. x \in Roots' \cap Obj /\ SaidBy(g, h, x)
  BY DEF Roots, Cache, Stated
<1>2. heap' = [y \in Obj |-> IF y \in live THEN h[y] ELSE Blank]
  BY DEF Collect
<1>3. x \in live /\ \A y \in live : y \in Obj /\ (h[y].rel \in Obj => h[y].rel \in live)
  BY <1>1, ReachClosed
<1> HIDE DEF x, live
<1>4. heap'[x] = h[x] /\ (h[x].rel \in Obj => heap'[h[x].rel] = h[h[x].rel])
  BY <1>1, <1>2, <1>3
<1> QED
  BY <1>1, <1>4 DEF SaidBy, TargetOf, x

LEMMA CollectShaped ==
  ASSUME NEW h \in [Obj -> Node], Shaped(h), Collect(h)
  PROVE  Shaped(heap')
<1>1. Blank.rel \notin Obj
  BY ItemAssumption DEF Blank
<1> QED
  BY <1>1 DEF Shaped, Collect

\* An object in use is said as before when it and the resources it links are the same.
LEMMA UsedSaid ==
  ASSUME heap \in [Obj -> Node], NEW y \in Used, NEW h, h[y] = heap[y],
         \A z \in Used : h[z].iri = heap[z].iri, NEW g, SaidBy(g, heap, y)
  PROVE  SaidBy(g, h, y)
<1>1. heap[y].rel \in Obj => heap[y].rel \in Used
  BY ReachClosed DEF Used
<1> QED
  BY <1>1 DEF SaidBy, TargetOf

\* Triples about other resources do not matter.
LEMMA KeptSaid ==
  ASSUME NEW h, NEW y, NEW g, NEW new, SaidBy(g, h, y),
         \A t \in g : t[1] = h[y].iri => t \in new
  PROVE  SaidBy(new, h, y)
  BY DEF SaidBy, Typed, NamesIn, LinksIn

\* A tree that can be written is all that is embedded when every relationship cascades.
LEMMA ChainIsTree ==
  ASSUME NEW h \in [Obj -> Node], NEW o \in Obj, Shaped(h), AllCascade, ~EmbedsCycle(h, o)
  PROVE  ChainObjs(h, o) \subseteq NestedModels(h, o)
<1> DEFINE c == Chain(h, o)
<1>1. IsWalk(h, o, c)
  BY ChainWalks DEF Item
<1>2. PICK e \in Nat : e >= 1 /\ Embeds(h, o) = 1 .. e
  BY EmbedsInterval
<1>3. DOMAIN c = 1 .. Len(c) /\ Len(c) \in Nat
  BY <1>1 DEF IsWalk
<1>4. \A n \in 1 .. e : c[n] \in Obj /\ n \in DOMAIN c
  BY <1>2 DEF Embeds
<1>5. ASSUME NEW n \in 1 .. e, NEW m \in 1 .. n - 1 PROVE h[c[m]].iri \in Cascading
  <2>1. m \in 1 .. e /\ m + 1 \in 1 .. e /\ m \in 1 .. Len(c) - 1
    <3> HIDE DEF c
    <3>1. n \in 1 .. Len(c)
      BY <1>3, <1>4
    <3> QED
      BY <1>3, <3>1
  <2> HIDE DEF c
  <2>2. c[m] \in Obj /\ c[m + 1] \in Obj /\ c[m + 1] = h[c[m]].rel
    BY <1>1, <1>4, <2>1 DEF IsWalk
  <2> QED
    BY <2>2 DEF Shaped, AllCascade
<1>6. CascadePositions(h, o) = 1 .. e
  BY <1>2, <1>5 DEF CascadePositions
<1>7. ASSUME NEW n \in 1 .. e, NEW m \in 1 .. n - 1 PROVE h[c[m]].iri # h[c[n]].iri
  BY <1>6 DEF EmbedsCycle, IriAt
<1> SUFFICES ASSUME NEW x \in ChainObjs(h, o) PROVE x \in NestedModels(h, o)
  OBVIOUS
<1>8. PICK k \in 1 .. e : x = c[k]
  BY <1>2 DEF ChainObjs, Embeds
<1>9. ASSUME NEW m \in 1 .. k, NEW l \in 1 .. k, m < l PROVE h[c[m]].iri # h[c[l]].iri
  <2>1. l \in 1 .. e /\ m \in 1 .. l - 1
    BY <1>9
  <2> QED
    BY <1>7, <2>1
<1> QED
  BY <1>6, <1>8, <1>9 DEF NestedModels

\* Graph g says what an object of a tree holds whose triples it has.
LEMMA TreeSaid ==
  ASSUME NEW h \in [Obj -> Node], HeapLive(h), NEW o \in Obj, h[o].iri # None, NEW g,
         ModelGraph(h, o) \subseteq g, NEW m \in NestedModels(h, o)
  PROVE  SaidBy(g, h, m)
<1>1. h[m].name \in Names /\ TargetOf(h, h[m].rel) \subseteq Iris
  BY NestedLive
<1>2. InstanceTriples(h, m) \subseteq g
  BY DEF ModelGraph
<1> QED
  BY <1>1, <1>2 DEF SaidBy, InstanceTriples, Typed, NamesIn, LinksIn

\* After a put the caches have forgotten what it removes, and the tree it files is in
\* the graph.
LEMMA PutStated ==
  ASSUME HeapInv, HeapLive(heap), Shaped(heap), AllCascade, Stated(cache, graph, heap),
         NEW x \in Obj, heap[x].iri # None, PutSucceeds(x)
  PROVE  Stated(cache', graph', heap)
<1> DEFINE S == PutSubjects(heap, graph, x)
           c == ExpireKeys(cache, S)
<1>1. heap \in [Obj -> Node] /\ cache \in Cache /\ KeyedIn(cache, heap)
  BY DEF HeapInv, HeapOK, Filed
<1>2. /\ graph' = (graph \ OwnedTriples(graph, S)) \cup ModelGraph(heap, x)
      /\ cache' = Register(c, heap, x) /\ ~EmbedsCycle(heap, x)
  BY DEF PutSucceeds, StoreApplies, PutRemoves
<1>3. \A y \in ChainObjs(heap, x) : SaidBy(graph', heap, y)
  BY <1>1, <1>2, ChainIsTree, TreeSaid
<1> HIDE DEF S
<1>4. /\ c \in Cache
      /\ \A i \in Iris : c.identity[i] # None => i \notin S /\ c.identity[i] = cache.identity[i]
  BY <1>1, ExpireKeysFiled DEF Filed, ExpireKeys, DropIdentity, DropHydration, Cache
<1> HIDE DEF c
<1>5. ASSUME NEW i \in Iris, c.identity[i] # None PROVE SaidBy(graph', heap, c.identity[i])
  <2>1. /\ i \notin S /\ c.identity[i] = cache.identity[i] /\ heap[cache.identity[i]].iri = i
        /\ SaidBy(graph, heap, cache.identity[i])
    BY <1>1, <1>4, <1>5 DEF Stated, KeyedIn
  <2>2. \A t \in graph : t[1] = i => t \in graph'
    BY <1>2, <2>1 DEF OwnedTriples
  <2> QED
    BY <2>1, <2>2, KeptSaid
<1> QED
  BY <1>1, <1>2, <1>3, <1>4, <1>5, RegisterStated

\* add() only adds triples, and the caches forget the tree it writes.
LEMMA AddStated ==
  ASSUME HeapInv, Shaped(heap), AllCascade, Stated(cache, graph, heap), NEW x \in Obj,
         ~EmbedsCycle(heap, x), graph \subseteq graph',
         cache' = ExpireKeys(Register(cache, heap, x), DeleteSubjects(heap, x))
  PROVE  Stated(cache', graph', heap)
<1> DEFINE r == Register(cache, heap, x)
           S == DeleteSubjects(heap, x)
<1>1. heap \in [Obj -> Node] /\ cache \in Cache /\ r \in Cache
  BY RegisterFiled DEF HeapInv, HeapOK, Filed
<1>2. \A y \in ChainObjs(heap, x) : heap[y].iri \in S
  BY <1>1, ChainIsTree DEF DeleteSubjects, NestedIris
<1>3. \A i \in Iris : i \notin S => r.identity[i] = cache.identity[i]
  <2> SUFFICES ASSUME NEW i \in Iris, i \notin S PROVE r.identity[i] = cache.identity[i]
    OBVIOUS
  <2>1. i # heap[x].iri
    BY <1>1, <1>2, ChainHasItself
  <2>2. Embedded(heap, x, i) = {}
    BY <1>2 DEF Embedded, Embeds, ChainObjs, IriAt
  <2> QED
    BY <1>1, <2>1, <2>2 DEF Register, RegisterEmbedded, SetIdentity, DropHydration, Cache
<1> HIDE DEF r, S
<1>4. \A i \in Iris : cache'.identity[i] # None =>
        i \notin S /\ cache'.identity[i] = r.identity[i]
  BY <1>1 DEF ExpireKeys, DropIdentity, DropHydration, Cache, r, S
<1>5. \A y : SaidBy(graph, heap, y) => SaidBy(graph', heap, y)
  BY KeptSaid
<1> QED
  BY <1>3, <1>4, <1>5 DEF Stated

\* A delete removes nothing of what the caches still say.
LEMMA DeleteStated ==
  ASSUME HeapInv, Stated(cache, graph, heap), NEW S,
         graph' = graph \ OwnedTriples(graph, S), cache' = ExpireKeys(cache, S)
  PROVE  Stated(cache', graph', heap)
<1>1. cache \in Cache /\ KeyedIn(cache, heap)
  BY DEF HeapInv, HeapOK, Filed
<1>2. \A i \in Iris : cache'.identity[i] # None =>
        i \notin S /\ cache'.identity[i] = cache.identity[i]
  BY <1>1 DEF ExpireKeys, DropIdentity, DropHydration, Cache
<1> SUFFICES ASSUME NEW i \in Iris, cache'.identity[i] # None
             PROVE  SaidBy(graph', heap, cache.identity[i])
  BY <1>2 DEF Stated
<1>3. /\ i \notin S /\ heap[cache.identity[i]].iri = i
      /\ SaidBy(graph, heap, cache.identity[i])
  BY <1>1, <1>2 DEF Stated, KeyedIn
<1>4. \A t \in graph : t[1] = i => t \in graph'
  BY <1>3 DEF OwnedTriples
<1> QED
  BY <1>3, <1>4, KeptSaid

-----------------------------------------------------------------------------
(* Reads                                                                   *)

\* What a line of objects that holds the rows of a load looks like.
LineOf(h, b, rows) ==
  /\ b \in [1 .. Len(rows) -> Obj]
  /\ \A k \in 1 .. Len(rows) : h[b[k]].iri = rows[k].iri /\ h[b[k]].name = rows[k].name
  /\ \A k \in 1 .. Len(rows) - 1 : h[b[k]].rel = b[k + 1]
  /\ h[b[Len(rows)]].rel \in {rows[Len(rows)].rel, None} \ Obj

\* The graph says every object of a line that a load has made.
LEMMA LineSaid ==
  ASSUME NEW g, NEW rows, rows \in Seq(LoadedRow), Len(rows) >= 1, ~LoadRaises(rows),
         Says(g, rows), Typed(g, rows[1].iri), NEW h, NEW b, LineOf(h, b, rows),
         NEW k \in 1 .. Len(rows)
  PROVE  /\ SaidBy(g, h, b[k])
         /\ h[b[k]].rel \in Obj => h[b[k]].iri \in Iris /\ HasRelationship(h[b[k]].iri)
<1> DEFINE L == Len(rows)
<1>1. /\ L \in Nat /\ L >= 1 /\ rows[k].iri \in Iris
      /\ rows[k].rel \in Iris \cup {None, Unset} /\ rows[k].name # None
  <2>1. rows[k] \in LoadedRow /\ k \in DOMAIN rows
    BY ElementOfSeq
  <2> QED
    BY <2>1 DEF LoadRaises, LoadedRow
<1>2. /\ rows[k].name \in NamesIn(g, rows[k].iri)
      /\ {rows[k].rel} \cap Iris \subseteq LinksIn(g, rows[k].iri)
  BY <1>1 DEF Says
<1>3. h[b[k]].iri = rows[k].iri /\ h[b[k]].name = rows[k].name
  BY DEF LineOf
<1>4. Typed(g, rows[k].iri)
  <2>1. CASE k = 1
    BY <2>1
  <2>2. CASE k # 1
    <3> DEFINE j == k - 1
    <3>1. j \in 1 .. L /\ j < L /\ j + 1 = k
      BY <1>1, <2>2
    <3> HIDE DEF j
    <3>2. rows[j + 1].iri = rows[j].rel /\ Typed(g, rows[j].rel)
      BY <3>1 DEF Says
    <3> QED
      BY <3>1, <3>2
  <2> QED
    BY <2>1, <2>2
<1>5. CASE k = L
  <2>1. h[b[k]].rel \in {rows[k].rel, None} \ Obj
    BY <1>5 DEF LineOf
  <2>2. TargetOf(h, h[b[k]].rel) \subseteq {rows[k].rel} \cap Iris
    BY <2>1, ItemAssumption DEF TargetOf
  <2> QED
    BY <1>2, <1>3, <1>4, <2>1, <2>2 DEF SaidBy
<1>6. CASE k # L
  <2>1. k \in 1 .. L - 1 /\ k < L /\ k + 1 \in 1 .. L
    BY <1>1, <1>6
  <2>2. h[b[k]].rel = b[k + 1] /\ b[k + 1] \in Obj /\ h[b[k + 1]].iri = rows[k + 1].iri
    BY <2>1 DEF LineOf
  <2>3. /\ rows[k].rel \in Iris /\ rows[k + 1].iri = rows[k].rel
        /\ HasRelationship(rows[k].iri)
    BY <2>1 DEF Says
  <2>4. TargetOf(h, h[b[k]].rel) = {rows[k].rel}
    BY <2>2, <2>3 DEF TargetOf
  <2> QED
    BY <1>1, <1>2, <1>3, <1>4, <2>3, <2>4 DEF SaidBy
<1> QED
  BY <1>5, <1>6

\* A line is all that its first object embeds.
LEMMA LineHolds ==
  ASSUME NEW h \in [Obj -> Node], NEW L \in Nat, L >= 1, L <= Cardinality(Obj),
         NEW b \in [1 .. L -> Obj], h[b[L]].rel \notin Obj,
         \A k \in 1 .. L - 1 : h[b[k]].rel = b[k + 1]
  PROVE  ChainObjs(h, b[1]) \subseteq {b[k] : k \in 1 .. L}
<1>1. /\ Chain(h, b[1]) = [k \in 1 .. L + 1 |-> IF k <= L THEN b[k] ELSE h[b[L]].rel]
      /\ Embeds(h, b[1]) = 1 .. L
  BY LineIsChain
<1> SUFFICES ASSUME NEW x \in ChainObjs(h, b[1]) PROVE x \in {b[k] : k \in 1 .. L}
  OBVIOUS
<1>2. PICK n \in 1 .. L : x = Chain(h, b[1])[n]
  BY <1>1 DEF ChainObjs, Embeds
<1>3. n \in 1 .. L + 1 /\ n <= L
  BY <1>2
<1> QED
  BY <1>1, <1>2, <1>3

\* The contents h and the caches that a load leaves: a line b of objects, the first
\* of which becomes the identity, and the used objects but that one as they were.
Files(c, i, depth, rows, h, b) ==
  /\ h \in [Obj -> Node] /\ Collect(h) /\ LineOf(h, b, rows) /\ Len(rows) <= Cardinality(Obj)
  /\ \A y \in Used \ {b[1]} : h[y] = heap[y]
  /\ \A y \in Used : h[y].iri = heap[y].iri
  /\ \A y \in Obj : h[y] = heap[y] \/ \E k \in 1 .. Len(rows) : h[y] = h[b[k]]
  /\ \E d : /\ d = c \/ \E S : d = ExpireKeys(c, S)
            /\ cache' = SetHydration(Register(d, h, b[1]), i, depth, b[1])

LEMMA AttachFiles ==
  ASSUME NEW c, NEW g, NEW i \in Iris, NEW depth, NEW rows,
         rows \in Seq(LoadedRow), Len(rows) >= 1, rows[1].iri = i,
         NEW new \in Allocations(Len(rows), Used), HeapInv, Filed(c, heap), Within(c, Used),
         Attach(c, g, i, depth, rows, new)
  PROVE  \E h, b : Files(c, i, depth, rows, h, b)
<1> DEFINE h1 == Loaded(heap, rows, new)
           L == Len(rows)
           x == c.identity[i]
           h2 == Onto(rows, new, x)
<1>1. heap \in [Obj -> Node]
  BY DEF HeapInv, HeapOK
<1>2. /\ h1 \in [Obj -> Node]
      /\ new \in [1 .. L -> Obj \ Used] /\ L \in Nat /\ L <= Cardinality(Obj)
      /\ \A k \in 1 .. L : h1[new[k]].iri = rows[k].iri /\ h1[new[k]].name = rows[k].name
      /\ \A k \in 1 .. L - 1 : h1[new[k]].rel = new[k + 1]
      /\ h1[new[L]].rel = rows[L].rel /\ rows[L].rel \notin Obj
      /\ \A y \in Used : h1[y] = heap[y]
  BY <1>1, LoadedLine
<1>3. \A y \in Obj : h1[y] = heap[y] \/ \E k \in 1 .. L : y = new[k]
  <2>1. DOMAIN new = 1 .. L
    BY <1>2
  <2> QED
    BY <2>1 DEF Loaded
<1>4. 1 \in 1 .. L
  BY <1>2
<1>5. CASE x = None
  <2>1. /\ Collect(h1)
        /\ cache' = SetHydration(Register(c, h1, new[1]), i, depth, new[1])
    BY <1>5 DEF Attach
  <2> HIDE DEF h1
  <2>2. LineOf(h1, new, rows)
    BY <1>2 DEF LineOf
  <2>3. Files(c, i, depth, rows, h1, new)
    BY <1>2, <1>3, <2>1, <2>2 DEF Files
  <2> QED
    BY <2>3
<1>6. CASE x # None
  <2> DEFINE e == ExpireKeys(c, PutSubjects(h1, g, new[1]))
  <2>1. Collect(h2) /\ cache' = SetHydration(Register(e, h2, x), i, depth, x)
    BY <1>6 DEF Attach, Onto
  <2>2. x \in Used /\ x \in Obj /\ heap[x].iri = i
    BY <1>6, UsedInObj DEF Within, Filed, KeyedIn
  <2>0. \E S : e = ExpireKeys(c, S)
    OBVIOUS
  <2> HIDE DEF x, e
  <2>3. h2[new[1]] = h2[x]
    <3> DEFINE copy == Assigned(Loaded(heap, rows, new), {new[k] : k \in DOMAIN new})
    <3>1. h2 = [copy EXCEPT ![x] = copy[new[1]]]
      BY DEF Onto
    <3>2. DOMAIN copy = Obj
      BY DEF Assigned
    <3> HIDE DEF copy, h2
    <3>3. new[1] \in Obj
      BY <1>2, <1>4
    <3>4. h2[x] = copy[new[1]] /\ h2[new[1]] = copy[new[1]]
      BY <2>2, <3>1, <3>2, <3>3
    <3> QED
      BY <3>4
  <2>4. /\ h2 \in [Obj -> Node]
        /\ \A y \in Used \ {x} : h2[y] = heap[y]
        /\ \A y \in Obj \ {x} : h2[y] # h1[y] => y \in {new[k] : k \in 1 .. L}
    BY <1>1, <2>2, OntoLine, SMTT(30)
  <2>5. \E b \in [1 .. L -> Obj] :
          /\ b[1] = x
          /\ \A k \in 2 .. L : b[k] = new[k]
          /\ \A k \in 1 .. L : h2[b[k]].iri = rows[k].iri /\ h2[b[k]].name = rows[k].name
          /\ \A k \in 1 .. L - 1 : h2[b[k]].rel = b[k + 1]
          /\ h2[b[L]].rel \in {rows[L].rel, None} \ Obj
          /\ h2[b[L]].rel # rows[L].rel => rows[L].rel = Unset
    BY <1>1, <2>2, OntoLine, SMTT(30)
  <2> HIDE DEF h1, h2
  <2>6. PICK b \in [1 .. L -> Obj] :
          b[1] = x /\ (\A k \in 2 .. L : b[k] = new[k]) /\ LineOf(h2, b, rows)
    BY <2>5 DEF LineOf
  <2>7. ASSUME NEW y \in Obj PROVE h2[y] = heap[y] \/ \E k \in 1 .. L : h2[y] = h2[b[k]]
    <3>1. CASE y = x
      BY <1>4, <2>6, <3>1
    <3>2. CASE y # x /\ h2[y] = h1[y] /\ h1[y] = heap[y]
      BY <3>2
    <3>3. CASE \E k \in 1 .. L : y = new[k]
      <4>1. PICK k \in 1 .. L : y = new[k]
        BY <3>3
      <4>2. k = 1 \/ k \in 2 .. L
        BY <1>2
      <4> QED
        BY <1>4, <2>3, <2>6, <4>1, <4>2
    <3> QED
      BY <1>3, <2>4, <3>1, <3>2, <3>3
  <2>8. h2[x].iri = heap[x].iri
    BY <1>4, <2>2, <2>6 DEF LineOf
  <2>9. \A y \in Used : h2[y].iri = heap[y].iri
    BY <2>4, <2>8
  <2>10. Files(c, i, depth, rows, h2, b)
    BY <1>2, <2>0, <2>1, <2>4, <2>6, <2>7, <2>9 DEF Files
  <2> QED
    BY <2>10
<1> QED
  BY <1>5, <1>6

\* Caches and contents that say what graph g says.
Coherent(c, g, h) == Stated(c, g, h) /\ Shaped(h)

LEMMA CollectCoherent ==
  ASSUME NEW h \in [Obj -> Node], cache' \in Cache, NEW g, Coherent(cache', g, h), Collect(h)
  PROVE  Coherent(cache', g, heap')
  BY CollectStated, CollectShaped DEF Coherent

LEMMA FilesCoherent ==
  ASSUME NEW c, NEW g, NEW i \in Iris, NEW depth, NEW rows,
         rows \in Seq(LoadedRow), Len(rows) >= 1, rows[1].iri = i, ~LoadRaises(rows),
         Says(g, rows), Typed(g, i), HeapInv, Filed(c, heap), Within(c, Used), cache' \in Cache,
         Coherent(c, g, heap), NEW h, NEW b, Files(c, i, depth, rows, h, b)
  PROVE  Coherent(cache', g, heap')
<1> DEFINE L == Len(rows)
           o == b[1]
<1>1. heap \in [Obj -> Node] /\ h \in [Obj -> Node] /\ LineOf(h, b, rows) /\ Collect(h)
  BY DEF HeapInv, HeapOK, Files
<1>2. L \in Nat /\ L >= 1 /\ 1 \in 1 .. L /\ L \in 1 .. L
  OBVIOUS
<1>3. \A k \in 1 .. L :
        /\ SaidBy(g, h, b[k])
        /\ h[b[k]].rel \in Obj => h[b[k]].iri \in Iris /\ HasRelationship(h[b[k]].iri)
  BY <1>1, LineSaid
<1>4. /\ b \in [1 .. L -> Obj] /\ o \in Obj /\ h[o].iri = i /\ h[b[L]].rel \notin Obj
      /\ \A k \in 1 .. L - 1 : h[b[k]].rel = b[k + 1]
  BY <1>1, <1>2 DEF LineOf
<1>5. PICK d : /\ d = c \/ \E S : d = ExpireKeys(c, S)
               /\ cache' = SetHydration(Register(d, h, o), i, depth, o)
  BY DEF Files
<1>6. /\ \A y \in Used \ {o} : h[y] = heap[y]
      /\ \A y \in Used : h[y].iri = heap[y].iri
      /\ \A y \in Obj : h[y] = heap[y] \/ \E k \in 1 .. L : h[y] = h[b[k]]
      /\ L <= Cardinality(Obj)
  BY DEF Files
<1>7. ASSUME NEW x \in ChainObjs(h, o) PROVE SaidBy(g, h, x)
  <2>1. /\ L \in Nat /\ L >= 1 /\ L <= Cardinality(Obj) /\ h \in [Obj -> Node]
        /\ b \in [1 .. L -> Obj] /\ h[b[L]].rel \notin Obj
        /\ \A k \in 1 .. L - 1 : h[b[k]].rel = b[k + 1]
    BY <1>1, <1>2, <1>4, <1>6
  <2> HIDE DEF L
  <2>2. ChainObjs(h, o) \subseteq {b[k] : k \in 1 .. L}
    BY <2>1, LineHolds
  <2> QED
    BY <1>3, <2>2 DEF L
<1>8. d \in Cache /\ Within(d, Used) /\ Filed(d, heap) /\ Stated(d, g, heap)
  <2>1. c \in Cache
    BY DEF Filed
  <2> QED
    BY <1>5, <2>1, ExpireKeysWithin, ExpireKeysFiled, ForgetStated DEF Coherent, Filed
<1> HIDE DEF o, L
<1>9. ASSUME NEW j \in Iris, d.identity[j] # None, j # h[o].iri
      PROVE  SaidBy(g, h, d.identity[j])
  <2> DEFINE y == d.identity[j]
  <2>1. y \in Used /\ heap[y].iri = j /\ SaidBy(g, heap, y)
    BY <1>8, <1>9 DEF Within, Filed, KeyedIn, Stated
  <2>2. y # o
    BY <1>6, <1>9, <2>1
  <2> QED
    BY <1>1, <1>6, <2>1, <2>2, UsedSaid
<1>10. Stated(Register(d, h, o), g, h)
  BY <1>1, <1>4, <1>7, <1>8, <1>9, RegisterStated
<1>11. Stated(cache', g, h)
  <2>1. Filed(d, h)
    BY <1>6, <1>8, SameIrisFiled
  <2>2. Register(d, h, o) \in Cache
    BY <1>4, <2>1, RegisterFiled DEF Filed
  <2> QED
    BY <1>5, <1>10, <2>2, ForgetStated
<1>12. Shaped(h)
  <2> SUFFICES ASSUME NEW y \in Obj, h[y].rel \in Obj
               PROVE  h[y].iri \in Iris /\ HasRelationship(h[y].iri)
    BY DEF Shaped
  <2>1. CASE h[y] = heap[y]
    BY <2>1 DEF Coherent, Shaped
  <2>2. CASE \E k \in 1 .. L : h[y] = h[b[k]]
    BY <1>3, <2>2 DEF L
  <2> QED
    BY <1>6, <2>1, <2>2
<1> QED
  BY <1>1, <1>11, <1>12, CollectCoherent DEF Coherent

LEMMA HydratesCoherent ==
  ASSUME NEW c, NEW g, NEW i \in Iris, NEW depth, HeapInv, Filed(c, heap), Within(c, Used),
         cache' \in Cache, Coherent(c, g, heap), Typed(g, i), Hydrates(c, g, i, depth)
  PROVE  Coherent(cache', g, heap')
<1>1. PICK rows \in Loads(g, i, depth) :
        /\ ~LoadRaises(rows)
        /\ \E new \in Allocations(Len(rows), Used) : Attach(c, g, i, depth, rows, new)
  BY DEF Hydrates
<1>2. PICK new \in Allocations(Len(rows), Used) : Attach(c, g, i, depth, rows, new)
  BY <1>1
<1>3. rows \in Seq(LoadedRow) /\ Len(rows) >= 1 /\ rows[1].iri = i
  BY LoadsStartAtRoot
<1>4. Says(g, rows)
  BY LoadsSay
<1>5. \E h, b : Files(c, i, depth, rows, h, b)
  BY <1>2, <1>3, AttachFiles
<1> QED
  BY <1>1, <1>3, <1>4, <1>5, FilesCoherent

LEMMA SameCoherent ==
  ASSUME HeapInv, cache' \in Cache, NEW g, Coherent(cache', g, heap), Collect(heap)
  PROVE  Coherent(cache', g, heap')
  BY CollectCoherent DEF HeapInv, HeapOK

LEMMA LookupCoherent ==
  ASSUME NEW c, NEW g, NEW i \in Iris, NEW depth, HeapInv, Filed(c, heap), Within(c, Used),
         cache' \in Cache, Coherent(c, g, heap),
         LookupAnswers(c, g, i, depth) \/ LookupRaises(c, g, i, depth)
  PROVE  Coherent(cache', g, heap')
<1> DEFINE c1 == AfterMiss(c, g, i, depth)
<1>1. c \in Cache /\ c1 \in Cache /\ Filed(c1, heap) /\ Within(c1, Used)
  BY AfterMissOK DEF Filed
<1>2. Coherent(c1, g, heap)
  BY <1>1, ForgetStated DEF Coherent, AfterMiss
<1> HIDE DEF c1
<1>3. CASE Typed(g, i) /\ Hydrates(c1, g, i, depth)
  BY <1>1, <1>2, <1>3, HydratesCoherent
<1>4. CASE /\ Collect(heap)
           /\ \/ cache' \in {c, c1, ExpireKeys(c, {i})}
              \/ cache' = SetHydration(c1, i, depth, c1.identity[i])
  <2>1. Coherent(cache', g, heap)
    BY <1>1, <1>2, <1>4, ForgetStated DEF Coherent
  <2> QED
    BY <1>4, <2>1, SameCoherent
<1> QED
  BY <1>3, <1>4 DEF LookupAnswers, LookupRaises, HydrationRaises, c1

\* Over a store in memory nothing is pulled, and the graph is as it was.
LEMMA GetCoherent ==
  ASSUME StoreMode = "memory", Settled, NEW i \in Iris, NEW depth, HeapInv, cache' \in Cache,
         Coherent(cache, graph, heap), GetAnswers(i, depth) \/ GetRaises(i, depth)
  PROVE  Coherent(cache', graph', heap')
<1>1. ~PullNeeded(i) /\ Synced = cache
  BY DEF PullNeeded, Http, Settled, Synced
<1>2. /\ graph' = graph
      /\ LookupAnswers(cache, graph, i, depth) \/ LookupRaises(cache, graph, i, depth)
  BY <1>1 DEF GetAnswers, GetRaises, NoPull, PullAnswers, PullRaises
<1> QED
  BY <1>1, <1>2, SyncedOK, LookupCoherent

LEMMA RefreshCoherent ==
  ASSUME StoreMode = "memory", Settled, MineIri \in Iris, HeapInv, cache' \in Cache,
         Coherent(cache, graph, heap), Refresh
  PROVE  Coherent(cache', graph', heap')
<1>1. ~PullNeeded(MineIri) /\ Synced = cache
  BY DEF PullNeeded, Http, Settled, Synced
<1>2. PICK c \in CallsOf("refresh") :
        graph' = graph /\ Reload(cache, graph, MineIri, c.depth)
  BY <1>1 DEF Refresh, NoPull, PullAnswers, PullRaises
<1>3. \/ Typed(graph, MineIri) /\ Hydrates(cache, graph, MineIri, c.depth)
      \/ cache' = cache /\ Collect(heap)
  BY <1>2 DEF Reload, HydrationRaises
<1>4. CASE Typed(graph, MineIri) /\ Hydrates(cache, graph, MineIri, c.depth)
  BY <1>1, <1>2, <1>4, SyncedOK, HydratesCoherent
<1>5. CASE cache' = cache /\ Collect(heap)
  BY <1>2, <1>5, SameCoherent
<1> QED
  BY <1>3, <1>4, <1>5

-----------------------------------------------------------------------------
(* What the caches say is stored                                           *)

\* The call in progress is one that the application makes.
Asked == pc # "idle" => call.op \in Ops

LEMMA AskedStep == CoreInv /\ Asked /\ [Next]_vars => Asked'
<1> SUFFICES ASSUME CoreInv, Asked, [Next]_vars, pc' # "idle" PROVE call'.op \in Ops
  BY DEF Asked
<1>1. CASE BeginFlush
  BY <1>1 DEF BeginFlush, CallsOf
<1>2. CASE Select
  <2>1. PICK c \in CallsOf("all"), found \in SUBSET Iris :
          Runs(c) /\ call' = [c EXCEPT !.left = found]
    BY <1>2 DEF Select
  <2>2. c.op \in Ops
    BY <2>1 DEF Runs, MayCall, Asked
  <2>3. c \in [op : {"all"}, iri : {None}, depth : Depths, left : {{}}]
    BY DEF CallsOf
  <2> QED
    BY <2>1, <2>2, <2>3
<1>3. CASE HydrateRow
  BY <1>3 DEF HydrateRow, Asked, CoreInv, ControlInv, Calls
<1>4. CASE FlushPut \/ FlushDone \/ SyncMirror \/ ForeignWrite \/ New \/ Edit \/ UNCHANGED vars
  BY <1>4 DEF FlushPut, FlushDone, SyncMirror, ForeignWrite, New, Edit, Asked, vars
<1>5. CASE FlushRaises \/ Put \/ Queue \/ Add \/ Delete \/ Get \/ SelectRaises \/ Execute
           \/ Refresh \/ Merge \/ Expunge \/ ExpungeAll \/ FlushCall \/ Rollback \/ Expire
           \/ Close \/ Exit \/ ExitError \/ RowsDone \/ Restart
  BY <1>5
     DEF FlushRaises, Put, Queue, Add, Delete, Get, SelectRaises, Execute, Refresh, Merge,
         Expunge, ExpungeAll, FlushCall, Rollback, Expire, Close, Exit, ExitError, RowsDone,
         Restart, Return
<1> QED
  BY <1>1, <1>2, <1>3, <1>4, <1>5 DEF Next, CallStep

LEMMA AskedHolds == Spec => []Asked
<1>1. Init => Asked
  BY DEF Init, Asked
<1> QED
  BY <1>1, AskedStep, CoreInvHolds, PTL DEF Spec

LEMMA SettledHolds == Spec => []Settled
<1>1. Init => Settled
  BY DEF Init, Settled
<1> QED
  BY <1>1, SettledStep, PTL DEF Spec

LEMMA NewCoherent ==
  ASSUME HeapInv, cache' \in Cache, Coherent(cache, graph, heap), New
  PROVE  Coherent(cache', graph', heap')
<1>1. heap \in [Obj -> Node] /\ cache' = cache /\ graph' = graph /\ Within(cache, Used)
  BY HeldIsUsed DEF HeapInv, HeapOK, New, store
<1>2. PICK new \in Allocations(1, Used), i \in Iris, n \in Names :
        \E t \in {Unset} \cup Children[i] \cup (IF mine # None THEN {mine} ELSE {}) :
          /\ ~HasRelationship(i) => t = Unset
          /\ Collect([heap EXCEPT ![new[1]] = [iri |-> i, name |-> n, rel |-> t]])
  BY DEF New
<1>3. PICK t \in {Unset} \cup Children[i] \cup (IF mine # None THEN {mine} ELSE {}) :
        /\ ~HasRelationship(i) => t = Unset
        /\ Collect([heap EXCEPT ![new[1]] = [iri |-> i, name |-> n, rel |-> t]])
  BY <1>2
<1> DEFINE o == new[1]
           h == [heap EXCEPT ![o] = [iri |-> i, name |-> n, rel |-> t]]
<1>4. o \in Obj \ Used
  BY DEF Allocations
<1>5. [iri |-> i, name |-> n, rel |-> t] \in Node
  <2>1. Children[i] \subseteq Iris
    BY ShapeAssumption
  <2> QED
    BY <2>1 DEF Node, Item, HeapInv, HeapOK
<1> HIDE DEF o
<1>6. /\ h \in [Obj -> Node] /\ h[o].iri = i /\ h[o].rel = t
      /\ \A x \in Obj \ {o} : h[x] = heap[x]
  BY <1>1, <1>4, <1>5
<1>7. Shaped(h)
  <2>1. Unset \notin Obj
    BY ItemAssumption
  <2> QED
    BY <1>3, <1>6, <2>1 DEF Shaped, Coherent
<1>8. Collect(h)
  BY <1>3 DEF o
<1> HIDE DEF h
<1>9. \A y \in Used : h[y] = heap[y]
  BY <1>4, <1>6, UsedInObj
<1>10. Stated(cache, graph, h)
  BY <1>1, <1>9, UsedSaid DEF Stated, Coherent, Within
<1> QED
  BY <1>1, <1>6, <1>7, <1>8, <1>10, CollectCoherent DEF Coherent

LEMMA CoherentStep ==
  ASSUME StoreMode = "memory", "edit" \notin Ops, "merge" \notin Ops, AllCascade,
         CoreInv, CoreInv', LiveInv, Settled, Asked, Coherent(cache, graph, heap), [Next]_vars
  PROVE  Coherent(cache', graph', heap')
<1>1. /\ HeapInv /\ HeapLive(heap) /\ cache \in Cache /\ cache' \in Cache /\ ~Http
      /\ Synced = cache
  BY DEF CoreInv, HeapInv, HeapOK, Filed, LiveInv, Http, Settled, Synced
<1>2. ASSUME Stated(cache', graph', heap), Collect(heap)
      PROVE  Coherent(cache', graph', heap')
  BY <1>1, <1>2, SameCoherent DEF Coherent
<1>3. /\ Stated(EmptyCache, graph, heap)
      /\ \A S : Stated(ExpireKeys(cache, S), graph, heap)
  BY <1>1, ForgetStated DEF Coherent
<1>4. CASE FlushPut \/ Put
  <2>1. PICK x \in Obj : heap[x].iri # None /\ (PutSucceeds(x) \/ PutFails(x)) /\ Collect(heap)
    <3>1. CASE FlushPut
      <4>1. todo # <<>> /\ PutSucceeds(Head(todo)) /\ Collect(heap)
        BY <3>1 DEF FlushPut
      <4> QED
        BY <4>1, TailQueued DEF LiveInv
    <3>2. CASE Put
      BY <3>2, MineLive DEF Put, OnInstance
    <3> QED
      BY <1>4, <3>1, <3>2
  <2>2. CASE PutSucceeds(x)
    BY <1>1, <1>2, <2>1, <2>2, PutStated DEF Coherent
  <2>3. CASE PutFails(x)
    <3>1. graph' = graph /\ cache' = cache
      BY <1>1, <2>3 DEF PutFails, StoreRaises
    <3> QED
      BY <1>2, <2>1, <3>1 DEF Coherent
  <2> QED
    BY <2>1, <2>2, <2>3
<1>5. CASE Add
  <2>1. mine \in Obj
    BY <1>5, MineLive DEF Add, OnInstance
  <2>2. CASE /\ ~EmbedsCycle(heap, mine)
             /\ StoreApplies({}, ModelGraph(heap, mine))
             /\ cache' = ExpireKeys(Register(cache, heap, mine), DeleteSubjects(heap, mine))
    <3>1. graph \subseteq graph'
      BY <2>2 DEF StoreApplies
    <3>2. Stated(cache', graph', heap)
      BY <1>1, <2>1, <2>2, <3>1, AddStated DEF Coherent
    <3> QED
      BY <1>2, <1>5, <3>2 DEF Add
  <2>3. CASE graph' = graph /\ cache' = cache
    BY <1>2, <1>5, <2>3 DEF Add, Coherent
  <2> QED
    BY <1>1, <1>5, <2>2, <2>3 DEF Add, StoreRaises
<1>6. CASE Delete
  <2> DEFINE S == DeleteSubjects(heap, mine)
  <2>1. graph' = graph \ OwnedTriples(graph, S) /\ cache' = ExpireKeys(cache, S)
    BY <1>1, <1>6 DEF Delete, StoreApplies, StoreRaises
  <2> HIDE DEF S
  <2>2. Stated(cache', graph', heap)
    BY <1>1, <2>1, DeleteStated DEF Coherent
  <2> QED
    BY <1>2, <1>6, <2>2 DEF Delete
<1>7. CASE Queue \/ Expire \/ Expunge \/ ExpungeAll \/ Select \/ FlushRaises \/ FlushDone
           \/ Rollback \/ ExitError
  <2>1. Collect(heap)
    BY <1>7 DEF Queue, Expire, Expunge, ExpungeAll, Select, FlushRaises, FlushDone, Rollback,
                ExitError
  <2>2. /\ graph' = graph
        /\ cache' \in {cache, EmptyCache} \/ \E S : cache' = ExpireKeys(cache, S)
    BY <1>1, <1>7
       DEF Queue, Expire, Expunge, ExpungeAll, Select, FlushRaises, FlushDone, Rollback,
           ExitError, PutFails, StoreRaises, store
  <2> QED
    BY <1>2, <1>3, <2>1, <2>2 DEF Coherent
<1>8. CASE Get
  <2>1. PICK c \in CallsOf("get") : GetAnswers(c.iri, c.depth) \/ GetRaises(c.iri, c.depth)
    BY <1>8 DEF Get
  <2>2. c.iri \in Iris
    BY DEF CallsOf
  <2> QED
    BY <1>1, <2>1, <2>2, GetCoherent
<1>9. CASE HydrateRow
  <2>1. PICK i \in call.left : GetAnswers(i, call.depth) \/ GetRaises(i, call.depth)
    BY <1>9 DEF HydrateRow
  <2>2. i \in Iris
    BY DEF CoreInv, ControlInv, Calls
  <2> QED
    BY <1>1, <2>1, <2>2, GetCoherent
<1>10. CASE Refresh
  <2>1. MineIri \in Iris
    BY <1>10, HoldsOne DEF Refresh, OnInstance
  <2> QED
    BY <1>1, <1>10, <2>1, RefreshCoherent
<1>11. CASE New
  BY <1>1, <1>11, NewCoherent
<1>12. CASE Restart
  <2>1. cache' = EmptyCache /\ heap' = [x \in Obj |-> Blank]
    BY <1>12 DEF Restart
  <2>2. Blank.rel \notin Obj
    BY ItemAssumption DEF Blank
  <2> QED
    BY <2>1, <2>2 DEF Coherent, Stated, Shaped, EmptyCache
<1>13. ~Merge /\ ~Edit /\ ~SyncMirror /\ ~ForeignWrite
  <2>1. ~Merge
    BY DEF Merge, Body, Runs, MayCall, CallsOf, Asked
  <2> QED
    BY <1>1, <2>1 DEF Edit, SyncMirror, ForeignWrite
<1>14. CASE BeginFlush \/ SelectRaises \/ RowsDone \/ Execute \/ FlushCall \/ Close \/ Exit
            \/ UNCHANGED vars
  BY <1>14
     DEF BeginFlush, SelectRaises, RowsDone, Execute, FlushCall, Close, Exit, vars, store,
         Coherent
<1> QED
  BY <1>4, <1>5, <1>6, <1>7, <1>8, <1>9, <1>10, <1>11, <1>12, <1>13, <1>14 DEF Next, CallStep

CoherenceInv == Coherent(cache, graph, heap)

\* As long as the application edits no instance and merges none, the identity map of a
\* session over a store in memory holds no value that the graph does not: a put, a
\* flush, an orphan cleanup, a delete, an add or a reload forgets or rewrites every
\* entry it would falsify, embedded objects included (session_core.put_impl,
\* expire_keys, hydrate_one).  The relationships have to cascade: an embedded object
\* below one that does not is registered but not written.
THEOREM IdentityMapIsStored ==
  (StoreMode = "memory" /\ "edit" \notin Ops /\ "merge" \notin Ops /\ AllCascade)
    => (Spec => []CachedValuesStored)
<1> SUFFICES ASSUME StoreMode = "memory", "edit" \notin Ops, "merge" \notin Ops, AllCascade
             PROVE  Spec => []CachedValuesStored
  OBVIOUS
<1>1. Init => CoherenceInv
  <2>1. Blank.rel \notin Obj
    BY ItemAssumption DEF Blank
  <2> QED
    BY <2>1 DEF Init, CoherenceInv, Coherent, Stated, Shaped, EmptyCache
<1>2. CoreInv /\ CoreInv' /\ LiveInv /\ Settled /\ Asked /\ CoherenceInv
        /\ [Next]_vars => CoherenceInv'
  BY CoherentStep DEF CoherenceInv
<1>3. CoreInv /\ CoherenceInv => CachedValuesStored
  BY DEF CoreInv, HeapInv, HeapOK, Filed, KeyedIn, CoherenceInv, Coherent, Stated, SaidBy,
         CachedValuesStored
<1> QED
  BY <1>1, <1>2, <1>3, CoreInvHolds, LiveInvHolds, SettledHolds, AskedHolds, PTL DEF Spec
=============================================================================
