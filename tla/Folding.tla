------------------------------- MODULE Folding -------------------------------
(***************************************************************************)
(* FoldLeft of the community modules, said step by step.  Op is the step.  *)
(* Proofs take an instance per fold, so the module extends little:         *)
(* SequencesExt would come with each of them.                              *)
(***************************************************************************)
EXTENDS RecursionTheorems, Sequences, FiniteSetsExt

CONSTANT Op(_, _)

\* The function by which MapThenFoldSet folds sets of positions up to N.
IsIter(f, first, q, N) ==
  /\ DOMAIN f = SUBSET (1 .. N)
  /\ \A s \in SUBSET (1 .. N) :
       f[s] = IF s = {} THEN first ELSE Op(f[s \ {Max(s)}], q[Max(s)])

LEMMA MaxOfLast ==
  ASSUME NEW N \in Nat, NEW s \in SUBSET (1 .. N + 1), N + 1 \in s
  PROVE  Max(s) = N + 1
<1>1. \A y \in s : N + 1 >= y
  OBVIOUS
<1>2. \A x \in s : (\A y \in s : x >= y) => x = N + 1
  OBVIOUS
<1> QED
  BY <1>1, <1>2 DEF Max

LEMMA MaxIn ==
  ASSUME NEW N \in Nat, NEW s \in SUBSET (1 .. N), s # {}
  PROVE  Max(s) \in s
<1> DEFINE S == {n \in Nat : \A t \in SUBSET (1 .. n) : t # {} => \E x \in t : \A y \in t : x >= y}
<1>1. 0 \in S
  <2>1. \A t \in SUBSET (1 .. 0) : t = {}
    OBVIOUS
  <2> QED
    BY <2>1
<1>2. ASSUME NEW n \in Nat, n \in S PROVE n + 1 \in S
  <2> SUFFICES ASSUME NEW t \in SUBSET (1 .. n + 1), t # {}
               PROVE  \E x \in t : \A y \in t : x >= y
    OBVIOUS
  <2>1. CASE n + 1 \in t
    BY <2>1
  <2>2. CASE n + 1 \notin t
    <3>1. t \in SUBSET (1 .. n)
      BY <2>2
    <3> QED
      BY <1>2, <3>1
  <2> QED
    BY <2>1, <2>2
<1> HIDE DEF S
<1>3. N \in S
  BY <1>1, <1>2, NatSet
<1>4. \E x \in s : \A y \in s : x >= y
  BY <1>3 DEF S
<1> QED
  BY <1>4 DEF Max

LEMMA IterExists ==
  ASSUME NEW first, NEW q, NEW N \in Nat
  PROVE  \E f : IsIter(f, first, q, N)
<1> DEFINE S == {n \in Nat : \E f : IsIter(f, first, q, n)}
<1>1. 0 \in S
  <2> DEFINE f == [s \in SUBSET (1 .. 0) |-> first]
  <2>1. IsIter(f, first, q, 0)
    BY DEF IsIter
  <2> HIDE DEF f
  <2> QED
    BY <2>1
<1>2. ASSUME NEW n \in Nat, n \in S PROVE n + 1 \in S
  <2>1. PICK f : IsIter(f, first, q, n)
    BY <1>2
  <2> DEFINE g == [s \in SUBSET (1 .. n + 1) |->
                     IF n + 1 \in s THEN Op(f[s \ {n + 1}], q[n + 1]) ELSE f[s]]
  <2>2. ASSUME NEW s \in SUBSET (1 .. n + 1), n + 1 \notin s
        PROVE  s \in SUBSET (1 .. n) /\ g[s] = f[s]
    BY <2>2
  <2>3. ASSUME NEW s \in SUBSET (1 .. n + 1)
        PROVE  g[s] = IF s = {} THEN first ELSE Op(g[s \ {Max(s)}], q[Max(s)])
    <3>1. CASE n + 1 \in s
      <4>1. Max(s) = n + 1
        BY <3>1, MaxOfLast
      <4>2. s \ {n + 1} \in SUBSET (1 .. n + 1) /\ n + 1 \notin s \ {n + 1}
        OBVIOUS
      <4>3. g[s \ {n + 1}] = f[s \ {n + 1}]
        BY <2>2, <4>2
      <4>4. g[s] = Op(f[s \ {n + 1}], q[n + 1])
        BY <3>1
      <4> HIDE DEF g
      <4> QED
        BY <3>1, <4>1, <4>3, <4>4
    <3>2. CASE n + 1 \notin s /\ s # {}
      <4>1. s \in SUBSET (1 .. n) /\ g[s] = f[s]
        BY <2>2, <3>2
      <4>2. Max(s) \in s
        BY <3>2, <4>1, MaxIn
      <4>3. s \ {Max(s)} \in SUBSET (1 .. n + 1) /\ n + 1 \notin s \ {Max(s)}
        BY <3>2
      <4>4. g[s \ {Max(s)}] = f[s \ {Max(s)}]
        BY <2>2, <4>3
      <4>5. f[s] = Op(f[s \ {Max(s)}], q[Max(s)])
        BY <2>1, <3>2, <4>1 DEF IsIter
      <4> HIDE DEF g
      <4> QED
        BY <3>2, <4>1, <4>4, <4>5
    <3>3. CASE s = {}
      <4>1. g[s] = f[s] /\ s \in SUBSET (1 .. n)
        BY <2>2, <3>3
      <4> HIDE DEF g
      <4> QED
        BY <2>1, <3>3, <4>1 DEF IsIter
    <3> QED
      BY <3>1, <3>2, <3>3
  <2>4. DOMAIN g = SUBSET (1 .. n + 1)
    OBVIOUS
  <2> HIDE DEF g
  <2>5. IsIter(g, first, q, n + 1)
    BY <2>3, <2>4 DEF IsIter
  <2> QED
    BY <2>5
<1> HIDE DEF S
<1>3. N \in S
  BY <1>1, <1>2, NatSet
<1> QED
  BY <1>3 DEF S

\* f has the results of a fold after each element.
IsFold(f, first, q) ==
  f[0] = first /\ \A n \in 1 .. Len(q) : f[n] = Op(f[n - 1], q[n])

\* FoldLeft(Op, first, q), as SequencesExt defines it.
Result(first, q) ==
  MapThenFoldSet(LAMBDA e, acc : Op(acc, e), first, LAMBDA i : q[i], LAMBDA s : Max(s), DOMAIN q)

\* A fold is a loop: some function has what is folded after each element, and the
\* result is what it has after the last.
THEOREM FoldSteps ==
  ASSUME NEW first, NEW q, Len(q) \in Nat, DOMAIN q = 1 .. Len(q)
  PROVE  \E f : IsFold(f, first, q) /\ Result(first, q) = f[Len(q)]
<1> DEFINE L == Len(q)
           iter == CHOOSE iter : iter = [s \in SUBSET DOMAIN q |->
                                           IF s = {} THEN first
                                           ELSE Op(iter[s \ {Max(s)}], q[Max(s)])]
<1>1. Result(first, q) = iter[DOMAIN q]
  BY DEF Result, MapThenFoldSet
<1>2. PICK g : IsIter(g, first, q, L)
  BY IterExists
<1> DEFINE h == [s \in SUBSET (1 .. L) |-> g[s]]
<1>3. h = [s \in SUBSET DOMAIN q |-> IF s = {} THEN first ELSE Op(h[s \ {Max(s)}], q[Max(s)])]
  <2>1. ASSUME NEW s \in SUBSET (1 .. L)
        PROVE  h[s] = IF s = {} THEN first ELSE Op(h[s \ {Max(s)}], q[Max(s)])
    <3>1. h[s] = g[s] /\ h[s \ {Max(s)}] = g[s \ {Max(s)}]
      OBVIOUS
    <3> HIDE DEF h
    <3> QED
      BY <1>2, <3>1 DEF IsIter
  <2>2. h = [s \in SUBSET (1 .. L) |-> h[s]]
    OBVIOUS
  <2> HIDE DEF h
  <2> QED
    BY <2>1, <2>2
<1> HIDE DEF h
<1>4. iter = [s \in SUBSET DOMAIN q |-> IF s = {} THEN first ELSE Op(iter[s \ {Max(s)}], q[Max(s)])]
  BY <1>3
<1> HIDE DEF iter
<1>5. ASSUME NEW s \in SUBSET (1 .. L)
      PROVE  iter[s] = IF s = {} THEN first ELSE Op(iter[s \ {Max(s)}], q[Max(s)])
  BY <1>4
<1> DEFINE f == [n \in 0 .. L |-> iter[1 .. n]]
<1>6. f[0] = first
  <2>1. 1 .. 0 = {} /\ {} \in SUBSET (1 .. L)
    OBVIOUS
  <2>2. iter[{}] = first
    BY <1>5, <2>1
  <2> QED
    BY <2>1, <2>2
<1>7. ASSUME NEW n \in 1 .. L PROVE f[n] = Op(f[n - 1], q[n])
  <2>1. n - 1 \in Nat /\ n = (n - 1) + 1 /\ n - 1 \in 0 .. L /\ n \in 0 .. L
    OBVIOUS
  <2>2. 1 .. n \in SUBSET (1 .. L) /\ n \in 1 .. n /\ 1 .. n # {}
    <3>1. \A m \in 1 .. n : m \in 1 .. L
      OBVIOUS
    <3>2. n \in 1 .. n
      OBVIOUS
    <3> HIDE DEF L
    <3> QED
      BY <3>1, <3>2
  <2>3. Max(1 .. n) = n
    BY <2>1, <2>2, MaxOfLast
  <2>4. (1 .. n) \ {n} = 1 .. n - 1
    OBVIOUS
  <2>5. iter[1 .. n] = Op(iter[1 .. n - 1], q[n])
    BY <1>5, <2>2, <2>3, <2>4
  <2> QED
    BY <2>1, <2>5
<1>8. Result(first, q) = f[L]
  BY <1>1
<1> HIDE DEF f
<1>9. IsFold(f, first, q)
  BY <1>6, <1>7 DEF IsFold
<1> QED
  BY <1>8, <1>9

\* Nothing is folded into what the fold starts from.
THEOREM FoldEmpty == ASSUME NEW first PROVE Result(first, <<>>) = first
<1>1. Len(<<>>) = 0 /\ DOMAIN <<>> = 1 .. 0
  OBVIOUS
<1> QED
  BY <1>1, FoldSteps DEF IsFold

\* The last element is folded last.
THEOREM FoldAppend ==
  ASSUME NEW first, NEW S, NEW q \in Seq(S), NEW e \in S
  PROVE  Result(first, Append(q, e)) = Op(Result(first, q), e)
<1> DEFINE L == Len(q)
           r == Append(q, e)
<1>1. L \in Nat /\ DOMAIN q = 1 .. L
  OBVIOUS
<1>2. /\ Len(r) = L + 1 /\ DOMAIN r = 1 .. L + 1 /\ r[L + 1] = e
      /\ \A n \in 1 .. L : r[n] = q[n]
  OBVIOUS
<1> HIDE DEF L, r
<1>3. PICK f : IsFold(f, first, q) /\ Result(first, q) = f[L]
  BY <1>1, FoldSteps DEF L
<1>4. PICK g : IsFold(g, first, r) /\ Result(first, r) = g[L + 1]
  <2>1. Len(r) \in Nat
    BY <1>1, <1>2
  <2> QED
    BY <1>2, <2>1, FoldSteps
<1> DEFINE T == {n \in Nat : n <= L => f[n] = g[n]}
<1>5. 0 \in T
  BY <1>3, <1>4 DEF IsFold
<1>6. ASSUME NEW n \in Nat, n \in T PROVE n + 1 \in T
  <2> SUFFICES ASSUME n + 1 <= L PROVE f[n + 1] = g[n + 1]
    OBVIOUS
  <2>1. n + 1 \in 1 .. L /\ n + 1 \in 1 .. L + 1 /\ (n + 1) - 1 = n /\ f[n] = g[n]
    BY <1>1, <1>6
  <2>2. f[n + 1] = Op(f[n], q[n + 1])
    BY <1>3, <2>1 DEF IsFold, L
  <2>3. g[n + 1] = Op(g[n], r[n + 1])
    BY <1>2, <1>4, <2>1 DEF IsFold
  <2> QED
    BY <1>2, <2>1, <2>2, <2>3
<1> HIDE DEF T
<1>7. L \in T
  BY <1>1, <1>5, <1>6, NatSet
<1>8. f[L] = g[L]
  BY <1>1, <1>7 DEF T
<1>9. L + 1 \in 1 .. L + 1 /\ (L + 1) - 1 = L
  BY <1>1
<1>10. g[L + 1] = Op(g[L], r[L + 1])
  BY <1>2, <1>4, <1>9 DEF IsFold
<1> QED
  BY <1>2, <1>3, <1>4, <1>8, <1>10 DEF r
=============================================================================
