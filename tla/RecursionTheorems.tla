------------------------- MODULE RecursionTheorems -------------------------
(***************************************************************************)
(* Induction over the natural numbers and definition by recursion, stated  *)
(* of sets and functions: a set takes the place of the predicate, and a    *)
(* function that of the operator, in the library's theorems, so that SMT   *)
(* solvers can use them.                                                   *)
(***************************************************************************)
EXTENDS Integers, WellFoundedInduction, TLAPS

\* A set with 0 and the successors of its numbers has all numbers.
THEOREM NatSet ==
  ASSUME NEW S, 0 \in S, \A n \in Nat : n \in S => n + 1 \in S
  PROVE  Nat \subseteq S
<1> DEFINE T == Nat \ S
<1> SUFFICES ASSUME T # {} PROVE FALSE
  OBVIOUS
<1>1. PICK n \in T : \A m \in T : <<m, n>> \notin OpToRel(<, Nat)
  BY NatLessThanWellFounded, WFMin
<1>2. n \in Nat /\ n # 0 /\ n - 1 \in Nat
  OBVIOUS
<1>3. n - 1 \in T
  BY <1>2
<1>4. <<n - 1, n>> \in OpToRel(<, Nat)
  BY <1>2 DEF OpToRel
<1> QED
  BY <1>1, <1>3, <1>4

\* f follows step from first up to N.
Follows(f, first, step, N) ==
  f[0] = first /\ \A n \in 0 .. N - 1 : f[n + 1] = step[n][f[n]]

LEMMA FollowersAgree ==
  ASSUME NEW first, NEW step, NEW N \in Nat, NEW f, NEW M \in Nat, NEW g,
         Follows(f, first, step, N), Follows(g, first, step, M)
  PROVE  \A n \in Nat : n <= N /\ n <= M => f[n] = g[n]
<1> DEFINE S == {n \in Nat : n <= N /\ n <= M => f[n] = g[n]}
<1>1. 0 \in S
  BY DEF Follows
<1>2. ASSUME NEW n \in Nat, n \in S PROVE n + 1 \in S
  <2> SUFFICES ASSUME n + 1 <= N, n + 1 <= M PROVE f[n + 1] = g[n + 1]
    OBVIOUS
  <2>1. f[n] = g[n]
    BY <1>2
  <2>2. n \in 0 .. N - 1 /\ n \in 0 .. M - 1
    OBVIOUS
  <2> QED
    BY <2>1, <2>2 DEF Follows
<1> HIDE DEF S
<1>3. Nat \subseteq S
  BY <1>1, <1>2, NatSet
<1> QED
  BY <1>3 DEF S

\* f follows step from first for ever.
Iterates(f, V, first, step) ==
  f \in [Nat -> V] /\ f[0] = first /\ \A n \in Nat : f[n + 1] = step[n][f[n]]

\* Recursion over the natural numbers defines a function.
THEOREM RecursiveFunction ==
  ASSUME NEW V, NEW first \in V, NEW step \in [Nat -> [V -> V]]
  PROVE  \E f : Iterates(f, V, first, step)
<1> DEFINE Up(N) == {f \in [0 .. N -> V] : Follows(f, first, step, N)}
           S == {N \in Nat : Up(N) # {}}
<1>1. 0 \in S
  <2>1. [n \in 0 .. 0 |-> first] \in Up(0)
    BY DEF Follows
  <2> QED
    BY <2>1
<1>2. ASSUME NEW N \in Nat, N \in S PROVE N + 1 \in S
  <2>1. PICK f \in [0 .. N -> V] : Follows(f, first, step, N)
    BY <1>2
  <2> DEFINE g == [n \in 0 .. N + 1 |-> IF n = N + 1 THEN step[N][f[N]] ELSE f[n]]
  <2>2. step[N][f[N]] \in V
    BY <2>1
  <2>3. g \in [0 .. N + 1 -> V]
    BY <2>1, <2>2
  <2>4. g[0] = first
    BY <2>1 DEF Follows
  <2>5. ASSUME NEW n \in 0 .. N PROVE g[n + 1] = step[n][g[n]]
    <3>1. CASE n = N
      BY <3>1
    <3>2. CASE n # N
      <4>1. n \in 0 .. N - 1 /\ n + 1 # N + 1 /\ n # N + 1
        BY <3>2
      <4> QED
        BY <2>1, <4>1 DEF Follows
    <3> QED
      BY <3>1, <3>2
  <2> HIDE DEF g
  <2>6. N = (N + 1) - 1
    OBVIOUS
  <2>7. g \in Up(N + 1)
    BY <2>3, <2>4, <2>5, <2>6 DEF Follows
  <2> QED
    BY <2>7
<1> HIDE DEF S
<1>3. Nat \subseteq S
  BY <1>1, <1>2, NatSet
<1> DEFINE Some(N) == CHOOSE f \in [0 .. N -> V] : Follows(f, first, step, N)
           f == [n \in Nat |-> Some(n)[n]]
<1>4. ASSUME NEW N \in Nat
      PROVE  Some(N) \in [0 .. N -> V] /\ Follows(Some(N), first, step, N)
  BY <1>3 DEF S
<1> HIDE DEF Some
<1>5. f \in [Nat -> V]
  BY <1>4
<1>6. f[0] = first
  BY <1>4 DEF Follows
<1>7. ASSUME NEW n \in Nat PROVE f[n + 1] = step[n][f[n]]
  <2>1. /\ Follows(Some(n), first, step, n)
        /\ Follows(Some(n + 1), first, step, n + 1)
    BY <1>4
  <2>2. Some(n + 1)[n] = Some(n)[n]
    BY <2>1, FollowersAgree
  <2>3. n \in 0 .. (n + 1) - 1
    OBVIOUS
  <2>4. Some(n + 1)[n + 1] = step[n][Some(n + 1)[n]]
    BY <2>1, <2>3 DEF Follows
  <2> QED
    BY <2>2, <2>4
<1> QED
  BY <1>5, <1>6, <1>7 DEF Iterates
=============================================================================
