------------------------------ MODULE Induction ------------------------------
(***************************************************************************)
(* Induction over finite sets, without an operator as a parameter: of the  *)
(* sets that are a counterexample, one has no smaller one.  From it, what  *)
(* the folds of the community modules compute.                             *)
(***************************************************************************)
EXTENDS Naturals, FiniteSets, Functions, FiniteSetTheorems, WellFoundedInduction, TLAPS

(* A set of sets of one finite set has a member with no other inside it.  *)
LEMMA SmallestSet ==
  ASSUME NEW S, IsFiniteSet(S), NEW Q, Q \subseteq SUBSET S, Q # {}
  PROVE  \E T \in Q : \A U \in Q : U \subseteq T => U = T
  <1>1. FiniteSubsetsOf(S) = SUBSET S
    BY FS_FiniteSubsetsOfFinite
  <1>2. IsWellFoundedOn(StrictSubsetOrdering(S), SUBSET S)
    BY <1>1, FS_StrictSubsetOrderingWellFounded
  <1>3. PICK T \in Q : \A U \in Q : ~ (<<U, T>> \in StrictSubsetOrdering(S))
    BY <1>2, WFMin
  <1>4. ASSUME NEW U \in Q, U \subseteq T PROVE U = T
    BY <1>3, <1>4 DEF StrictSubsetOrdering
  <1> QED
    BY <1>3, <1>4

(* Of a set of numbers that is not empty, one is the least.                *)
LEMMA LeastNumber ==
  ASSUME NEW N, N \subseteq Nat, N # {}
  PROVE  \E m \in N : \A n \in N : m <= n
  <1>1. PICK top \in N : TRUE
    OBVIOUS
  <1> DEFINE Q == {0..k : k \in {n \in N : n <= top}}
  <1>0. PICK S : S = 0..top
    OBVIOUS
  <1>2. IsFiniteSet(S)
    BY <1>0, FS_Interval
  <1>3. Q # {} /\ Q \subseteq SUBSET S
    <2>1. 0..top \in Q
      BY <1>1
    <2> QED BY <1>0, <2>1
  <1>4. PICK T \in Q : \A U \in Q : U \subseteq T => U = T
    <2> HIDE DEF Q
    <2> QED BY <1>2, <1>3, SmallestSet
  <1>5. PICK m \in N : m <= top /\ T = 0..m
    BY <1>4
  <1>6. ASSUME NEW n \in N, ~ (m <= n)
        PROVE  FALSE
    <2>1. 0..n \in Q /\ 0..n \subseteq T
      BY <1>1, <1>5, <1>6
    <2>2. 0..n = 0..m
      BY <1>4, <1>5, <2>1
    <2> QED BY <1>5, <1>6, <2>2
  <1> QED
    BY <1>5, <1>6

-----------------------------------------------------------------------------
(* Folds.  MapThenFoldSet chooses a function of the subsets of S; here is  *)
(* one, where the step is a function of an element and of what was folded  *)
(* before it, and pick says which element of a set comes last.             *)

Picks(pick, S) == \A T \in SUBSET S : T # {} => pick[T] \in T
IsFold(g, step, base, pick, S) ==
  g = [T \in SUBSET S |-> IF T = {} THEN base ELSE step[pick[T]][g[T \ {pick[T]}]]]

LEMMA FoldUnique ==
  ASSUME NEW step, NEW base, NEW pick, NEW S, IsFiniteSet(S), NEW U \in SUBSET S, Picks(pick, S),
         NEW g, NEW h, IsFold(g, step, base, pick, U), IsFold(h, step, base, pick, S)
  PROVE  \A T \in SUBSET U : g[T] = h[T]
  <1> SUFFICES ASSUME \E T \in SUBSET U : g[T] # h[T] PROVE FALSE
    OBVIOUS
  <1> DEFINE Q == {T \in SUBSET U : g[T] # h[T]}
  <1>0. IsFiniteSet(U)
    BY FS_Subset
  <1>1. PICK T \in Q : \A V \in Q : V \subseteq T => V = T
    <2>1. Q \subseteq SUBSET U /\ Q # {}
      OBVIOUS
    <2> HIDE DEF Q
    <2> QED BY <1>0, <2>1, SmallestSet
  <1>2. T \in SUBSET U /\ T \in SUBSET S /\ g[T] # h[T]
    OBVIOUS
  <1>3. g[T] = (IF T = {} THEN base ELSE step[pick[T]][g[T \ {pick[T]}]])
    BY <1>2 DEF IsFold
  <1>4. h[T] = (IF T = {} THEN base ELSE step[pick[T]][h[T \ {pick[T]}]])
    BY <1>2 DEF IsFold
  <1>5. T # {}
    BY <1>2, <1>3, <1>4
  <1>6. pick[T] \in T
    BY <1>2, <1>5 DEF Picks
  <1>7. T \ {pick[T]} \in SUBSET U /\ T \ {pick[T]} \subseteq T /\ T \ {pick[T]} # T
    BY <1>6, <1>2
  <1>8. g[T \ {pick[T]}] = h[T \ {pick[T]}]
    BY <1>7, <1>1
  <1> QED
    BY <1>2, <1>3, <1>4, <1>5, <1>8

(* Otherwise a smallest set has none, and what the sets inside it have     *)
(* makes up its own.                                                       *)
LEMMA FoldExists ==
  ASSUME NEW step, NEW base, NEW pick, NEW S, IsFiniteSet(S), Picks(pick, S)
  PROVE  \E g : IsFold(g, step, base, pick, S)
  <1> SUFFICES ASSUME ~ \E g : IsFold(g, step, base, pick, S) PROVE FALSE
    OBVIOUS
  <1> DEFINE Q == {T \in SUBSET S : ~ \E g : IsFold(g, step, base, pick, T)}
             G(T) == CHOOSE g : IsFold(g, step, base, pick, T)
  <1>1. PICK U \in Q : \A V \in Q : V \subseteq U => V = U
    <2>1. S \in Q
      OBVIOUS
    <2>2. Q # {} /\ Q \subseteq SUBSET S
      BY <2>1
    <2> HIDE DEF Q
    <2> QED BY <2>2, SmallestSet
  <1>2. ASSUME NEW V, V \subseteq U, V # U PROVE IsFold(G(V), step, base, pick, V)
    BY <1>1, <1>2
  <1>3. \A V : V \subseteq U /\ V # U => \A W \in SUBSET V : G(V)[W] = G(W)[W]
    <2> SUFFICES ASSUME NEW V, V \subseteq U, V # U, NEW W \in SUBSET V PROVE G(V)[W] = G(W)[W]
      OBVIOUS
    <2>1. IsFold(G(V), step, base, pick, V) /\ IsFold(G(W), step, base, pick, W)
      BY <1>2
    <2>2. IsFiniteSet(V) /\ Picks(pick, V)
      BY FS_Subset DEF Picks
    <2> HIDE DEF G
    <2>3. \A T \in SUBSET W : G(W)[T] = G(V)[T]
      BY <2>1, <2>2, FoldUnique
    <2> QED BY <2>3
  <1> HIDE DEF G
  <1> DEFINE r == [T \in SUBSET U |-> IF T = {} THEN base
                                     ELSE step[pick[T]][G(T \ {pick[T]})[T \ {pick[T]}]]]
  <1>4. ASSUME NEW T \in SUBSET U, T # {} PROVE G(T \ {pick[T]})[T \ {pick[T]}] = r[T \ {pick[T]}]
    <2> DEFINE W == T \ {pick[T]}
    <2>1. pick[T] \in T
      BY <1>4 DEF Picks
    <2>2. W \subseteq U /\ W # U
      BY <2>1
    <2>3. IsFold(G(W), step, base, pick, W)
      BY <2>2, <1>2
    <2> HIDE DEF W
    <2>4. G(W)[W] = (IF W = {} THEN base ELSE step[pick[W]][G(W)[W \ {pick[W]}]])
      BY <2>3 DEF IsFold
    <2>5. G(W)[W \ {pick[W]}] = G(W \ {pick[W]})[W \ {pick[W]}]
      BY <2>2, <1>3
    <2>6. r[W] = (IF W = {} THEN base ELSE step[pick[W]][G(W \ {pick[W]})[W \ {pick[W]}]])
      BY <2>2
    <2>7. G(W)[W] = r[W]
      BY <2>4, <2>5, <2>6
    <2> QED BY <2>7 DEF W
  <1>5. IsFold(r, step, base, pick, U)
    <2> DEFINE q == [T \in SUBSET U |-> IF T = {} THEN base ELSE step[pick[T]][r[T \ {pick[T]}]]]
    <2>1. \A T \in SUBSET U : r[T] = q[T]
      BY <1>4
    <2>2. r = q
      BY <2>1
    <2> QED BY <2>2 DEF IsFold
  <1> QED
    BY <1>1, <1>5

(* What a fold is of stays in V where every step does.                     *)
LEMMA FoldType ==
  ASSUME NEW V, NEW base \in V, NEW pick, NEW S, IsFiniteSet(S), NEW step \in [S -> [V -> V]],
         Picks(pick, S), NEW g, IsFold(g, step, base, pick, S)
  PROVE  \A T \in SUBSET S : g[T] \in V
  <1> SUFFICES ASSUME \E T \in SUBSET S : g[T] \notin V PROVE FALSE
    OBVIOUS
  <1> DEFINE Q == {T \in SUBSET S : g[T] \notin V}
  <1>1. PICK T \in Q : \A U \in Q : U \subseteq T => U = T
    <2>1. Q \subseteq SUBSET S /\ Q # {}
      OBVIOUS
    <2> HIDE DEF Q
    <2> QED BY <2>1, SmallestSet
  <1>2. T \in SUBSET S /\ g[T] \notin V
    OBVIOUS
  <1>3. g[T] = (IF T = {} THEN base ELSE step[pick[T]][g[T \ {pick[T]}]])
    BY <1>2 DEF IsFold
  <1>4. T # {}
    BY <1>2, <1>3
  <1>5. pick[T] \in T /\ pick[T] \in S
    BY <1>2, <1>4 DEF Picks
  <1>6. g[T \ {pick[T]}] \in V
    BY <1>1, <1>2, <1>5
  <1>7. step[pick[T]] \in [V -> V]
    BY <1>5
  <1> QED
    BY <1>2, <1>3, <1>4, <1>6, <1>7

-----------------------------------------------------------------------------
(* Sums: SumFunctionOnSet is given by its partial sums.                    *)
Pick(T) == CHOOSE x \in T : TRUE
IsSum(g, f, S) ==
  g = [T \in SUBSET S |-> IF T = {} THEN 0 ELSE f[Pick(T)] + g[T \ {Pick(T)}]]

LEMMA SumUnique ==
  ASSUME NEW f, NEW S, IsFiniteSet(S), NEW U \in SUBSET S, NEW g, NEW h, IsSum(g, f, U), IsSum(h, f, S)
  PROVE  \A T \in SUBSET U : g[T] = h[T]
  <1> SUFFICES ASSUME \E T \in SUBSET U : g[T] # h[T] PROVE FALSE
    OBVIOUS
  <1> DEFINE Q == {T \in SUBSET U : g[T] # h[T]}
  <1>0. IsFiniteSet(U)
    BY FS_Subset
  <1>1. PICK T \in Q : \A V \in Q : V \subseteq T => V = T
    <2>1. Q \subseteq SUBSET U /\ Q # {}
      OBVIOUS
    <2> HIDE DEF Q
    <2> QED BY <1>0, <2>1, SmallestSet
  <1>2. T \in SUBSET U /\ T \in SUBSET S /\ g[T] # h[T]
    OBVIOUS
  <1>3. g[T] = (IF T = {} THEN 0 ELSE f[Pick(T)] + g[T \ {Pick(T)}])
    BY <1>2 DEF IsSum
  <1>4. h[T] = (IF T = {} THEN 0 ELSE f[Pick(T)] + h[T \ {Pick(T)}])
    BY <1>2 DEF IsSum
  <1>5. T # {}
    BY <1>2, <1>3, <1>4
  <1>6. Pick(T) \in T
    BY <1>5 DEF Pick
  <1>7. T \ {Pick(T)} \in SUBSET U /\ T \ {Pick(T)} \subseteq T /\ T \ {Pick(T)} # T
    BY <1>6, <1>2
  <1>8. g[T \ {Pick(T)}] = h[T \ {Pick(T)}]
    BY <1>7, <1>1
  <1> QED
    BY <1>2, <1>3, <1>4, <1>5, <1>8

LEMMA SumIsSum ==
  ASSUME NEW f, NEW S, IsFiniteSet(S), \A s \in S : f[s] \in Nat
  PROVE  \E g : IsSum(g, f, S) /\ SumFunctionOnSet(f, S) = g[S]
  <1> DEFINE step == [s \in S |-> [v \in Nat |-> f[s] + v]]
             pick == [T \in SUBSET S |-> Pick(T)]
  <1>1. /\ step \in [S -> [Nat -> Nat]]
        /\ Picks(pick, S) /\ \A T \in SUBSET S : pick[T] = Pick(T)
        /\ \A s \in S : \A v \in Nat : step[s][v] = f[s] + v
    BY DEF Pick, Picks
  <1> HIDE DEF step, pick
  <1>2. PICK h : IsFold(h, step, 0, pick, S)
    BY <1>1, FoldExists
  <1>3. \A T \in SUBSET S : h[T] \in Nat
    <2>1. 0 \in Nat
      OBVIOUS
    <2> QED BY <1>1, <1>2, <2>1, FoldType
  <1>4. IsSum(h, f, S)
    <2> DEFINE q == [T \in SUBSET S |-> IF T = {} THEN 0 ELSE f[Pick(T)] + h[T \ {Pick(T)}]]
    <2>1. ASSUME NEW T \in SUBSET S PROVE h[T] = q[T]
      <3>1. CASE T = {}
        BY <1>2, <3>1 DEF IsFold
      <3>2. CASE T # {}
        <4>1. Pick(T) \in S /\ pick[T] = Pick(T) /\ T \ {Pick(T)} \in SUBSET S
          BY <1>1, <3>2 DEF Picks
        <4>2. h[T] = step[Pick(T)][h[T \ {Pick(T)}]]
          BY <1>2, <3>2, <4>1 DEF IsFold
        <4>3. h[T] = f[Pick(T)] + h[T \ {Pick(T)}]
          BY <1>1, <1>3, <4>1, <4>2
        <4> QED BY <3>2, <4>3
      <3> QED BY <3>1, <3>2
    <2>2. h = q
      <3> HIDE DEF q
      <3>1. DOMAIN h = SUBSET S /\ h = [T \in SUBSET S |-> h[T]]
        BY <1>2 DEF IsFold
      <3>2. q = [T \in SUBSET S |-> q[T]]
        BY DEF q
      <3> QED BY <2>1, <3>1, <3>2
    <2> QED BY <2>2 DEF IsSum
  <1> DEFINE g == CHOOSE g : IsSum(g, f, S)
  <1>5. IsSum(g, f, S)
    BY <1>4
  <1>6. SumFunctionOnSet(f, S) = g[S]
    BY DEF SumFunctionOnSet, FoldFunctionOnSet, MapThenFoldSet, IsSum, Pick
  <1> QED BY <1>5, <1>6

LEMMA SumEmpty ==
  ASSUME NEW f
  PROVE  SumFunctionOnSet(f, {}) = 0
  <1>1. IsFiniteSet({})
    BY FS_EmptySet
  <1>2. PICK g : IsSum(g, f, {}) /\ SumFunctionOnSet(f, {}) = g[{}]
    BY <1>1, SumIsSum
  <1> QED
    BY <1>2 DEF IsSum

LEMMA SumStep ==
  ASSUME NEW f, NEW S, IsFiniteSet(S), S # {}, \A s \in S : f[s] \in Nat
  PROVE  SumFunctionOnSet(f, S) = f[Pick(S)] + SumFunctionOnSet(f, S \ {Pick(S)})
  <1>0. PICK R : R = S \ {Pick(S)}
    OBVIOUS
  <1>1. IsFiniteSet(R) /\ R \subseteq S
    BY <1>0, FS_RemoveElement
  <1>2. PICK whole : IsSum(whole, f, S) /\ SumFunctionOnSet(f, S) = whole[S]
    BY SumIsSum
  <1>3. PICK rest : IsSum(rest, f, R) /\ SumFunctionOnSet(f, R) = rest[R]
    BY <1>1, SumIsSum
  <1>4. whole[S] = f[Pick(S)] + whole[R]
    BY <1>0, <1>2 DEF IsSum
  <1>5. rest[R] = whole[R]
    <2>1. R \in SUBSET S /\ R \in SUBSET R
      BY <1>1
    <2>2. IsSum(rest, f, R) /\ IsSum(whole, f, S)
      BY <1>2, <1>3
    <2> QED BY <2>1, <2>2, SumUnique, SMT
  <1> QED
    BY <1>0, <1>2, <1>3, <1>4, <1>5

LEMMA SumNat ==
  ASSUME NEW f, NEW S, IsFiniteSet(S), \A s \in S : f[s] \in Nat
  PROVE  SumFunctionOnSet(f, S) \in Nat
  <1> SUFFICES ASSUME SumFunctionOnSet(f, S) \notin Nat PROVE FALSE
    OBVIOUS
  <1> DEFINE Q == {T \in SUBSET S : SumFunctionOnSet(f, T) \notin Nat}
  <1>1. PICK T \in Q : \A V \in Q : V \subseteq T => V = T
    <2>1. Q \subseteq SUBSET S /\ Q # {}
      OBVIOUS
    <2> HIDE DEF Q
    <2> QED BY <2>1, SmallestSet
  <1>2. T \subseteq S /\ SumFunctionOnSet(f, T) \notin Nat /\ IsFiniteSet(T)
    BY FS_Subset
  <1>3. T # {}
    BY <1>2, SumEmpty
  <1>4. Pick(T) \in T
    BY <1>3 DEF Pick
  <1> DEFINE R == T \ {Pick(T)}
  <1>5. SumFunctionOnSet(f, R) \in Nat
    BY <1>1, <1>2, <1>4
  <1>6. SumFunctionOnSet(f, T) = f[Pick(T)] + SumFunctionOnSet(f, R)
    BY <1>2, <1>3, SumStep
  <1>7. f[Pick(T)] \in Nat
    BY <1>2, <1>4
  <1> QED
    BY <1>2, <1>5, <1>6, <1>7

(* Whichever element is taken first, the sum is the same.                  *)
LEMMA SumOneMore ==
  ASSUME NEW f, NEW S, IsFiniteSet(S), \A s \in S : f[s] \in Nat, NEW x \in S
  PROVE  SumFunctionOnSet(f, S) = f[x] + SumFunctionOnSet(f, S \ {x})
  <1> DEFINE Bad(T) == \E y \in T : SumFunctionOnSet(f, T) # f[y] + SumFunctionOnSet(f, T \ {y})
             Q == {T \in SUBSET S : Bad(T)}
  <1> SUFFICES ASSUME Bad(S) PROVE FALSE
    OBVIOUS
  <1>1. PICK T \in Q : \A V \in Q : V \subseteq T => V = T
    <2>1. Q \subseteq SUBSET S /\ Q # {}
      OBVIOUS
    <2> HIDE DEF Q
    <2> QED BY <2>1, SmallestSet
  <1>2. T \subseteq S /\ Bad(T) /\ IsFiniteSet(T)
    BY FS_Subset
  <1>3. PICK y \in T : SumFunctionOnSet(f, T) # f[y] + SumFunctionOnSet(f, T \ {y})
    BY <1>2
  <1> DEFINE z == Pick(T)
  <1>4. z \in T
    BY <1>3 DEF Pick
  <1>5. SumFunctionOnSet(f, T) = f[z] + SumFunctionOnSet(f, T \ {z})
    BY <1>2, <1>3, SumStep
  <1>6. z # y
    BY <1>3, <1>5
  <1> HIDE DEF z
  <1>12. ASSUME NEW V, V \subseteq T, V # T, NEW v \in V
        PROVE  SumFunctionOnSet(f, V) = f[v] + SumFunctionOnSet(f, V \ {v})
    BY <1>1, <1>2, <1>12
  <1> HIDE DEF Q, Bad
  <1>7. SumFunctionOnSet(f, T \ {z}) = f[y] + SumFunctionOnSet(f, (T \ {z}) \ {y})
    BY <1>12, <1>3, <1>4, <1>6
  <1>8. SumFunctionOnSet(f, T \ {y}) = f[z] + SumFunctionOnSet(f, (T \ {y}) \ {z})
    BY <1>12, <1>3, <1>4, <1>6
  <1>9. (T \ {z}) \ {y} = (T \ {y}) \ {z}
    OBVIOUS
  <1>10. SumFunctionOnSet(f, (T \ {y}) \ {z}) \in Nat
    <2>1. IsFiniteSet((T \ {y}) \ {z}) /\ \A s \in (T \ {y}) \ {z} : f[s] \in Nat
      BY <1>2, FS_Subset
    <2> QED BY <2>1, SumNat
  <1>11. f[y] \in Nat /\ f[z] \in Nat
    BY <1>2, <1>3, <1>4
  <1> QED
    BY <1>3, <1>5, <1>7, <1>8, <1>9, <1>10, <1>11

LEMMA SumAgree ==
  ASSUME NEW f, NEW g, NEW S, IsFiniteSet(S),
         \A s \in S : f[s] \in Nat /\ f[s] = g[s]
  PROVE  SumFunctionOnSet(f, S) = SumFunctionOnSet(g, S)
  <1> DEFINE Q == {T \in SUBSET S : SumFunctionOnSet(f, T) # SumFunctionOnSet(g, T)}
  <1> SUFFICES ASSUME S \in Q PROVE FALSE
    OBVIOUS
  <1>1. PICK T \in Q : \A V \in Q : V \subseteq T => V = T
    <2>1. Q \subseteq SUBSET S /\ Q # {}
      OBVIOUS
    <2> HIDE DEF Q
    <2> QED BY <2>1, SmallestSet
  <1>2. T \subseteq S /\ SumFunctionOnSet(f, T) # SumFunctionOnSet(g, T) /\ IsFiniteSet(T)
    BY FS_Subset
  <1>3. T # {}
    BY <1>2, SumEmpty
  <1>4. Pick(T) \in T
    BY <1>3 DEF Pick
  <1>5. SumFunctionOnSet(f, T \ {Pick(T)}) = SumFunctionOnSet(g, T \ {Pick(T)})
    BY <1>1, <1>2, <1>4
  <1>6. f[Pick(T)] = g[Pick(T)]
    BY <1>2, <1>4
  <1> QED
    BY <1>2, <1>3, <1>5, <1>6, SumStep

LEMMA SumOfSums ==
  ASSUME NEW f, NEW g, NEW h, NEW S, IsFiniteSet(S),
         \A s \in S : g[s] \in Nat /\ h[s] \in Nat /\ f[s] = g[s] + h[s]
  PROVE  SumFunctionOnSet(f, S) = SumFunctionOnSet(g, S) + SumFunctionOnSet(h, S)
  <1> DEFINE Q == {T \in SUBSET S : SumFunctionOnSet(f, T) # SumFunctionOnSet(g, T) + SumFunctionOnSet(h, T)}
  <1> SUFFICES ASSUME S \in Q PROVE FALSE
    OBVIOUS
  <1>1. PICK T \in Q : \A V \in Q : V \subseteq T => V = T
    <2>1. Q \subseteq SUBSET S /\ Q # {}
      OBVIOUS
    <2> HIDE DEF Q
    <2> QED BY <2>1, SmallestSet
  <1>2. T \subseteq S /\ SumFunctionOnSet(f, T) # SumFunctionOnSet(g, T) + SumFunctionOnSet(h, T) /\ IsFiniteSet(T)
    BY FS_Subset
  <1>3. T # {}
    <2> SUFFICES ASSUME T = {} PROVE FALSE
      OBVIOUS
    <2>1. SumFunctionOnSet(f, T) = 0
      BY SumEmpty
    <2>2. SumFunctionOnSet(g, T) = 0
      BY SumEmpty
    <2>3. SumFunctionOnSet(h, T) = 0
      BY SumEmpty
    <2> HIDE DEF Q
    <2> QED BY <1>2, <2>1, <2>2, <2>3
  <1> DEFINE z == Pick(T)
             R == T \ {z}
  <1>4. z \in T
    BY <1>3 DEF Pick
  <1>5. SumFunctionOnSet(f, T) = f[z] + SumFunctionOnSet(f, R) /\ SumFunctionOnSet(g, T) = g[z] + SumFunctionOnSet(g, R)
        /\ SumFunctionOnSet(h, T) = h[z] + SumFunctionOnSet(h, R)
    BY <1>2, <1>3, SumStep
  <1>6. SumFunctionOnSet(f, R) = SumFunctionOnSet(g, R) + SumFunctionOnSet(h, R)
    BY <1>1, <1>2, <1>4
  <1>7. SumFunctionOnSet(g, R) \in Nat /\ SumFunctionOnSet(h, R) \in Nat
    <2>1. IsFiniteSet(R) /\ \A s \in R : g[s] \in Nat /\ h[s] \in Nat
      BY <1>2, FS_Subset
    <2> QED BY <2>1, SumNat
  <1>8. g[z] \in Nat /\ h[z] \in Nat /\ f[z] = g[z] + h[z]
    BY <1>2, <1>4
  <1> HIDE DEF z, R
  <1> QED
    BY <1>2, <1>5, <1>6, <1>7, <1>8

(* A sum of marks counts what is marked.                                   *)
LEMMA SumOfMarks ==
  ASSUME NEW f, NEW S, IsFiniteSet(S), NEW A, \A s \in S : f[s] = IF s \in A THEN 1 ELSE 0
  PROVE  SumFunctionOnSet(f, S) = Cardinality(S \cap A)
  <1> DEFINE Q == {T \in SUBSET S : SumFunctionOnSet(f, T) # Cardinality(T \cap A)}
  <1> SUFFICES ASSUME S \in Q PROVE FALSE
    OBVIOUS
  <1>1. PICK T \in Q : \A V \in Q : V \subseteq T => V = T
    <2>1. Q \subseteq SUBSET S /\ Q # {}
      OBVIOUS
    <2> HIDE DEF Q
    <2> QED BY <2>1, SmallestSet
  <1>2. T \subseteq S /\ SumFunctionOnSet(f, T) # Cardinality(T \cap A) /\ IsFiniteSet(T)
    BY FS_Subset
  <1>3. T # {}
    <2> SUFFICES ASSUME T = {} PROVE FALSE
      OBVIOUS
    <2>1. SumFunctionOnSet(f, T) = 0 /\ T \cap A = {}
      BY SumEmpty
    <2> HIDE DEF Q
    <2> QED BY <1>2, <2>1, FS_EmptySet
  <1> DEFINE z == Pick(T)
             R == T \ {z}
  <1>4. z \in T
    BY <1>3 DEF Pick
  <1>5. SumFunctionOnSet(f, T) = f[z] + SumFunctionOnSet(f, R)
    <2>1. \A s \in T : f[s] \in Nat
      BY <1>2
    <2> QED BY <1>2, <1>3, <2>1, SumStep
  <1>6. SumFunctionOnSet(f, R) = Cardinality(R \cap A)
    BY <1>1, <1>2, <1>4
  <1>7. f[z] = IF z \in A THEN 1 ELSE 0
    BY <1>2, <1>4
  <1>8. IsFiniteSet(T \cap A) /\ Cardinality(T \cap A) \in Nat
    BY <1>2, FS_Subset, FS_CardinalityType
  <1> HIDE DEF z
  <1>9. Cardinality(R \cap A) = Cardinality(T \cap A) - (IF z \in A THEN 1 ELSE 0)
    <2>1. CASE z \in A
      <3>1. R \cap A = (T \cap A) \ {z} /\ z \in T \cap A
        BY <1>4, <2>1
      <3>2. Cardinality((T \cap A) \ {z}) = Cardinality(T \cap A) - 1
        BY <1>8, <3>1, FS_RemoveElement
      <3> QED BY <2>1, <3>1, <3>2
    <2>2. CASE z \notin A
      <3>1. R \cap A = T \cap A
        BY <2>2
      <3> QED BY <1>8, <2>2, <3>1
    <2> QED BY <2>1, <2>2
  <1> HIDE DEF R, Q
  <1> QED
    BY <1>2, <1>5, <1>6, <1>7, <1>8, <1>9

(* What one element gives to another leaves the sum as it is.              *)
LEMMA SumMoved ==
  ASSUME NEW f, NEW g, NEW S, IsFiniteSet(S), \A s \in S : f[s] \in Nat,
         NEW x \in S, NEW y \in S, x # y,
         g[y] = f[y] + f[x], g[x] = 0, \A s \in S \ {x, y} : g[s] = f[s]
  PROVE  SumFunctionOnSet(g, S) = SumFunctionOnSet(f, S)
  <1> DEFINE R == (S \ {x}) \ {y}
  <1>1. IsFiniteSet(S \ {x}) /\ IsFiniteSet(R)
    BY FS_RemoveElement
  <1>2. \A s \in S : g[s] \in Nat
    <2>1. f[x] \in Nat /\ f[y] \in Nat
      OBVIOUS
    <2>2. g[y] \in Nat /\ g[x] \in Nat
      BY <2>1
    <2> QED BY <2>2
  <1>3. SumFunctionOnSet(f, S) = f[x] + SumFunctionOnSet(f, S \ {x}) /\ SumFunctionOnSet(g, S) = g[x] + SumFunctionOnSet(g, S \ {x})
    BY <1>2, SumOneMore
  <1>4. SumFunctionOnSet(f, S \ {x}) = f[y] + SumFunctionOnSet(f, R) /\ SumFunctionOnSet(g, S \ {x}) = g[y] + SumFunctionOnSet(g, R)
    BY <1>1, <1>2, SumOneMore
  <1>5. SumFunctionOnSet(f, R) = SumFunctionOnSet(g, R)
    BY <1>1, SumAgree
  <1>6. SumFunctionOnSet(f, R) \in Nat
    BY <1>1, SumNat
  <1> HIDE DEF R
  <1> QED
    BY <1>3, <1>4, <1>5, <1>6
=============================================================================
