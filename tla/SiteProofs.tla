----------------------------- MODULE SiteProofs -----------------------------
(***************************************************************************)
(* Proofs about Site and Feed: what is served is whole and told apart, the *)
(* diagnosis is right, the tables have their types, and the page shows     *)
(* what the last poll listed.  The sequences are reasoned about by sets of *)
(* places: what FlattenSeq and the fold of Lines build is what a function  *)
(* on those sets is, by the induction over finite sets of Induction.       *)
(***************************************************************************)
EXTENDS Site, Induction, SequenceTheorems

(* The greatest of a set of places is one of them.                         *)
LEMMA LastPlace ==
  ASSUME NEW n \in Nat, NEW T, T \subseteq 1..n, T # {}
  PROVE  Max(T) \in T
  <1>1. \A t \in T : t \in Nat /\ n - t \in Nat
    OBVIOUS
  <1> DEFINE N == {n - t : t \in T}
  <1>2. PICK m \in N : \A k \in N : m <= k
    <2>1. N \subseteq Nat /\ N # {}
      BY <1>1
    <2> HIDE DEF N
    <2> QED BY <2>1, LeastNumber
  <1>3. PICK t \in T : m = n - t
    BY <1>2
  <1>4. \A u \in T : m <= n - u
    BY <1>2
  <1> HIDE DEF N
  <1>5. ASSUME NEW u \in T PROVE t >= u
    <2>1. t \in Nat /\ u \in Nat /\ n - t <= n - u
      BY <1>1, <1>3, <1>4
    <2> QED BY <2>1
  <1> QED
    BY <1>5 DEF Max

LEMMA ConcatSet ==
  ASSUME NEW V, NEW s \in Seq(V), NEW t \in Seq(V)
  PROVE  s \o t \in Seq(V) /\ ToSet(s \o t) = ToSet(s) \cup ToSet(t)
  <1>1. /\ s \o t \in Seq(V) /\ Len(s \o t) = Len(s) + Len(t)
        /\ \A i \in 1..Len(s) + Len(t) : (s \o t)[i] = IF i <= Len(s) THEN s[i] ELSE t[i - Len(s)]
    BY ConcatProperties
  <1>2. DOMAIN s = 1..Len(s) /\ DOMAIN t = 1..Len(t) /\ DOMAIN (s \o t) = 1..(Len(s) + Len(t))
        /\ Len(s) \in Nat /\ Len(t) \in Nat
    BY <1>1, LenProperties
  <1>3. ASSUME NEW x \in ToSet(s) PROVE x \in ToSet(s \o t)
    <2>1. PICK i \in 1..Len(s) : x = s[i]
      BY <1>2 DEF ToSet
    <2>2. i \in 1..Len(s) + Len(t) /\ (s \o t)[i] = x
      BY <1>1, <1>2, <2>1
    <2> QED BY <1>2, <2>2 DEF ToSet
  <1>4. ASSUME NEW x \in ToSet(t) PROVE x \in ToSet(s \o t)
    <2>1. PICK i \in 1..Len(t) : x = t[i]
      BY <1>2 DEF ToSet
    <2>2. Len(s) + i \in 1..Len(s) + Len(t) /\ (s \o t)[Len(s) + i] = x
      BY <1>1, <1>2, <2>1
    <2> QED BY <1>2, <2>2 DEF ToSet
  <1>5. ASSUME NEW x \in ToSet(s \o t) PROVE x \in ToSet(s) \cup ToSet(t)
    <2>1. PICK i \in 1..Len(s) + Len(t) : x = (s \o t)[i]
      BY <1>2 DEF ToSet
    <2>2. CASE i <= Len(s)
      BY <1>1, <1>2, <2>1, <2>2 DEF ToSet
    <2>3. CASE ~ (i <= Len(s))
      <3>1. i - Len(s) \in 1..Len(t) /\ x = t[i - Len(s)]
        BY <1>1, <1>2, <2>1, <2>3
      <3> QED BY <1>2, <3>1 DEF ToSet
    <2> QED BY <2>2, <2>3
  <1> QED
    BY <1>1, <1>3, <1>4, <1>5

(* FlattenSeq, by the sequences it makes of the first few.                 *)
IsFlat(g, ss, n) == g = [i \in 1..n |-> IF i = 1 THEN ss[i] ELSE g[i - 1] \o ss[i]]

LEMMA FlatExists ==
  ASSUME NEW ss, NEW n \in Nat
  PROVE  \E g : IsFlat(g, ss, n)
  <1> DEFINE N == {m \in Nat : ~ \E g : IsFlat(g, ss, m)}
  <1> SUFFICES ASSUME n \in N PROVE FALSE
    OBVIOUS
  <1>1. PICK m \in N : \A k \in N : m <= k
    <2>1. N \subseteq Nat /\ N # {}
      OBVIOUS
    <2> HIDE DEF N
    <2> QED BY <2>1, LeastNumber
  <1>2. m # 0
    <2> SUFFICES ASSUME m = 0 PROVE FALSE
      OBVIOUS
    <2> DEFINE g == [i \in 1..0 |-> ss]
    <2>1. g = [i \in 1..0 |-> IF i = 1 THEN ss[i] ELSE g[i - 1] \o ss[i]]
      OBVIOUS
    <2> HIDE DEF g
    <2>2. IsFlat(g, ss, 0)
      BY <2>1 DEF IsFlat
    <2> QED BY <2>2
  <1>3. m - 1 \in Nat /\ m - 1 \notin N
    BY <1>1, <1>2
  <1>4. PICK g : IsFlat(g, ss, m - 1)
    BY <1>3
  <1> DEFINE h == [i \in 1..m |-> IF i # m THEN g[i] ELSE IF i = 1 THEN ss[i] ELSE g[i - 1] \o ss[i]]
             q == [i \in 1..m |-> IF i = 1 THEN ss[i] ELSE h[i - 1] \o ss[i]]
  <1>5. \A i \in 1..(m - 1) : g[i] = IF i = 1 THEN ss[i] ELSE g[i - 1] \o ss[i]
    BY <1>4 DEF IsFlat
  <1>9. \A i \in 1..m : h[i] = IF i # m THEN g[i] ELSE IF i = 1 THEN ss[i] ELSE g[i - 1] \o ss[i]
    OBVIOUS
  <1>10. \A i \in 1..m : q[i] = IF i = 1 THEN ss[i] ELSE h[i - 1] \o ss[i]
    OBVIOUS
  <1>11. DOMAIN h = 1..m /\ DOMAIN q = 1..m /\ h = [i \in 1..m |-> h[i]] /\ q = [i \in 1..m |-> q[i]]
    OBVIOUS
  <1> HIDE DEF h, q
  <1>6. ASSUME NEW i \in 1..m PROVE h[i] = q[i]
    <2>0. i \in Nat /\ m \in Nat /\ i <= m /\ 1 <= i
      OBVIOUS
    <2>1. CASE i = 1
      <3>1. q[i] = ss[i]
        BY <1>10, <2>1
      <3>2. h[i] = ss[i]
        <4>1. CASE i = m
          BY <1>9, <2>1, <4>1
        <4>2. CASE i # m
          BY <1>5, <1>9, <2>0, <2>1, <4>2
        <4> QED BY <4>1, <4>2
      <3> QED BY <3>1, <3>2
    <2>2. CASE i # 1
      <3>1. i - 1 \in 1..m /\ i - 1 # m /\ i - 1 \in 1..(m - 1)
        BY <2>0, <2>2
      <3>2. h[i - 1] = g[i - 1]
        BY <1>9, <3>1
      <3>3. h[i] = g[i - 1] \o ss[i]
        <4>1. CASE i = m
          BY <1>9, <2>2, <4>1
        <4>2. CASE i # m
          <5>1. i \in 1..(m - 1)
            BY <2>0, <4>2
          <5>2. g[i] = g[i - 1] \o ss[i]
            BY <1>5, <2>2, <5>1
          <5> QED BY <1>9, <4>2, <5>2
        <4> QED BY <4>1, <4>2
      <3>4. q[i] = h[i - 1] \o ss[i]
        BY <1>10, <2>2
      <3> QED BY <3>2, <3>3, <3>4
    <2> QED BY <2>1, <2>2
  <1>7. h = q
    BY <1>6, <1>11
  <1>8. IsFlat(h, ss, m)
    BY <1>7 DEF IsFlat, q
  <1> QED
    BY <1>8

LEMMA Flattened ==
  ASSUME NEW V, NEW ss \in Seq(Seq(V))
  PROVE  /\ FlattenSeq(ss) \in Seq(V)
         /\ ToSet(FlattenSeq(ss)) = UNION {ToSet(ss[k]) : k \in DOMAIN ss}
  <1>0. Len(ss) \in Nat /\ DOMAIN ss = 1..Len(ss) /\ \A k \in DOMAIN ss : ss[k] \in Seq(V)
    BY LenProperties, ElementOfSeq
  <1>1. CASE Len(ss) = 0
    <2>1. FlattenSeq(ss) = <<>> /\ ss = <<>>
      BY <1>1, EmptySeq DEF FlattenSeq
    <2>2. DOMAIN ss = {}
      BY <1>0, <1>1
    <2> QED BY <2>1, <2>2, EmptySeq DEF ToSet
  <1>2. CASE Len(ss) # 0
    <2> DEFINE g == CHOOSE g : IsFlat(g, ss, Len(ss))
    <2>1. IsFlat(g, ss, Len(ss))
      BY <1>0, FlatExists
    <2>2. FlattenSeq(ss) = g[Len(ss)]
      BY <1>2 DEF FlattenSeq, IsFlat
    <2> HIDE DEF g
    <2>3. \A i \in 1..Len(ss) : g[i] = IF i = 1 THEN ss[i] ELSE g[i - 1] \o ss[i]
      BY <2>1 DEF IsFlat
    <2> DEFINE Good(i) == g[i] \in Seq(V) /\ \A x : x \in ToSet(g[i]) <=> \E k \in 1..i : x \in ToSet(ss[k])
               N == {i \in 1..Len(ss) : ~Good(i)}
    <2>4. N = {}
      <3> SUFFICES ASSUME N # {} PROVE FALSE
        OBVIOUS
      <3>1. PICK i \in N : \A k \in N : i <= k
        <4>1. N \subseteq Nat
          OBVIOUS
        <4> HIDE DEF N
        <4> QED BY <4>1, LeastNumber
      <3>4. i \in 1..Len(ss) /\ ~Good(i) /\ \A k \in 1..Len(ss) : ~Good(k) => i <= k
        BY <3>1
      <3> HIDE DEF N, Good
      <3>2. CASE i = 1
        <4>1. g[i] = ss[1] /\ ss[1] \in Seq(V)
          BY <1>0, <2>3, <3>2, <3>4
        <4>2. \A k \in 1..i : k = 1
          BY <3>2
        <4>3. 1 \in 1..i
          BY <3>2
        <4> QED BY <3>4, <4>1, <4>2, <4>3 DEF Good
      <3>3. CASE i # 1
        <4>1. i - 1 \in 1..Len(ss) /\ ~ (i <= i - 1)
          BY <1>0, <3>3, <3>4
        <4>2. Good(i - 1)
          BY <3>4, <4>1
        <4>3. g[i] = g[i - 1] \o ss[i] /\ ss[i] \in Seq(V)
          BY <1>0, <2>3, <3>3, <3>4
        <4>4. g[i] \in Seq(V) /\ ToSet(g[i]) = ToSet(g[i - 1]) \cup ToSet(ss[i])
          BY <4>2, <4>3, ConcatSet DEF Good
        <4>5. i \in 1..i /\ \A k : k \in 1..i <=> k \in 1..(i - 1) \/ k = i
          BY <1>0, <3>4
        <4>6. \A x : x \in ToSet(g[i]) <=> \E k \in 1..i : x \in ToSet(ss[k])
          BY <4>2, <4>4, <4>5 DEF Good
        <4> QED BY <3>4, <4>4, <4>6 DEF Good
      <3> QED BY <3>2, <3>3
    <2>5. Good(Len(ss))
      <3>1. Len(ss) \in 1..Len(ss)
        BY <1>0, <1>2
      <3> QED BY <2>4, <3>1
    <2>6. \A x : x \in ToSet(FlattenSeq(ss)) <=> x \in UNION {ToSet(ss[k]) : k \in DOMAIN ss}
      BY <1>0, <2>2, <2>5
    <2> QED BY <2>2, <2>5, <2>6
  <1> QED
    BY <1>1, <1>2

(* Lines: each element of a sequence once.                                 *)
Once(seen, l) == IF l \in ToSet(seen) THEN seen ELSE Append(seen, l)
EachOnce(flat) == FoldLeft(Once, <<>>, flat)
IsOnce(g, flat) ==
  g = [T \in SUBSET DOMAIN flat |-> IF T = {} THEN <<>>
                                   ELSE Once(g[T \ {Max(T)}], flat[Max(T)])]

LEMMA LinesAreOnce ==
  \A got : Lines(got) = EachOnce(FlattenSeq([k \in DOMAIN got |-> got[k].items]))
  BY DEF Lines, EachOnce, Once

LEMMA OnceType ==
  ASSUME NEW V, NEW s \in Seq(V), NEW l \in V
  PROVE  /\ Once(s, l) \in Seq(V)
         /\ ToSet(Once(s, l)) = ToSet(s) \cup {l}
         /\ IsInjective(s) => IsInjective(Once(s, l))
  <1>1. CASE l \in ToSet(s)
    BY <1>1 DEF Once
  <1>2. CASE l \notin ToSet(s)
    <2>1. Once(s, l) = Append(s, l)
      BY <1>2 DEF Once
    <2>2. /\ Append(s, l) \in Seq(V) /\ Len(s) \in Nat /\ DOMAIN s = 1..Len(s)
          /\ DOMAIN Append(s, l) = 1..(Len(s) + 1)
          /\ \A i \in 1..Len(s) : Append(s, l)[i] = s[i]
          /\ Append(s, l)[Len(s) + 1] = l
      BY AppendProperties, LenProperties
    <2>3. \A i : i \in 1..(Len(s) + 1) <=> i \in 1..Len(s) \/ i = Len(s) + 1
      BY <2>2
    <2>4. \A x : x \in ToSet(Append(s, l)) <=> x \in ToSet(s) \cup {l}
      BY <2>2, <2>3 DEF ToSet
    <2>5. IsInjective(s) => IsInjective(Append(s, l))
      <3> SUFFICES ASSUME IsInjective(s), NEW i \in 1..(Len(s) + 1), NEW j \in 1..(Len(s) + 1),
                          Append(s, l)[i] = Append(s, l)[j]
                   PROVE  i = j
        BY <2>2 DEF IsInjective
      <3>1. \A k \in 1..Len(s) : s[k] # l
        BY <1>2, <2>2 DEF ToSet
      <3>2. CASE i \in 1..Len(s) /\ j \in 1..Len(s)
        BY <2>2, <3>2 DEF IsInjective
      <3>3. CASE i = Len(s) + 1 /\ j \in 1..Len(s)
        BY <2>2, <3>1, <3>3
      <3>4. CASE j = Len(s) + 1 /\ i \in 1..Len(s)
        BY <2>2, <3>1, <3>4
      <3> QED BY <2>3, <3>2, <3>3, <3>4
    <2> QED BY <2>1, <2>2, <2>4, <2>5
  <1> QED
    BY <1>1, <1>2

LEMMA EachOnceIsOnce ==
  ASSUME NEW V, NEW flat \in Seq(V)
  PROVE  \E g : IsOnce(g, flat) /\ EachOnce(flat) = g[DOMAIN flat]
  <1>0. PICK S : S = DOMAIN flat
    OBVIOUS
  <1>1. Len(flat) \in Nat /\ S = 1..Len(flat) /\ IsFiniteSet(S) /\ \A i \in S : flat[i] \in V
    BY <1>0, LenProperties, FS_Interval
  <1>2. \A T \in SUBSET S : T # {} => Max(T) \in T
    BY <1>1, LastPlace
  <1> DEFINE step == [i \in S |-> [v \in Seq(V) |-> Once(v, flat[i])]]
             pick == [T \in SUBSET S |-> Max(T)]
  <1>3. /\ step \in [S -> [Seq(V) -> Seq(V)]]
        /\ \A T \in SUBSET S : pick[T] = Max(T)
        /\ \A i \in S : \A v \in Seq(V) : step[i][v] = Once(v, flat[i])
    BY <1>1, OnceType
  <1>4. Picks(pick, S)
    BY <1>2 DEF Picks
  <1> HIDE DEF step, pick
  <1>5. PICK h : IsFold(h, step, <<>>, pick, S)
    BY <1>1, <1>4, FoldExists
  <1>6. \A T \in SUBSET S : h[T] \in Seq(V)
    <2>1. <<>> \in Seq(V)
      BY EmptySeq
    <2> QED BY <1>1, <1>3, <1>4, <1>5, <2>1, FoldType
  <1>7. IsOnce(h, flat)
    <2> DEFINE q == [T \in SUBSET S |-> IF T = {} THEN <<>> ELSE Once(h[T \ {Max(T)}], flat[Max(T)])]
    <2>1. ASSUME NEW T \in SUBSET S PROVE h[T] = q[T]
      <3>1. CASE T = {}
        BY <1>5, <3>1 DEF IsFold
      <3>2. CASE T # {}
        <4>1. Max(T) \in S /\ pick[T] = Max(T) /\ T \ {Max(T)} \in SUBSET S
          BY <1>2, <1>3, <3>2
        <4>2. h[T] = step[Max(T)][h[T \ {Max(T)}]]
          BY <1>5, <3>2, <4>1 DEF IsFold
        <4>3. h[T] = Once(h[T \ {Max(T)}], flat[Max(T)])
          BY <1>3, <1>6, <4>1, <4>2
        <4> QED BY <3>2, <4>3
      <3> QED BY <3>1, <3>2
    <2>2. h = q
      <3> HIDE DEF q
      <3>1. h = [T \in SUBSET S |-> h[T]]
        BY <1>5 DEF IsFold
      <3>2. q = [T \in SUBSET S |-> q[T]]
        BY DEF q
      <3> QED BY <2>1, <3>1, <3>2
    <2> QED BY <1>0, <2>2 DEF IsOnce
  <1> DEFINE g == CHOOSE g : IsOnce(g, flat)
  <1>8. IsOnce(g, flat)
    BY <1>7
  <1>9. EachOnce(flat) = g[DOMAIN flat]
    BY DEF EachOnce, FoldLeft, MapThenFoldSet, IsOnce
  <1> QED
    BY <1>8, <1>9

LEMMA EachOnceLaw ==
  ASSUME NEW V, NEW flat \in Seq(V)
  PROVE  /\ EachOnce(flat) \in Seq(V)
         /\ ToSet(EachOnce(flat)) = ToSet(flat)
         /\ IsInjective(EachOnce(flat))
  <1>0. PICK S : S = DOMAIN flat
    OBVIOUS
  <1>1. Len(flat) \in Nat /\ S = 1..Len(flat) /\ IsFiniteSet(S) /\ \A i \in S : flat[i] \in V
    BY <1>0, LenProperties, FS_Interval
  <1>2. PICK g : IsOnce(g, flat) /\ EachOnce(flat) = g[S]
    BY <1>0, EachOnceIsOnce
  <1> DEFINE Good(T) == /\ g[T] \in Seq(V)
                        /\ ToSet(g[T]) = {flat[i] : i \in T}
                        /\ IsInjective(g[T])
             Q == {T \in SUBSET S : ~Good(T)}
  <1>3. Q = {}
    <2> SUFFICES ASSUME Q # {} PROVE FALSE
      OBVIOUS
    <2>1. PICK T \in Q : \A U \in Q : U \subseteq T => U = T
      <3>1. Q \subseteq SUBSET S /\ Q # {}
        OBVIOUS
      <3> HIDE DEF Q, Good
      <3>2. IsFiniteSet(S)
        BY <1>1
      <3> QED BY <3>1, <3>2, SmallestSet
    <2>2. T \in SUBSET S /\ ~Good(T) /\ \A U \in SUBSET S : ~Good(U) /\ U \subseteq T => U = T
      BY <2>1
    <2> HIDE DEF Q, Good
    <2>3. CASE T = {}
      <3>1. g[T] = <<>>
        BY <1>0, <1>2, <2>2, <2>3 DEF IsOnce
      <3>2. Good(T)
        BY <2>3, <3>1, EmptySeq DEF Good, ToSet, IsInjective
      <3> QED BY <2>2, <3>2
    <2>4. CASE T # {}
      <3>1. Max(T) \in T
        BY <1>1, <2>2, <2>4, LastPlace
      <3>2. g[T] = Once(g[T \ {Max(T)}], flat[Max(T)])
        BY <1>0, <1>2, <2>2, <2>4 DEF IsOnce
      <3>3. Good(T \ {Max(T)})
        BY <2>2, <3>1
      <3>4. flat[Max(T)] \in V
        BY <1>1, <2>2, <3>1
      <3>5. /\ g[T] \in Seq(V) /\ IsInjective(g[T])
            /\ ToSet(g[T]) = ToSet(g[T \ {Max(T)}]) \cup {flat[Max(T)]}
        <4>1. PICK s : s = g[T \ {Max(T)}]
          OBVIOUS
        <4>2. s \in Seq(V) /\ IsInjective(s)
          BY <3>3, <4>1 DEF Good
        <4>3. g[T] = Once(s, flat[Max(T)])
          BY <3>2, <4>1
        <4>4. PICK l \in V : l = flat[Max(T)]
          BY <3>4
        <4>5. /\ Once(s, l) \in Seq(V) /\ IsInjective(Once(s, l))
              /\ ToSet(Once(s, l)) = ToSet(s) \cup {l}
          BY <4>2, OnceType, Zenon
        <4> QED BY <4>1, <4>3, <4>4, <4>5
      <3>6. {flat[i] : i \in T} = {flat[i] : i \in T \ {Max(T)}} \cup {flat[Max(T)]}
        BY <3>1
      <3>7. Good(T)
        BY <3>3, <3>5, <3>6 DEF Good
      <3> QED BY <2>2, <3>7
    <2> QED BY <2>3, <2>4
  <1>4. Good(S)
    BY <1>3
  <1> QED
    BY <1>0, <1>2, <1>4 DEF ToSet

-----------------------------------------------------------------------------
(* Counters added up.                                                      *)

Counts  == [up : Nat, down : Nat, conf : Nat]
(* No more confirmed downs than all but the first of the downs.            *)
Tallies == {c \in Counts : c.conf = 0 \/ c.conf < c.down}

LEMMA PlusTally ==
  ASSUME NEW a \in Tallies, NEW b \in Tallies
  PROVE  Plus(a, b) \in Tallies /\ Plus(a, b).down >= a.down
  <1>1. /\ a.up \in Nat /\ a.down \in Nat /\ a.conf \in Nat /\ (a.conf = 0 \/ a.conf < a.down)
        /\ b.up \in Nat /\ b.down \in Nat /\ b.conf \in Nat /\ (b.conf = 0 \/ b.conf < b.down)
    BY DEF Tallies, Counts
  <1>2. /\ Plus(a, b).up = a.up + b.up /\ Plus(a, b).down = a.down + b.down
        /\ Plus(a, b).conf = a.conf + b.conf
    BY DEF Plus
  <1>3. Plus(a, b) \in Counts
    BY <1>1 DEF Plus, Counts
  <1>4. \A u, v, x, y \in Nat : (u = 0 \/ u < x) /\ (v = 0 \/ v < y)
                                => (u + v = 0 \/ u + v < x + y) /\ x + y >= x
    OBVIOUS
  <1>5. (Plus(a, b).conf = 0 \/ Plus(a, b).conf < Plus(a, b).down) /\ Plus(a, b).down >= a.down
    BY <1>1, <1>2, <1>4
  <1> QED
    BY <1>3, <1>5 DEF Tallies

IsAdded(g, c, table, S) ==
  g = [T \in SUBSET S |-> IF T = {} THEN c ELSE Plus(g[T \ {Pick(T)}], table[Pick(T)])]

LEMMA AddedTally ==
  ASSUME NEW c \in Tallies, NEW S, IsFiniteSet(S), NEW table, \A s \in S : table[s] \in Tallies
  PROVE  Added(c, table, S) \in Tallies /\ Added(c, table, S).down >= c.down
  <1> DEFINE V == {v \in Tallies : v.down >= c.down}
             step == [s \in S |-> [v \in V |-> Plus(v, table[s])]]
             pick == [T \in SUBSET S |-> Pick(T)]
  <1>1. c \in V
    BY DEF Tallies, Counts
  <1>2. ASSUME NEW s \in S, NEW v \in V PROVE Plus(v, table[s]) \in V
    <2>1. Plus(v, table[s]) \in Tallies /\ Plus(v, table[s]).down >= v.down
      BY PlusTally
    <2>2. v.down >= c.down /\ v.down \in Nat /\ c.down \in Nat /\ Plus(v, table[s]).down \in Nat
      BY <2>1 DEF Tallies, Counts
    <2> QED BY <2>1, <2>2
  <1>3. /\ step \in [S -> [V -> V]]
        /\ \A s \in S : \A v \in V : step[s][v] = Plus(v, table[s])
    BY <1>2
  <1>4. Picks(pick, S) /\ \A T \in SUBSET S : pick[T] = Pick(T)
    BY DEF Picks, Pick
  <1>10. V \subseteq Tallies /\ \A v \in V : v.down >= c.down
    OBVIOUS
  <1> HIDE DEF V, step, pick
  <1>5. PICK h : IsFold(h, step, c, pick, S)
    BY <1>4, FoldExists
  <1>6. \A T \in SUBSET S : h[T] \in V
    BY <1>1, <1>3, <1>4, <1>5, FoldType
  <1>7. IsAdded(h, c, table, S)
    <2> DEFINE q == [T \in SUBSET S |-> IF T = {} THEN c ELSE Plus(h[T \ {Pick(T)}], table[Pick(T)])]
    <2>1. ASSUME NEW T \in SUBSET S PROVE h[T] = q[T]
      <3>1. CASE T = {}
        BY <1>5, <3>1 DEF IsFold
      <3>2. CASE T # {}
        <4>1. Pick(T) \in S /\ pick[T] = Pick(T) /\ T \ {Pick(T)} \in SUBSET S
          BY <1>4, <3>2 DEF Picks
        <4>2. h[T] = step[Pick(T)][h[T \ {Pick(T)}]]
          BY <1>5, <3>2, <4>1 DEF IsFold
        <4>3. h[T] = Plus(h[T \ {Pick(T)}], table[Pick(T)])
          BY <1>3, <1>6, <4>1, <4>2
        <4> QED BY <3>2, <4>3
      <3> QED BY <3>1, <3>2
    <2>2. h = q
      <3> HIDE DEF q
      <3>1. h = [T \in SUBSET S |-> h[T]]
        BY <1>5 DEF IsFold
      <3>2. q = [T \in SUBSET S |-> q[T]]
        BY DEF q
      <3> QED BY <2>1, <3>1, <3>2
    <2> QED BY <2>2 DEF IsAdded
  <1> DEFINE g == CHOOSE g : IsAdded(g, c, table, S)
  <1>8. IsAdded(g, c, table, S)
    BY <1>7
  <1>9. Added(c, table, S) = g[S]
    BY DEF Added, FoldSet, MapThenFoldSet, IsAdded, Pick
  <1> HIDE DEF g
  <1>11. \A T \in SUBSET S : g[T] \in V
    <2> SUFFICES ASSUME \E T \in SUBSET S : g[T] \notin V PROVE FALSE
      OBVIOUS
    <2> DEFINE Q == {T \in SUBSET S : g[T] \notin V}
    <2>1. PICK T \in Q : \A U \in Q : U \subseteq T => U = T
      <3>1. Q \subseteq SUBSET S /\ Q # {}
        OBVIOUS
      <3> HIDE DEF Q
      <3> QED BY <3>1, SmallestSet
    <2>2. T \in SUBSET S /\ g[T] \notin V /\ \A U \in SUBSET S : g[U] \notin V /\ U \subseteq T => U = T
      BY <2>1
    <2> HIDE DEF Q
    <2>3. g[T] = (IF T = {} THEN c ELSE Plus(g[T \ {Pick(T)}], table[Pick(T)]))
      BY <1>8, <2>2 DEF IsAdded
    <2>4. T # {}
      BY <1>1, <2>2, <2>3
    <2>5. Pick(T) \in T /\ Pick(T) \in S
      BY <2>2, <2>4 DEF Pick
    <2>6. g[T \ {Pick(T)}] \in V
      BY <2>2, <2>5
    <2> QED BY <1>2, <2>2, <2>3, <2>4, <2>5, <2>6
  <1> QED
    BY <1>9, <1>10, <1>11

-----------------------------------------------------------------------------
(* The answer of /sub.                                                     *)

Bodies == UNION {Upstream[u] : u \in DOMAIN Upstream}
Gots   == Seq(Bodies)
(* The items of the bodies in B.                                           *)
ItemsOf(B) == UNION {ToSet(b.items) : b \in B}
JSONOf(got) == {b \in ToSet(got) : b.form \in JSONForms}

LEMMA BodyType ==
  ASSUME NEW b \in Bodies
  PROVE  /\ b.items \in Seq(Items) /\ b.ok \in BOOLEAN
         /\ b = Unreachable => b.items = <<>> /\ b.form \notin JSONForms /\ ~b.ok
         /\ ToSet(b.items) \subseteq Items
  <1>1. b = Unreachable => b.items = <<>> /\ b.form \notin JSONForms /\ ~b.ok /\ b.ok \in BOOLEAN
    BY DEF Unreachable, Body, JSONForms
  <1>2. <<>> \in Seq(Items)
    BY EmptySeq
  <1>3. b.items \in Seq(Items) /\ b.ok \in BOOLEAN
    BY <1>1, <1>2, SiteAssumption DEF Bodies
  <1>4. ToSet(b.items) \subseteq Items
    BY <1>3, LenProperties DEF ToSet
  <1> QED
    BY <1>1, <1>3, <1>4

LEMMA GotType ==
  ASSUME NEW got \in Gots
  PROVE  /\ Len(got) \in Nat /\ DOMAIN got = 1..Len(got)
         /\ \A k \in DOMAIN got : got[k] \in Bodies /\ got[k] \in ToSet(got)
         /\ \A b \in ToSet(got) : b \in Bodies /\ \E k \in DOMAIN got : b = got[k]
         /\ got = <<>> <=> DOMAIN got = {}
  <1>1. Len(got) \in Nat /\ DOMAIN got = 1..Len(got) /\ \A k \in DOMAIN got : got[k] \in Bodies
    BY LenProperties DEF Gots
  <1>2. got = <<>> <=> Len(got) = 0
    BY EmptySeq DEF Gots
  <1>3. got = <<>> <=> DOMAIN got = {}
    BY <1>1, <1>2
  <1> QED
    BY <1>1, <1>3 DEF ToSet

LEMMA LinesLaw ==
  ASSUME NEW got \in Gots
  PROVE  /\ Lines(got) \in Seq(Items) /\ ToSet(Lines(got)) = ItemsOf(ToSet(got))
         /\ \A j, k \in DOMAIN Lines(got) : Lines(got)[j] = Lines(got)[k] => j = k
  <1> DEFINE ss == [k \in DOMAIN got |-> got[k].items]
  <1>1. ss \in Seq(Seq(Items)) /\ DOMAIN ss = DOMAIN got /\ \A k \in DOMAIN got : ss[k] = got[k].items
    <2>1. \A k \in 1..Len(got) : ss[k] \in Seq(Items)
      BY GotType, BodyType
    <2>2. ss \in [1..Len(got) -> Seq(Items)] /\ Len(got) \in Nat
      BY <2>1, GotType
    <2> QED BY <2>2, SeqDef
  <1>2. Lines(got) = EachOnce(FlattenSeq(ss))
    BY LinesAreOnce
  <1> HIDE DEF ss
  <1>3. FlattenSeq(ss) \in Seq(Items) /\ ToSet(FlattenSeq(ss)) = UNION {ToSet(ss[k]) : k \in DOMAIN ss}
    BY <1>1, Flattened
  <1>4. \A x : x \in UNION {ToSet(ss[k]) : k \in DOMAIN ss} <=> x \in ItemsOf(ToSet(got))
    BY <1>1, GotType DEF ItemsOf
  <1>5. PICK flat : flat = FlattenSeq(ss)
    OBVIOUS
  <1>6. EachOnce(flat) \in Seq(Items) /\ ToSet(EachOnce(flat)) = ToSet(flat) /\ IsInjective(EachOnce(flat))
    BY <1>3, <1>5, EachOnceLaw
  <1> QED
    BY <1>2, <1>3, <1>4, <1>5, <1>6 DEF IsInjective

LEMMA DocumentsLaw ==
  ASSUME NEW got \in Gots
  PROVE  /\ FilterJSON(got).all \in Seq(Items)
         /\ ToSet(FilterJSON(got).all) = ItemsOf(JSONOf(got))
         /\ FilterJSON(got).ok <=> JSONOf(got) # {}
         /\ FilterJSON(got).ok \in BOOLEAN
  <1> DEFINE ss == [k \in DOMAIN got |-> IF got[k].form \in JSONForms THEN got[k].items ELSE <<>>]
  <1>1. ss \in Seq(Seq(Items)) /\ DOMAIN ss = DOMAIN got
        /\ \A k \in DOMAIN got : ss[k] = IF got[k].form \in JSONForms THEN got[k].items ELSE <<>>
    <2>1. \A k \in 1..Len(got) : ss[k] \in Seq(Items)
      BY GotType, BodyType, EmptySeq
    <2>2. ss \in [1..Len(got) -> Seq(Items)] /\ Len(got) \in Nat
      BY <2>1, GotType
    <2> QED BY <2>2, SeqDef
  <1>2. FilterJSON(got).all = FlattenSeq(ss) /\ FilterJSON(got).ok = \E k \in DOMAIN got : got[k].form \in JSONForms
    BY DEF FilterJSON
  <1> HIDE DEF ss
  <1>3. FlattenSeq(ss) \in Seq(Items) /\ ToSet(FlattenSeq(ss)) = UNION {ToSet(ss[k]) : k \in DOMAIN ss}
    BY <1>1, Flattened
  <1>4. ASSUME NEW k \in DOMAIN got, NEW x \in ToSet(ss[k])
        PROVE  x \in ItemsOf(JSONOf(got))
    <2>1. CASE got[k].form \in JSONForms
      BY <1>1, <1>4, <2>1, GotType DEF ItemsOf, JSONOf
    <2>2. CASE got[k].form \notin JSONForms
      BY <1>1, <1>4, <2>2 DEF ToSet
    <2> QED BY <2>1, <2>2
  <1>5. ASSUME NEW x \in ItemsOf(JSONOf(got))
        PROVE  \E k \in DOMAIN got : x \in ToSet(ss[k])
    BY <1>1, GotType DEF ItemsOf, JSONOf
  <1>6. FilterJSON(got).ok <=> JSONOf(got) # {}
    BY <1>2, GotType DEF JSONOf
  <1> QED
    BY <1>1, <1>2, <1>3, <1>4, <1>5, <1>6

(* The items that are served, and what each is called.                     *)
Offered(got)   == IF FilterJSON(got).ok THEN FilterJSON(got).all ELSE Lines(got)
Called(got, i) == IF FilterJSON(got).ok THEN Name(i) ELSE MergedName(got, i)

LEMMA ServedLaw ==
  ASSUME NEW got \in Gots, sub(got).code = 200
  PROVE  /\ sub(got).json = FilterJSON(got).ok
         /\ Offered(got) \in Seq(Items)
         /\ sub(got).served = [k \in DOMAIN Offered(got) |->
                                 Named(Offered(got)[k], Called(got, Offered(got)[k]))]
         /\ ToSet(Offered(got)) = IF FilterJSON(got).ok THEN ItemsOf(JSONOf(got)) ELSE ItemsOf(ToSet(got))
         /\ \E k \in DOMAIN got : got[k] # Unreachable
  <1>1. got # <<>> /\ Fetched(got) # {}
    BY DEF sub, Failure
  <1>2. sub(got) = [code |-> 200, json |-> FilterJSON(got).ok,
                    served |-> IF FilterJSON(got).ok
                               THEN [k \in DOMAIN FilterJSON(got).all |->
                                       Named(FilterJSON(got).all[k], Name(FilterJSON(got).all[k]))]
                               ELSE Merge(got)]
    BY <1>1 DEF sub
  <1>3. Offered(got) \in Seq(Items) /\ ToSet(Offered(got))
          = IF FilterJSON(got).ok THEN ItemsOf(JSONOf(got)) ELSE ItemsOf(ToSet(got))
    BY LinesLaw, DocumentsLaw DEF Offered
  <1>4. sub(got).served = [k \in DOMAIN Offered(got) |-> Named(Offered(got)[k], Called(got, Offered(got)[k]))]
    <2>1. CASE FilterJSON(got).ok
      BY <1>2, <2>1 DEF Offered, Called
    <2>2. CASE ~FilterJSON(got).ok
      BY <1>2, <2>2 DEF Offered, Called, Merge
    <2> QED BY <2>1, <2>2
  <1> QED
    BY <1>1, <1>2, <1>3, <1>4 DEF Fetched

LEMMA ServedEach ==
  ASSUME NEW got \in Gots, sub(got).code = 200
  PROVE  /\ DOMAIN sub(got).served = DOMAIN Offered(got)
         /\ \A k \in DOMAIN Offered(got) : /\ sub(got).served[k].item = Offered(got)[k]
                                           /\ sub(got).served[k].name = Called(got, Offered(got)[k])
                                          /\ Offered(got)[k] \in Items
  <1>1. sub(got).served = [k \in DOMAIN Offered(got) |->
                             Named(Offered(got)[k], Called(got, Offered(got)[k]))]
        /\ Offered(got) \in Seq(Items)
    BY ServedLaw
  <1>2. \A k \in DOMAIN Offered(got) : Offered(got)[k] \in Items
    BY <1>1, LenProperties
  <1>3. \A i, n : Named(i, n).item = i /\ Named(i, n).name = n
    BY DEF Named
  <1> QED
    BY <1>1, <1>2, <1>3

LEMMA CodeType ==
  \A got : sub(got).code \in {200, 404, 502} /\ (sub(got).code # 200 => sub(got).served = <<>>)
  BY DEF sub, Failure

-----------------------------------------------------------------------------
(* What the checker has of it.                                             *)

Answer(got) == [code |-> sub(got).code, json |-> sub(got).json, served |-> sub(got).served,
                got |-> got]
AnswerInv ==
  /\ answer = NoAnswer \/ \E got \in Gots : answer = Answer(got)
  /\ answer.code = 200 => listed = Listing(answer.served)
  /\ listed = <<>> \/ \E got \in Gots : sub(got).code = 200 /\ listed = Listing(sub(got).served)

LEMMA AnswerStep ==
  ASSUME AnswerInv, [Next]_siteVars
  PROVE  AnswerInv'
  <1>1. ASSUME NEW stored \in Subscriptions, GetSub(stored)
        PROVE  AnswerInv'
    <2>1. PICK got \in [DOMAIN Upstreams(stored) -> Bodies] :
            /\ answer' = Answer(got)
            /\ listed' = IF sub(got).code # 200 THEN listed ELSE Listing(sub(got).served)
      BY <1>1 DEF GetSub, Bodies, Answer
    <2>2. Upstreams(stored) \in Seq(DOMAIN Upstream)
      BY SiteAssumption DEF Upstreams
    <2>3. got \in Gots
      <3>1. DOMAIN Upstreams(stored) = 1..Len(Upstreams(stored)) /\ Len(Upstreams(stored)) \in Nat
        BY <2>2, LenProperties
      <3> QED BY <3>1, SeqDef DEF Gots
    <2>4. answer'.code = sub(got).code /\ answer'.served = sub(got).served
      BY <2>1 DEF Answer
    <2>5. CASE sub(got).code = 200
      <3>1. listed' = Listing(sub(got).served)
        BY <2>1, <2>5
      <3> QED BY <2>1, <2>3, <2>4, <2>5, <3>1 DEF AnswerInv
    <2>6. CASE sub(got).code # 200
      <3>1. listed' = listed /\ answer'.code # 200
        BY <2>1, <2>4, <2>6
      <3> QED BY <2>1, <2>3, <3>1 DEF AnswerInv
    <2> QED BY <2>5, <2>6
  <1>2. ASSUME NEW on \in SUBSET ListedSids, Poll(on)
        PROVE  AnswerInv'
    <2>1. answer' = NoAnswer /\ listed' = listed
      BY <1>2 DEF Poll
    <2> QED BY <2>1 DEF AnswerInv, NoAnswer
  <1>3. ASSUME UNCHANGED <<answer, listed>>
        PROVE  AnswerInv'
    BY <1>3 DEF AnswerInv
  <1>4. ConsolidateByName => UNCHANGED <<answer, listed>>
    BY DEF ConsolidateByName
  <1>5. \A i : handleVisCallback(i) \/ AddMaintenance(i) => UNCHANGED <<answer, listed>>
    BY DEF handleVisCallback, AddMaintenance, Mark
  <1>6. CurrentRows \/ DailyRows \/ HiddenSet \/ summary => UNCHANGED <<answer, listed>>
    BY DEF CurrentRows, DailyRows, HiddenSet, summary, Visit
  <1>7. UNCHANGED siteVars => UNCHANGED <<answer, listed>>
    BY DEF siteVars
  <1> QED
    BY <1>1, <1>2, <1>3, <1>4, <1>5, <1>6, <1>7 DEF Next

LEMMA AnswersHold == Spec => []AnswerInv
  <1>1. Init => AnswerInv
    BY DEF Init, AnswerInv, NoAnswer
  <1>2. AnswerInv /\ [Next]_siteVars => AnswerInv'
    BY AnswerStep
  <1> QED
    BY <1>1, <1>2, PTL DEF Spec

(* What is served is what was fetched, each link once: see ListsWhole.     *)
THEOREM WholeLists == Spec => []ListsWhole
  <1>1. AnswerInv => ListsWhole
    <2> SUFFICES ASSUME AnswerInv, answer.code = 200 PROVE ListsWhole
      BY DEF ListsWhole
    <2>1. PICK got \in Gots : answer = Answer(got)
      BY DEF AnswerInv, NoAnswer
    <2>2. /\ sub(got).code = 200 /\ answer.served = sub(got).served /\ answer.json = FilterJSON(got).ok
          /\ answer.got = got
      BY <2>1, ServedLaw DEF Answer
    <2> DEFINE items == [k \in DOMAIN answer.served |-> answer.served[k].item]
    <2>3. items = Offered(got)
      <3>1. DOMAIN answer.served = DOMAIN Offered(got)
            /\ \A k \in DOMAIN Offered(got) : answer.served[k].item = Offered(got)[k]
        BY <2>2, ServedEach
      <3>2. Offered(got) = [k \in DOMAIN Offered(got) |-> Offered(got)[k]]
        BY <2>2, ServedLaw, LenProperties
      <3> QED BY <3>1, <3>2
    <2> DEFINE bodies == {b \in ToSet(answer.got) : answer.json <=> b.form \in JSONForms}
    <2>4. ToSet(items) = UNION {ToSet(b.items) : b \in bodies}
      <3>1. CASE answer.json
        <4>1. bodies = JSONOf(got)
          BY <2>2, <3>1 DEF JSONOf
        <4> QED BY <2>2, <2>3, <3>1, <4>1, ServedLaw DEF ItemsOf
      <3>2. CASE ~answer.json
        <4>1. \A b \in ToSet(got) : b.form \notin JSONForms
          BY <2>2, <3>2, DocumentsLaw DEF JSONOf
        <4>2. answer.json = FALSE
          BY <2>2, <3>2, DocumentsLaw
        <4>3. bodies = ToSet(got)
          BY <2>2, <4>1, <4>2
        <4>4. ToSet(Offered(got)) = ItemsOf(ToSet(got))
          BY <2>2, <3>2, ServedLaw
        <4>5. ToSet(items) = ItemsOf(bodies)
          BY <2>3, <4>3, <4>4
        <4> QED BY <4>5 DEF ItemsOf
      <3>3. answer.json \in BOOLEAN
        BY <2>2, DocumentsLaw
      <3> QED BY <3>1, <3>2, <3>3
    <2>5. ~answer.json => \A j, k \in DOMAIN items : items[j] = items[k] => j = k
      BY <2>2, <2>3, LinesLaw DEF Offered
    <2> QED BY <2>4, <2>5 DEF ListsWhole
  <1> QED
    BY <1>1, AnswersHold, PTL

LEMMA NamesOf ==
  \A i : /\ Name(i) = <<Remark[i], "">> /\ TagName(i) = <<Remark[i], Tag[i]>>
         /\ StripTag(Name(i)) = Name(i) /\ StripTag(TagName(i)) = Name(i)
         /\ Name(i)[1] = Remark[i] /\ TagName(i)[1] = Remark[i] /\ TagName(i)[2] = Tag[i]
         /\ Name(i) # <<>> /\ TagName(i) # <<>>
  BY DEF Name, TagName, StripTag

(* A remark of two lines is counted twice.                                 *)
LEMMA TwinsCounted ==
  ASSUME NEW got \in Gots, NEW i \in ToSet(Lines(got)), NEW j \in ToSet(Lines(got)), i # j,
         Remark[i] = Remark[j]
  PROVE  remarkCount(got, Remark[i]) > 1
  <1> DEFINE S == {l \in ToSet(Lines(got)) : Remark[l] = Remark[i]}
  <1>1. ToSet(Lines(got)) \subseteq Items
    BY LinesLaw, LenProperties DEF ToSet
  <1>2. IsFiniteSet(S) /\ {i, j} \subseteq S
    BY <1>1, SiteAssumption, FS_Subset
  <1>3. Cardinality({i, j}) = 2
    <2>1. {i, j} = {i} \cup {j} /\ j \notin {i}
      OBVIOUS
    <2>2. IsFiniteSet({i}) /\ Cardinality({i}) = 1
      BY FS_Singleton
    <2> QED BY <2>1, <2>2, FS_AddElement
  <1>4. Cardinality({i, j}) <= Cardinality(S) /\ Cardinality(S) \in Nat
    BY <1>2, FS_Subset, FS_CardinalityType
  <1>5. remarkCount(got, Remark[i]) = Cardinality(S)
    BY DEF remarkCount
  <1> QED
    BY <1>3, <1>4, <1>5

(* Links of one remark are served by names of their own: see NamesApart.   *)
THEOREM NamesToldApart == Spec => []NamesApart
  <1>1. AnswerInv => NamesApart
    <2> SUFFICES ASSUME AnswerInv, ~answer.json, NEW x \in ToSet(answer.served),
                        NEW y \in ToSet(answer.served)
                 PROVE  /\ StripTag(x.name) = Name(x.item)
                        /\ (x.item # y.item /\ Remark[x.item] # "" /\ Tag[x.item] # Tag[y.item])
                             => x.name # y.name
      BY DEF NamesApart
    <2>1. answer.served # <<>>
      BY EmptySeq DEF ToSet
    <2>2. PICK got \in Gots : answer = Answer(got)
      BY <2>1 DEF AnswerInv, NoAnswer
    <2>3. /\ sub(got).code = 200 /\ answer.served = sub(got).served /\ ~FilterJSON(got).ok
      BY <2>1, <2>2, CodeType, ServedLaw DEF Answer
    <2>4. PICK k \in DOMAIN Lines(got) : x.item = Lines(got)[k] /\ x.name = MergedName(got, x.item)
      BY <2>3, ServedEach DEF Offered, Called, ToSet
    <2>5. PICK m \in DOMAIN Lines(got) : y.item = Lines(got)[m] /\ y.name = MergedName(got, y.item)
      BY <2>3, ServedEach DEF Offered, Called, ToSet
    <2>6. StripTag(x.name) = Name(x.item)
      BY <2>4, NamesOf DEF MergedName
    <2>7. ASSUME x.item # y.item, Remark[x.item] # "", Tag[x.item] # Tag[y.item]
          PROVE  x.name # y.name
      <3>1. CASE Remark[x.item] # Remark[y.item]
        <4>1. x.name[1] = Remark[x.item] /\ y.name[1] = Remark[y.item]
          BY <2>4, <2>5, NamesOf DEF MergedName
        <4> QED BY <3>1, <4>1
      <3>2. CASE Remark[x.item] = Remark[y.item]
        <4>1. x.item \in ToSet(Lines(got)) /\ y.item \in ToSet(Lines(got))
          BY <2>4, <2>5 DEF ToSet
        <4>2. remarkCount(got, Remark[x.item]) > 1
          BY <2>7, <3>2, <4>1, TwinsCounted
        <4>3. x.name = TagName(x.item) /\ y.name = TagName(y.item)
          BY <2>4, <2>5, <2>7, <3>2, <4>2 DEF MergedName
        <4>4. x.name[2] = Tag[x.item] /\ y.name[2] = Tag[y.item]
          BY <4>3, NamesOf
        <4> QED BY <2>7, <4>4
      <3> QED BY <3>1, <3>2
    <2> QED BY <2>6, <2>7
  <1> QED
    BY <1>1, AnswersHold, PTL

(* The nodes the checker tests of what it is served.                       *)
LEMMA ProxyLaw ==
  ASSUME NEW i \in Items, NEW n
  PROVE  /\ Len(Nodes[i]) \in Nat /\ DOMAIN Nodes[i] = 1..Len(Nodes[i])
         /\ DOMAIN Proxies(Named(i, n)) = DOMAIN Nodes[i]
         /\ Proxies(Named(i, n)) \in Seq(ToSet(Proxies(Named(i, n))))
         /\ \A k \in DOMAIN Nodes[i] :
              /\ Proxies(Named(i, n))[k].sid = Nodes[i][k]
              /\ Len(Nodes[i]) = 1 => /\ Proxies(Named(i, n))[k].name = n
                                      /\ Proxies(Named(i, n))[k].grp = NoGrp
              /\ Len(Nodes[i]) # 1 => Proxies(Named(i, n))[k].grp = n
  <1>0. Named(i, n).item = i /\ Named(i, n).name = n
    BY DEF Named
  <1>1. Nodes[i] \in Seq(STRING)
    BY FeedAssumption
  <1>2. Len(Nodes[i]) \in Nat /\ DOMAIN Nodes[i] = 1..Len(Nodes[i])
    BY <1>1, LenProperties
  <1>3. CASE Len(Nodes[i]) = 1
    <2>1. Proxies(Named(i, n)) = <<[sid |-> Nodes[i][1], name |-> n, grp |-> NoGrp]>>
      BY <1>0, <1>3 DEF Proxies
    <2> DEFINE r == [sid |-> Nodes[i][1], name |-> n, grp |-> NoGrp]
    <2>2. r.sid = Nodes[i][1] /\ r.name = n /\ r.grp = NoGrp
      OBVIOUS
    <2> HIDE DEF r
    <2>3. <<r>> \in Seq({r}) /\ DOMAIN <<r>> = 1..1 /\ <<r>>[1] = r /\ ToSet(<<r>>) = {r}
      BY DEF ToSet
    <2>4. \A k \in DOMAIN Nodes[i] : k = 1
      BY <1>2, <1>3
    <2>5. Proxies(Named(i, n)) = <<r>>
      BY <2>1 DEF r
    <2> QED BY <1>2, <1>3, <2>2, <2>3, <2>4, <2>5
  <1>4. CASE Len(Nodes[i]) # 1
    <2>1. Proxies(Named(i, n)) = [k \in DOMAIN Nodes[i] |->
                                    [sid |-> Nodes[i][k], name |-> n \o <<Nodes[i][k]>>, grp |-> n]]
      BY <1>0, <1>4 DEF Proxies
    <2>2. Proxies(Named(i, n)) \in [1..Len(Nodes[i]) -> ToSet(Proxies(Named(i, n)))]
      BY <1>2, <2>1 DEF ToSet
    <2>3. Proxies(Named(i, n)) \in Seq(ToSet(Proxies(Named(i, n))))
      BY <1>2, <2>2, SeqDef
    <2>4. DOMAIN Proxies(Named(i, n)) = DOMAIN Nodes[i]
      BY <2>1
    <2>5. ASSUME NEW k \in DOMAIN Nodes[i]
          PROVE  Proxies(Named(i, n))[k].sid = Nodes[i][k] /\ Proxies(Named(i, n))[k].grp = n
      <3>1. Proxies(Named(i, n))[k] = [sid |-> Nodes[i][k], name |-> n \o <<Nodes[i][k]>>, grp |-> n]
        BY <2>1
      <3> QED BY <3>1
    <2> QED BY <1>2, <1>4, <2>3, <2>4, <2>5
  <1> QED
    BY <1>2, <1>3, <1>4

(* Row r of a list is a node of item i.                                    *)
IsNode(got, r, i) ==
  /\ r.sid \in ToSet(Nodes[i])
  /\ Len(Nodes[i]) = 1 => r.name = Called(got, i) /\ r.grp = NoGrp
  /\ Len(Nodes[i]) # 1 => r.grp = Called(got, i)

(* List l has the nodes of what is served, each of them and nothing else.  *)
IsListing(got, l) ==
  /\ DOMAIN l \subseteq Nat
  /\ \A k \in DOMAIN l : \E i \in ToSet(Offered(got)) : IsNode(got, l[k], i)
  /\ \A i \in ToSet(Offered(got)) : \A s \in ToSet(Nodes[i]) :
       \E k \in DOMAIN l : l[k].sid = s /\ IsNode(got, l[k], i)

LEMMA ListingLaw ==
  ASSUME NEW got \in Gots, sub(got).code = 200
  PROVE  IsListing(got, Listing(sub(got).served))
  <1> DEFINE P(i) == Proxies(Named(i, Called(got, i)))
             V == UNION {ToSet(P(i)) : i \in ToSet(Offered(got))}
             items == Offered(got)
             ss == [k \in DOMAIN sub(got).served |-> Proxies(sub(got).served[k])]
             l == Listing(sub(got).served)
  <1>1. /\ items \in Seq(Items) /\ DOMAIN items = 1..Len(items) /\ Len(items) \in Nat
        /\ \A k \in DOMAIN items : items[k] \in Items /\ items[k] \in ToSet(items)
        /\ \A i \in ToSet(items) : i \in Items /\ \E k \in DOMAIN items : items[k] = i
    <2>1. items \in Seq(Items)
      BY ServedLaw
    <2> HIDE DEF items
    <2> QED BY <2>1, LenProperties DEF ToSet
  <1>2. /\ DOMAIN ss = DOMAIN items
        /\ \A k \in DOMAIN items : ss[k] = P(items[k])
    <2>1. sub(got).served = [k \in DOMAIN items |-> Named(items[k], Called(got, items[k]))]
      BY ServedLaw
    <2> QED BY <2>1
  <1>3. \A i \in ToSet(items) : P(i) \in Seq(ToSet(P(i)))
    BY <1>1, ProxyLaw
  <1>4. \A i \in ToSet(items) : P(i) \in Seq(V)
    <2> SUFFICES ASSUME NEW i \in ToSet(items) PROVE P(i) \in Seq(V)
      OBVIOUS
    <2>1. ToSet(P(i)) \subseteq V
      OBVIOUS
    <2>2. P(i) \in Seq(ToSet(P(i)))
      BY <1>3
    <2> HIDE DEF V, P
    <2> QED BY <2>1, <2>2, SeqMonotonic
  <1>5. ss \in Seq(Seq(V))
    <2>1. ss = [k \in DOMAIN ss |-> ss[k]]
      OBVIOUS
    <2> HIDE DEF ss, V, P, items
    <2>2. \A k \in 1..Len(items) : ss[k] \in Seq(V)
      BY <1>1, <1>2, <1>4
    <2>3. ss \in [1..Len(items) -> Seq(V)]
      BY <1>1, <1>2, <2>1, <2>2
    <2>4. PICK W : W = Seq(V)
      OBVIOUS
    <2>5. ss \in [1..Len(items) -> W] /\ Len(items) \in Nat
      BY <1>1, <2>3, <2>4
    <2>6. ss \in Seq(W)
      BY <2>5, SeqDef
    <2> QED BY <2>4, <2>6
  <1>6. l = FlattenSeq(ss)
    BY DEF Listing
  <1> HIDE DEF ss, V, l, items
  <1>7. l \in Seq(V) /\ ToSet(l) = UNION {ToSet(ss[k]) : k \in DOMAIN ss}
    BY <1>5, <1>6, Flattened
  <1>8. DOMAIN l \subseteq Nat
    <2>1. DOMAIN l = 1..Len(l) /\ Len(l) \in Nat
      BY <1>7, LenProperties
    <2> QED BY <2>1
  <1>9. ASSUME NEW i \in ToSet(items), NEW r \in ToSet(P(i))
        PROVE  IsNode(got, r, i)
    <2>0. DOMAIN P(i) = DOMAIN Nodes[i]
      BY <1>1, ProxyLaw
    <2>1. PICK k \in DOMAIN Nodes[i] : r = P(i)[k]
      <3> HIDE DEF P
      <3> QED BY <2>0 DEF ToSet
    <2>2. P(i)[k].sid = Nodes[i][k] /\ (Len(Nodes[i]) = 1 => P(i)[k].name = Called(got, i) /\ P(i)[k].grp = NoGrp)
          /\ (Len(Nodes[i]) # 1 => P(i)[k].grp = Called(got, i))
      BY <1>1, ProxyLaw
    <2> HIDE DEF P
    <2> QED BY <2>1, <2>2 DEF IsNode, ToSet
  <1>10. ASSUME NEW i \in ToSet(items), NEW s \in ToSet(Nodes[i])
         PROVE  \E r \in ToSet(P(i)) : r.sid = s
    <2>1. PICK k \in DOMAIN Nodes[i] : s = Nodes[i][k]
      BY DEF ToSet
    <2>2. P(i)[k].sid = s /\ k \in DOMAIN P(i)
      BY <1>1, <2>1, ProxyLaw
    <2> HIDE DEF P
    <2> QED BY <2>2 DEF ToSet
  <1> HIDE DEF P
  <1>11. ASSUME NEW k \in DOMAIN l PROVE \E i \in ToSet(items) : IsNode(got, l[k], i)
    <2>1. l[k] \in ToSet(l)
      BY DEF ToSet
    <2>2. PICK j \in DOMAIN items : l[k] \in ToSet(P(items[j]))
      BY <1>2, <1>7, <2>1
    <2> QED BY <1>1, <1>9, <2>2
  <1>12. ASSUME NEW i \in ToSet(items), NEW s \in ToSet(Nodes[i])
         PROVE  \E k \in DOMAIN l : l[k].sid = s /\ IsNode(got, l[k], i)
    <2>1. PICK r \in ToSet(P(i)) : r.sid = s
      BY <1>10
    <2>2. r \in ToSet(l)
      BY <1>1, <1>2, <1>7
    <2>3. IsNode(got, r, i)
      BY <1>9
    <2> QED BY <2>1, <2>2, <2>3 DEF ToSet
  <1>13. IsListing(got, l)
    BY <1>8, <1>11, <1>12 DEF IsListing, items
  <1> QED
    BY <1>13 DEF l

-----------------------------------------------------------------------------
(* The diagnosis.                                                          *)

LEMMA DocumentBodies ==
  ASSUME NEW got \in Gots, \A b \in ToSet(got) : b.ok \/ b = Unreachable
  PROVE  /\ Documents(got) = {k \in DOMAIN got : got[k].form \in JSONForms}
         /\ Answered(got) = {k \in DOMAIN got : got[k] # Unreachable}
  <1>1. ASSUME NEW k \in DOMAIN got
        PROVE  /\ got[k].ok <=> got[k] # Unreachable
               /\ got[k].form \in JSONForms => got[k].ok
    <2>1. got[k] \in Bodies /\ got[k] \in ToSet(got)
      BY GotType
    <2>2. got[k].ok \/ got[k] = Unreachable
      BY <2>1
    <2>3. got[k] = Unreachable => ~got[k].ok /\ got[k].form \notin JSONForms
      BY <2>1, BodyType
    <2> QED BY <2>2, <2>3
  <1>2. \A k : Diagnose(got[k]).json <=> got[k].form \in JSONForms
    BY DEF Diagnose
  <1>3. \A k : k \in Documents(got) <=> k \in DOMAIN got /\ got[k].form \in JSONForms
    <2>1. \A k : k \in Documents(got) <=> k \in DOMAIN got /\ got[k].ok /\ got[k].form \in JSONForms
      BY <1>2 DEF Documents, Answered
    <2> QED BY <1>1, <2>1
  <1>4. \A k : k \in Answered(got) <=> k \in DOMAIN got /\ got[k] # Unreachable
    <2>1. \A k : k \in Answered(got) <=> k \in DOMAIN got /\ got[k].ok
      BY DEF Answered
    <2> QED BY <1>1, <2>1
  <1> QED
    BY <1>3, <1>4

LEMMA ItemsServed ==
  ASSUME NEW got \in Gots, sub(got).code = 200
  PROVE  {x.item : x \in ToSet(sub(got).served)} = ToSet(Offered(got))
  <1>1. /\ DOMAIN sub(got).served = DOMAIN Offered(got)
        /\ \A k \in DOMAIN Offered(got) : sub(got).served[k].item = Offered(got)[k]
    BY ServedEach
  <1> QED
    BY <1>1 DEF ToSet

LEMMA Several ==
  \A i \in Items : Len(Nodes[i]) > 1 => Len(Nodes[i]) # 1 /\ \E s : s \in ToSet(Nodes[i])
  <1>1. \A i \in Items : Len(Nodes[i]) \in Nat /\ DOMAIN Nodes[i] = 1..Len(Nodes[i])
    BY ProxyLaw
  <1>2. \A n \in Nat : n > 1 => n # 1 /\ 1 \in 1..n
    OBVIOUS
  <1>3. \A i \in Items : 1 \in DOMAIN Nodes[i] => Nodes[i][1] \in ToSet(Nodes[i])
    BY DEF ToSet
  <1> QED
    BY <1>1, <1>2, <1>3

LEMMA GroupsAreSeen ==
  ASSUME NEW got \in Gots, sub(got).code = 200,
         NEW b \in ToSet(got), b.form \in JSONForms,
         NEW i \in ToSet(b.items), Len(Nodes[i]) > 1
  PROVE  \E k \in DOMAIN Listing(sub(got).served) : Listing(sub(got).served)[k].grp # NoGrp
  <1>1. b \in JSONOf(got)
    BY DEF JSONOf
  <1>2. FilterJSON(got).ok /\ i \in ItemsOf(JSONOf(got))
    BY <1>1, DocumentsLaw DEF ItemsOf
  <1>3. i \in ToSet(Offered(got))
    BY <1>2, ServedLaw
  <1>4. i \in Items
    BY GotType, BodyType
  <1>5. Len(Nodes[i]) # 1 /\ \E s : s \in ToSet(Nodes[i])
    BY <1>4, Several
  <1>6. PICK s \in ToSet(Nodes[i]) : TRUE
    BY <1>5
  <1>7. PICK l : l = Listing(sub(got).served)
    OBVIOUS
  <1>8. PICK k \in DOMAIN l : IsNode(got, l[k], i)
    <2>1. IsListing(got, l)
      BY <1>7, ListingLaw
    <2> QED BY <1>3, <1>6, <2>1 DEF IsListing
  <1>9. l[k].grp = Name(i)
    BY <1>2, <1>5, <1>8 DEF IsNode, Called
  <1> QED
    BY <1>7, <1>9, NamesOf DEF NoGrp

LEMMA GroupsAreSent ==
  ASSUME NEW got \in Gots, sub(got).code = 200, FilterJSON(got).ok,
         NEW k \in DOMAIN Listing(sub(got).served), Listing(sub(got).served)[k].grp # NoGrp
  PROVE  \E d \in DOMAIN got : /\ got[d].form \in JSONForms
                               /\ \E i \in ToSet(got[d].items) : Len(Nodes[i]) > 1
  <1>1. PICK l : l = Listing(sub(got).served)
    OBVIOUS
  <1>2. IsListing(got, l) /\ k \in DOMAIN l /\ l[k].grp # NoGrp
    BY <1>1, ListingLaw
  <1>3. PICK i \in ToSet(Offered(got)) : IsNode(got, l[k], i)
    BY <1>2 DEF IsListing
  <1>4. l[k].sid \in ToSet(Nodes[i]) /\ Len(Nodes[i]) # 1
    BY <1>2, <1>3 DEF IsNode
  <1>5. i \in ItemsOf(JSONOf(got))
    BY <1>3, ServedLaw
  <1>6. PICK b \in JSONOf(got) : i \in ToSet(b.items)
    BY <1>5 DEF ItemsOf
  <1>7. b \in ToSet(got) /\ b.form \in JSONForms
    BY <1>6 DEF JSONOf
  <1>8. PICK d \in DOMAIN got : b = got[d]
    BY <1>7, GotType
  <1>9. i \in Items
    BY <1>6, <1>7, GotType, BodyType
  <1>10. Len(Nodes[i]) > 1
    <2>1. Len(Nodes[i]) \in Nat /\ DOMAIN Nodes[i] = 1..Len(Nodes[i])
      BY <1>9, ProxyLaw
    <2>2. DOMAIN Nodes[i] # {}
      BY <1>4 DEF ToSet
    <2>3. \A n \in Nat : 1..n # {} /\ n # 1 => n > 1
      OBVIOUS
    <2> QED BY <1>4, <2>1, <2>2, <2>3
  <1> QED
    BY <1>6, <1>7, <1>8, <1>10

(* The diagnosis of the bot says what /sub answered and what the checker   *)
(* made of it, and nothing else does: see DiagnosisAgrees.                 *)
THEOREM RightDiagnosis == Spec => []DiagnosisAgrees
  <1>1. AnswerInv => DiagnosisAgrees
    <2> DEFINE groups == {listed[k].grp : k \in DOMAIN listed} \ {NoGrp}
               v      == verdict(answer.got, FALSE, groups)
               leftOut == \E b \in ToSet(answer.got) : b # Unreachable /\ b.form \notin JSONForms
               served == {x.item : x \in ToSet(answer.served)}
               sent   == UNION {ToSet(b.items) : b \in ToSet(answer.got)}
    <2> SUFFICES ASSUME AnswerInv, answer.code = 200,
                        \A b \in ToSet(answer.got) : b.ok \/ b = Unreachable
                 PROVE  /\ v = "no json"   <=> ~answer.json
                        /\ v = "mixed"     <=> answer.json /\ leftOut
                        /\ v = "ok"        <=> answer.json /\ ~leftOut /\ groups # {}
                        /\ v = "no groups" <=> answer.json /\ ~leftOut /\ groups = {}
                        /\ v # "mixed" => served = sent
      BY Zenon DEF DiagnosisAgrees
    <2>1. PICK got \in Gots : answer = Answer(got)
      BY DEF AnswerInv, NoAnswer
    <2>2. /\ sub(got).code = 200 /\ answer.served = sub(got).served
          /\ answer.json = FilterJSON(got).ok /\ answer.got = got
          /\ listed = Listing(sub(got).served)
      BY <2>1, ServedLaw DEF Answer, AnswerInv
    <2>3. /\ Documents(got) = {k \in DOMAIN got : got[k].form \in JSONForms}
          /\ Answered(got) = {k \in DOMAIN got : got[k] # Unreachable}
      BY <2>2, DocumentBodies
    <2>4. Answered(got) # {} /\ got # <<>>
      BY <2>2, <2>3, ServedLaw, GotType
    <2>5. served = ToSet(Offered(got)) /\ sent = ItemsOf(ToSet(got))
      BY <2>2, ItemsServed DEF ItemsOf
    <2>6. Documents(got) = {} => ~answer.json /\ served = sent
      <3>1. Documents(got) = {} => JSONOf(got) = {}
        BY <2>3, GotType DEF JSONOf
      <3> QED BY <2>2, <2>5, <3>1, DocumentsLaw, ServedLaw
    <2>7. ASSUME Documents(got) = Answered(got)
          PROVE  served = sent
      <3>1. \A b \in ToSet(got) : b \in JSONOf(got) \/ ToSet(b.items) = {}
        <4> SUFFICES ASSUME NEW b \in ToSet(got), b \notin JSONOf(got) PROVE ToSet(b.items) = {}
          OBVIOUS
        <4>1. b \in Bodies /\ b = Unreachable
          BY <2>3, <2>7, GotType DEF JSONOf
        <4>2. b.items = <<>>
          BY <4>1, BodyType
        <4> QED BY <4>2 DEF ToSet
      <3>2. ItemsOf(JSONOf(got)) = ItemsOf(ToSet(got))
        BY <3>1 DEF ItemsOf, JSONOf
      <3>3. JSONOf(got) # {}
        BY <2>3, <2>4, <2>7, GotType DEF JSONOf
      <3>4. FilterJSON(got).ok
        BY <3>3, DocumentsLaw
      <3>5. ToSet(Offered(got)) = ItemsOf(JSONOf(got))
        BY <2>2, <3>4, ServedLaw
      <3> QED BY <2>5, <3>2, <3>5
    <2>8. UNION {Balancers(Diagnose(got[k])) : k \in Documents(got)} # {} => groups # {}
      <3> SUFFICES ASSUME NEW d \in Documents(got), NEW i \in Balancers(Diagnose(got[d]))
                   PROVE  groups # {}
        OBVIOUS
      <3>1. d \in DOMAIN got /\ got[d].form \in JSONForms
        BY <2>3
      <3>2. i \in ToSet(got[d].items) /\ Len(Nodes[i]) > 1
        BY <3>1 DEF Balancers, Diagnose
      <3>3. \E k \in DOMAIN listed : listed[k].grp # NoGrp
        BY <2>2, <3>1, <3>2, GotType, GroupsAreSeen
      <3> QED BY <3>3
    <2> DEFINE balancers == UNION {Balancers(Diagnose(got[k])) : k \in Documents(got)}
    <2>9. answer.json /\ groups # {} => balancers # {}
      <3> SUFFICES ASSUME answer.json, NEW k \in DOMAIN listed, listed[k].grp # NoGrp
                   PROVE  balancers # {}
        OBVIOUS
      <3>1. PICK d \in DOMAIN got : /\ got[d].form \in JSONForms
                                   /\ \E i \in ToSet(got[d].items) : Len(Nodes[i]) > 1
        BY <2>2, GroupsAreSent
      <3>2. PICK i \in ToSet(got[d].items) : Len(Nodes[i]) > 1
        BY <3>1
      <3>3. d \in Documents(got) /\ i \in Balancers(Diagnose(got[d]))
        BY <2>3, <3>1, <3>2 DEF Balancers, Diagnose
      <3> QED BY <3>3
    <2>10. answer.json <=> Documents(got) # {}
      <3>1. Documents(got) # {} <=> JSONOf(got) # {}
        BY <2>3, GotType DEF JSONOf
      <3> QED BY <2>2, <3>1, DocumentsLaw
    <2>11. leftOut <=> Documents(got) # Answered(got)
      <3>1. \A k \in DOMAIN got : got[k].form \in JSONForms => got[k] # Unreachable
        BY BodyType, GotType
      <3>2. Documents(got) # Answered(got) <=>
              \E k \in DOMAIN got : got[k] # Unreachable /\ got[k].form \notin JSONForms
        BY <2>3, <3>1
      <3> QED BY <2>2, <3>2, GotType
    <2>12. balancers # {} => Documents(got) # {}
      OBVIOUS
    <2>13. balancers # {} => groups # {}
      BY <2>8
    <2> HIDE DEF groups, served, sent, leftOut, balancers
    <2>14. v = IF balancers # {} /\ groups = {} THEN "groups unseen"
               ELSE IF Documents(got) = {} THEN "no json"
               ELSE IF Documents(got) # Answered(got) THEN "mixed"
               ELSE IF balancers = {} THEN "no groups" ELSE "ok"
      <3>1. v = verdict(got, FALSE, groups)
        BY <2>2
      <3> HIDE DEF v, groups
      <3>2. Answered(got) # {} /\ got # <<>>
        BY <2>4
      <3> QED BY <3>1, <3>2, Zenon DEF verdict, balancers
    <2> HIDE DEF v
    <2>15. CASE Documents(got) = {}
      <3>1. v = "no json" /\ ~answer.json /\ served = sent
        BY <2>6, <2>10, <2>12, <2>14, <2>15
      <3> QED BY <3>1
    <2>16. CASE Documents(got) # {} /\ Documents(got) # Answered(got)
      <3>1. v = "mixed" /\ answer.json /\ leftOut
        BY <2>10, <2>11, <2>13, <2>14, <2>16
      <3> QED BY <3>1
    <2>17. CASE Documents(got) # {} /\ Documents(got) = Answered(got)
      <3>1. v = (IF groups = {} THEN "no groups" ELSE "ok") /\ answer.json /\ ~leftOut /\ served = sent
        BY <2>7, <2>9, <2>10, <2>11, <2>13, <2>14, <2>17
      <3> QED BY <3>1
    <2> QED BY <2>15, <2>16, <2>17
  <1> QED
    BY <1>1, AnswersHold, PTL

-----------------------------------------------------------------------------
(* What there is of servers, groups and tiles is finite.                   *)

LEMMA ImageFinite ==
  ASSUME NEW S, IsFiniteSet(S), NEW f, DOMAIN f = S
  PROVE  IsFiniteSet({f[s] : s \in S})
  <1> DEFINE T == {f[s] : s \in S}
             g == [s \in S |-> f[s]]
  <1>1. g \in Surjection(S, T)
    BY DEF Surjection
  <1> HIDE DEF T, g
  <1>2. IsFiniteSet(T)
    BY <1>1, FS_Surjection
  <1> QED
    BY <1>2 DEF T

LEMMA FiniteSids == IsFiniteSet(Sids)
  <1> DEFINE f == [i \in Items |-> ToSet(Nodes[i])]
  <1>1. \A i \in Items : IsFiniteSet(ToSet(Nodes[i]))
    <2> SUFFICES ASSUME NEW i \in Items PROVE IsFiniteSet(ToSet(Nodes[i]))
      OBVIOUS
    <2>1. PICK n : n = Nodes[i]
      OBVIOUS
    <2>2. Len(n) \in Nat /\ DOMAIN n = 1..Len(n)
      BY <2>1, ProxyLaw
    <2>3. IsFiniteSet(DOMAIN n)
      BY <2>2, FS_Interval
    <2>4. ToSet(n) = {n[k] : k \in DOMAIN n}
      BY DEF ToSet
    <2> QED BY <2>1, <2>3, <2>4, ImageFinite
  <1>2. DOMAIN f = Items /\ {f[i] : i \in Items} = {ToSet(Nodes[i]) : i \in Items}
    OBVIOUS
  <1> HIDE DEF f
  <1>3. IsFiniteSet({f[i] : i \in Items})
    BY <1>2, SiteAssumption, ImageFinite
  <1>4. PICK F : F = {ToSet(Nodes[i]) : i \in Items}
    OBVIOUS
  <1>5. IsFiniteSet(F) /\ \A T \in F : IsFiniteSet(T)
    BY <1>1, <1>2, <1>3, <1>4
  <1>6. IsFiniteSet(UNION F)
    BY <1>5, FS_UNION
  <1> QED
    BY <1>4, <1>6 DEF Sids

LEMMA FiniteTiles ==
  ASSUME NEW r
  PROVE  IsFiniteSet({Tile(r, ms) : ms \in Groups(r.current)})
  <1> DEFINE R == Rows(r.current)
             f == [s \in R |-> {t \in R : groupKey(r.current, t) = groupKey(r.current, s)}]
  <1>1. IsFiniteSet(R) /\ DOMAIN f = R /\ {f[s] : s \in R} = Groups(r.current)
    BY FiniteSids, FS_Subset DEF Rows, Groups
  <1> HIDE DEF R, f
  <1>2. IsFiniteSet(Groups(r.current))
    BY <1>1, ImageFinite
  <1> DEFINE G == Groups(r.current)
             g == [ms \in G |-> Tile(r, ms)]
  <1>3. DOMAIN g = G /\ {g[ms] : ms \in G} = {Tile(r, ms) : ms \in Groups(r.current)}
    OBVIOUS
  <1>4. IsFiniteSet(G)
    BY <1>2
  <1> HIDE DEF G, g
  <1>5. IsFiniteSet({g[ms] : ms \in G})
    BY <1>3, <1>4, ImageFinite
  <1> QED
    BY <1>3, <1>5

(* The totals of the page are of the tiles on it, and the panel of the bot *)
(* reads the same totals: see PanelAgrees.                                 *)
THEOREM PanelIsPage == Spec => []PanelAgrees
  <1>1. PanelAgrees
    <2> DEFINE T      == {Tile(Read, ms) : ms \in Groups(Read.current)}
               public == {t \in T : ~t.hidden /\ ~t.absent}
               seen   == {t \in public : ~t.maintenance}
               up     == {t \in seen : t.online}
               green  == \A t \in seen : t.online
               red    == seen # {} /\ \A t \in seen : ~t.online
    <2>1. IsFiniteSet(T)
      BY FiniteTiles
    <2>2. /\ Page(FALSE).tiles = public /\ Page(FALSE).total = Cardinality(Counted(T))
          /\ Page(TRUE).total = Cardinality(Counted(T))
          /\ Page(TRUE).online = Cardinality({t \in Counted(T) : t.online})
      BY DEF Page, BuildSummary
    <2> HIDE DEF T
    <2>3. Counted(T) = seen /\ {t \in Counted(T) : t.online} = up
      BY DEF Counted
    <2>4. IsFiniteSet(seen) /\ up \in SUBSET seen
      BY <2>1, FS_Subset
    <2>5. (up = {} <=> \A t \in seen : ~t.online) /\ (up = seen <=> green)
      OBVIOUS
    <2> HIDE DEF seen, up, green
    <2>6. /\ Cardinality(up) \in Nat /\ Cardinality(seen) \in Nat /\ Cardinality(up) <= Cardinality(seen)
          /\ Cardinality(up) = 0 <=> up = {}
          /\ Cardinality(seen) = 0 <=> seen = {}
          /\ Cardinality(seen) = Cardinality(up) => seen = up
      <3>1. IsFiniteSet(up) /\ Cardinality(up) <= Cardinality(seen)
            /\ (Cardinality(seen) = Cardinality(up) => seen = up)
        BY <2>4, FS_Subset
      <3> QED BY <2>4, <3>1, FS_EmptySet, FS_CardinalityType
    <2>7. PICK u \in Nat : u = Cardinality(up)
      BY <2>6
    <2>8. PICK n \in Nat : n = Cardinality(seen)
      BY <2>6
    <2>9. u <= n /\ (u = 0 <=> up = {}) /\ (n = 0 <=> seen = {}) /\ (u = n <=> up = seen)
      BY <2>6, <2>7, <2>8
    <2>10. liveStatus(Page(TRUE)) = IF u = 0 /\ n > 0 THEN "red" ELSE IF u < n THEN "yellow" ELSE "green"
      BY <2>2, <2>3, <2>7, <2>8 DEF liveStatus
    <2>11. /\ liveStatus(Page(TRUE)) = "green" <=> u = n
           /\ liveStatus(Page(TRUE)) = "red" <=> u = 0 /\ n # 0
      <3>1. \A x, y \in Nat : x <= y =>
              LET s == IF x = 0 /\ y > 0 THEN "red" ELSE IF x < y THEN "yellow" ELSE "green"
              IN (s = "green" <=> x = y) /\ (s = "red" <=> x = 0 /\ y # 0)
        OBVIOUS
      <3> QED BY <2>9, <2>10, <3>1
    <2>12. /\ liveStatus(Page(TRUE)) = "green" <=> \A t \in seen : t.online
           /\ liveStatus(Page(TRUE)) = "red" <=> red
      BY <2>5, <2>9, <2>11 DEF green
    <2>13. Page(FALSE).total = Cardinality(seen) /\ seen = {t \in Page(FALSE).tiles : ~t.maintenance}
      BY <2>2, <2>3 DEF seen
    <2> QED BY <2>12, <2>13 DEF PanelAgrees
  <1> QED
    BY <1>1, PTL DEF Spec

-----------------------------------------------------------------------------
(* The types.                                                              *)

(* A server that is down has counted a down of the day.                    *)
RowsInv ==
  \A s \in Sids :
    /\ daily[s] \in Tallies
    /\ current[s] = NoRow \/ (current[s].ts \in 1..last_poll_ts /\ (~current[s].online => daily[s].down >= 1))
    /\ samples[s] \subseteq (1..last_poll_ts) \X BOOLEAN
RestInv ==
  /\ last_poll_ts \in 0..MaxPolls /\ marks \in 0..MaxMarks
  /\ hid \subseteq Items /\ merging \in BOOLEAN /\ steady \in BOOLEAN
  /\ req.at \in {"none", "rows", "daily", "hidden"} /\ DOMAIN req = DOMAIN NoReq

LEMMA ListedAreSids == AnswerInv => ListedSids \subseteq Sids /\ DOMAIN listed \subseteq Nat
  <1> SUFFICES ASSUME AnswerInv PROVE ListedSids \subseteq Sids /\ DOMAIN listed \subseteq Nat
    OBVIOUS
  <1>1. CASE listed = <<>>
    BY <1>1 DEF ListedSids
  <1>2. ASSUME NEW got \in Gots, sub(got).code = 200, listed = Listing(sub(got).served)
        PROVE  ListedSids \subseteq Sids /\ DOMAIN listed \subseteq Nat
    <2>1. IsListing(got, listed)
      BY <1>2, ListingLaw
    <2>2. ToSet(Offered(got)) \subseteq Items
      BY <1>2, ServedEach DEF ToSet
    <2>3. ASSUME NEW k \in DOMAIN listed PROVE listed[k].sid \in Sids
      BY <2>1, <2>2 DEF IsListing, IsNode, Sids
    <2> QED BY <2>1, <2>3 DEF ListedSids, IsListing
  <1> QED
    BY <1>1, <1>2 DEF AnswerInv

LEMMA ReadingTally ==
  ASSUME NEW s, NEW on, daily[s] \in Tallies,
         current[s] = NoRow \/ (~current[s].online => daily[s].down >= 1)
  PROVE  /\ Plus(daily[s], Reading(s, on)) \in Tallies
         /\ s \notin on => Plus(daily[s], Reading(s, on)).down >= 1
  <1>1. /\ daily[s].up \in Nat /\ daily[s].down \in Nat /\ daily[s].conf \in Nat
        /\ daily[s].conf = 0 \/ daily[s].conf < daily[s].down
    BY DEF Tallies, Counts
  <1>2. PICK u \in Nat, d \in Nat, c \in Nat : u = daily[s].up /\ d = daily[s].down /\ c = daily[s].conf
    BY <1>1
  <1>3. PICK r : r = Reading(s, on)
    OBVIOUS
  <1>4. /\ r.up = (IF s \in on THEN 1 ELSE 0) /\ r.down = (IF s \in on THEN 0 ELSE 1)
        /\ r.conf = (IF s \notin on /\ Confirmed(s) THEN 1 ELSE 0)
    BY <1>3 DEF Reading
  <1>5. r.conf = 1 => d >= 1
    BY <1>2, <1>4 DEF Confirmed, Rows
  <1>6. Plus(daily[s], r) = [up |-> u + r.up, down |-> d + r.down, conf |-> c + r.conf]
    BY <1>2 DEF Plus
  <1>7. \A x, y, z \in Nat : [up |-> x, down |-> y, conf |-> z] \in Tallies <=> z = 0 \/ z < y
    BY DEF Tallies, Counts
  <1>8. u + r.up \in Nat /\ d + r.down \in Nat /\ c + r.conf \in Nat
    BY <1>2, <1>4
  <1>9. c + r.conf = 0 \/ c + r.conf < d + r.down
    BY <1>1, <1>2, <1>4, <1>5
  <1>10. s \notin on => d + r.down >= 1
    BY <1>2, <1>4
  <1> QED
    BY <1>3, <1>6, <1>7, <1>8, <1>9, <1>10

LEMMA PollKeepsRows ==
  ASSUME RowsInv, RestInv, NEW on \in SUBSET ListedSids, Poll(on)
  PROVE  RowsInv'
  <1> SUFFICES ASSUME NEW s \in Sids
               PROVE  /\ daily'[s] \in Tallies
                      /\ current'[s] = NoRow \/ (current'[s].ts \in 1..last_poll_ts'
                                                 /\ (~current'[s].online => daily'[s].down >= 1))
                      /\ samples'[s] \subseteq (1..last_poll_ts') \X BOOLEAN
    BY DEF RowsInv, Sids
  <1>1. last_poll_ts \in Nat /\ last_poll_ts' = last_poll_ts + 1
    BY SiteAssumption DEF RestInv, Poll
  <1>2. 1..last_poll_ts \subseteq 1..last_poll_ts' /\ last_poll_ts' \in 1..last_poll_ts'
    BY <1>1
  <1>3. /\ daily[s] \in Tallies
        /\ current[s] = NoRow \/ (current[s].ts \in 1..last_poll_ts /\ (~current[s].online => daily[s].down >= 1))
        /\ samples[s] \subseteq (1..last_poll_ts) \X BOOLEAN
    BY DEF RowsInv
  <1>4. CASE s \in ListedSids
    <2>1. /\ current'[s] = Row(s, on) /\ daily'[s] = Plus(daily[s], Reading(s, on))
          /\ samples'[s] = samples[s] \cup {<<last_poll_ts', s \in on>>}
      BY <1>4 DEF Poll
    <2>2. Row(s, on).ts = last_poll_ts' /\ (Row(s, on).online <=> s \in on)
      BY DEF Row
    <2>3. /\ Plus(daily[s], Reading(s, on)) \in Tallies
          /\ s \notin on => Plus(daily[s], Reading(s, on)).down >= 1
      BY <1>3, ReadingTally
    <2>4. samples'[s] \subseteq (1..last_poll_ts') \X BOOLEAN
      <3>1. <<last_poll_ts', s \in on>> \in (1..last_poll_ts') \X BOOLEAN
        <4>1. \A t, b : b \in BOOLEAN /\ t \in 1..last_poll_ts' => <<t, b>> \in (1..last_poll_ts') \X BOOLEAN
          OBVIOUS
        <4>2. (s \in on) \in BOOLEAN
          OBVIOUS
        <4> QED BY <1>2, <4>1, <4>2, Zenon
      <3> QED BY <1>2, <1>3, <2>1, <3>1
    <2>5. ~current'[s].online => daily'[s].down >= 1
      BY <2>1, <2>2, <2>3
    <2>6. current'[s].ts \in 1..last_poll_ts' /\ daily'[s] \in Tallies
      BY <1>2, <2>1, <2>2, <2>3
    <2> QED BY <2>4, <2>5, <2>6
  <1>5. CASE s \notin ListedSids
    <2>1. current'[s] = current[s] /\ daily'[s] = daily[s] /\ samples'[s] = samples[s]
      BY <1>5 DEF Poll
    <2> QED BY <1>2, <1>3, <2>1
  <1> QED
    BY <1>4, <1>5

LEMMA MergeKeepsRows ==
  ASSUME RowsInv, ConsolidateByName
  PROVE  RowsInv'
  <1> SUFFICES ASSUME NEW s \in Sids
               PROVE  /\ daily'[s] \in Tallies
                      /\ current'[s] = NoRow \/ (current'[s].ts \in 1..last_poll_ts
                                                 /\ (~current'[s].online => daily'[s].down >= 1))
                      /\ samples'[s] \subseteq (1..last_poll_ts) \X BOOLEAN
    BY DEF RowsInv, Sids, ConsolidateByName
  <1>1. /\ daily[s] \in Tallies
        /\ current[s] = NoRow \/ (current[s].ts \in 1..last_poll_ts /\ (~current[s].online => daily[s].down >= 1))
        /\ samples[s] \subseteq (1..last_poll_ts) \X BOOLEAN
    BY DEF RowsInv
  <1>2. CASE s \in Gone
    <2>1. current'[s] = NoRow /\ daily'[s] = NoCount /\ samples'[s] = {}
      BY <1>2 DEF ConsolidateByName
    <2>2. NoCount \in Tallies
      BY DEF NoCount, Tallies, Counts
    <2> QED BY <2>1, <2>2
  <1>3. CASE s \notin Gone
    <2>1. /\ current'[s] = current[s] /\ daily'[s] = Added(daily[s], daily, GoneInto(s))
          /\ samples'[s] = samples[s] \cup UNION {samples[g] : g \in GoneInto(s)}
      BY <1>3 DEF ConsolidateByName
    <2>2. IsFiniteSet(GoneInto(s)) /\ GoneInto(s) \subseteq Sids
      <3>1. GoneInto(s) \subseteq Sids
        BY DEF GoneInto, Gone, Rows
      <3> QED BY <3>1, FiniteSids, FS_Subset
    <2>3. \A g \in GoneInto(s) : daily[g] \in Tallies
      BY <2>2 DEF RowsInv
    <2>4. Added(daily[s], daily, GoneInto(s)) \in Tallies
          /\ Added(daily[s], daily, GoneInto(s)).down >= daily[s].down
      BY <1>1, <2>2, <2>3, AddedTally
    <2>5. current'[s] # NoRow /\ ~current'[s].online => daily'[s].down >= 1
      <3>1. PICK a \in Nat : a = daily[s].down
        BY <1>1 DEF Tallies, Counts
      <3>2. PICK b \in Nat : b = daily'[s].down
        BY <2>1, <2>4 DEF Tallies, Counts
      <3>3. b >= a
        BY <2>1, <2>4, <3>1, <3>2
      <3>4. current[s] # NoRow /\ ~current[s].online => a >= 1
        BY <1>1, <3>1
      <3> QED BY <2>1, <3>1, <3>2, <3>3, <3>4
    <2>6. samples'[s] \subseteq (1..last_poll_ts) \X BOOLEAN
      BY <1>1, <2>1, <2>2 DEF RowsInv
    <2> QED BY <1>1, <2>1, <2>4, <2>5, <2>6
  <1> QED
    BY <1>2, <1>3

(* The steps that leave the tables alone.                                  *)
LEMMA TablesOnly ==
  /\ \A i : handleVisCallback(i) \/ AddMaintenance(i) => UNCHANGED <<answer, listed, tables, merging, steady, req>>
  /\ CurrentRows \/ DailyRows \/ HiddenSet \/ summary
       => UNCHANGED <<answer, listed, tables, merging, steady, adminVars>>
  /\ \A stored : GetSub(stored) => UNCHANGED <<tables, merging, steady, adminVars, req>>
  BY DEF handleVisCallback, AddMaintenance, Mark, CurrentRows, DailyRows, HiddenSet, summary, Visit,
         GetSub

LEMMA RowsStep ==
  ASSUME RowsInv, RestInv, [Next]_siteVars
  PROVE  RowsInv'
  <1>1. ASSUME UNCHANGED tables PROVE RowsInv'
    BY <1>1 DEF RowsInv, tables
  <1>2. UNCHANGED siteVars => UNCHANGED tables
    BY DEF siteVars
  <1> QED
    BY <1>1, <1>2, PollKeepsRows, MergeKeepsRows, TablesOnly DEF Next

LEMMA RestStep ==
  ASSUME RestInv, [Next]_siteVars
  PROVE  RestInv'
  <1>1. ASSUME NEW stored \in Subscriptions, GetSub(stored) PROVE RestInv'
    BY <1>1 DEF GetSub, RestInv, tables, adminVars
  <1>2. ASSUME NEW on \in SUBSET ListedSids, Poll(on) PROVE RestInv'
    BY <1>2, SiteAssumption DEF Poll, RestInv, adminVars
  <1>3. ASSUME ConsolidateByName PROVE RestInv'
    BY <1>3 DEF ConsolidateByName, RestInv, adminVars
  <1>4. ASSUME NEW i \in Items, handleVisCallback(i) PROVE RestInv'
    <2>1. marks' = marks + 1 /\ marks < MaxMarks /\ (hid' = hid \ {i} \/ hid' = hid \cup {i})
          /\ UNCHANGED <<last_poll_ts, merging, steady, req>>
      BY <1>4 DEF handleVisCallback, Mark, tables
    <2> QED BY <2>1, SiteAssumption DEF RestInv
  <1>5. ASSUME NEW i \in Items, AddMaintenance(i) PROVE RestInv'
    <2>1. marks' = marks + 1 /\ marks < MaxMarks /\ hid' = hid
          /\ UNCHANGED <<last_poll_ts, merging, steady, req>>
      BY <1>5 DEF AddMaintenance, Mark, tables
    <2> QED BY <2>1, SiteAssumption DEF RestInv
  <1>6. ASSUME CurrentRows \/ DailyRows \/ HiddenSet \/ summary PROVE RestInv'
    <2>1. req'.at \in {"none", "rows", "daily", "hidden"} /\ DOMAIN req' = DOMAIN NoReq
      <3>1. DOMAIN NoReq = {"at", "polled", "current", "daily", "hidden"} /\ NoReq.at = "none"
        BY DEF NoReq
      <3>2. CurrentRows => req'.at = "rows" /\ DOMAIN req' = DOMAIN NoReq
        BY <3>1 DEF CurrentRows, Visit
      <3>3. DailyRows => req'.at = "daily" /\ DOMAIN req' = DOMAIN NoReq
        BY <3>1 DEF DailyRows, Visit, RestInv
      <3>4. HiddenSet => req'.at = "hidden" /\ DOMAIN req' = DOMAIN NoReq
        BY <3>1 DEF HiddenSet, Visit, RestInv
      <3>5. summary => req'.at = "none" /\ DOMAIN req' = DOMAIN NoReq
        BY <3>1 DEF summary, Visit
      <3> QED BY <1>6, <3>2, <3>3, <3>4, <3>5
    <2>2. UNCHANGED <<tables, merging, steady, adminVars>>
      BY <1>6, TablesOnly
    <2> QED BY <2>1, <2>2 DEF RestInv, tables, adminVars
  <1>7. ASSUME UNCHANGED siteVars PROVE RestInv'
    BY <1>7 DEF siteVars, tables, adminVars, RestInv
  <1> QED
    BY <1>1, <1>2, <1>3, <1>4, <1>5, <1>6, <1>7 DEF Next

LEMMA TypesHold == Spec => [](RowsInv /\ RestInv)
  <1>1. Init => RowsInv /\ RestInv
    <2>1. NoCount \in Tallies
      BY DEF NoCount, Tallies, Counts
    <2>2. Init => RowsInv
      BY <2>1 DEF Init, RowsInv
    <2>3. Init => RestInv
      <3>1. NoReq.at = "none"
        BY DEF NoReq
      <3>2. 0 \in 0..MaxPolls /\ 0 \in 0..MaxMarks
        BY SiteAssumption
      <3> QED BY <3>1, <3>2 DEF Init, RestInv
    <2> QED BY <2>2, <2>3
  <1>2. RowsInv /\ RestInv /\ [Next]_siteVars => (RowsInv /\ RestInv)'
    BY RowsStep, RestStep
  <1> QED
    BY <1>1, <1>2, PTL DEF Spec

(* The tables and what the request has read have their types; no server    *)
(* has more confirmed downs than it has had after its first.               *)
THEOREM SiteTypeCorrect == Spec => []TypeOK
  <1>1. AnswerInv /\ RowsInv /\ RestInv => TypeOK
    <2> SUFFICES ASSUME AnswerInv, RowsInv, RestInv PROVE TypeOK
      OBVIOUS
    <2>1. answer.code \in {0, 200, 404, 502}
      BY CodeType DEF AnswerInv, NoAnswer, Answer
    <2>2. \A k \in DOMAIN listed : listed[k].sid \in Sids
      BY ListedAreSids DEF ListedSids
    <2>3. \A s \in Sids : daily[s] \in [up : Nat, down : Nat, conf : Nat]
                          /\ (daily[s].conf = 0 \/ daily[s].conf < daily[s].down)
      BY DEF RowsInv, Tallies, Counts
    <2> QED BY <2>1, <2>2, <2>3 DEF RowsInv, RestInv, TypeOK
  <1> QED
    BY <1>1, AnswersHold, TypesHold, PTL

-----------------------------------------------------------------------------
(* The rows.                                                               *)

(* The servers the last poll has written.                                  *)
Fresh == {s \in Rows(current) : current[s].ts = last_poll_ts}
IsRow(r, s, last) ==
  /\ r.seq \in Nat /\ r.ts \in 1..last
  /\ Len(Nodes[ItemOf(s)]) = 1 => r.grp = NoGrp
  /\ Len(Nodes[ItemOf(s)]) # 1 => r.grp \in {Name(ItemOf(s)), TagName(ItemOf(s))}
RowsOnly(cur, last) == \A s \in Sids : cur[s] = NoRow \/ IsRow(cur[s], s, last)
(* A poll writes all nodes of a server or none, and of one name.           *)
FreshWhole ==
  \A s \in Fresh : \A t \in ToSet(Nodes[ItemOf(s)]) :
    t \in Fresh /\ groupDisplay(current[t]) = groupDisplay(current[s])
(* No sample is younger than its row, and that of the last poll agrees.    *)
SamplesInv ==
  \A s \in Sids :
    /\ \A x \in samples[s] : x[1] <= current[s].ts
    /\ s \in Fresh => (current[s].online <=> <<last_poll_ts, TRUE>> \in samples[s])
(* What a request has read of the last poll is still so.                   *)
ReadInv ==
  req.at # "none" =>
    /\ RowsOnly(req.current, last_poll_ts)
    /\ (last_poll_ts > 0 /\ req.polled = last_poll_ts) =>
         \A s \in Sids : (req.current[s].ts = last_poll_ts \/ current[s].ts = last_poll_ts)
                           => req.current[s] = current[s]

LEMMA ItemOfSid ==
  \A s \in Sids : ItemOf(s) \in Items /\ s \in ToSet(Nodes[ItemOf(s)])
  BY DEF Sids, ItemOf

LEMMA ItemOfNode ==
  ASSUME ServersApart, NEW i \in Items, NEW s \in ToSet(Nodes[i])
  PROVE  s \in Sids /\ ItemOf(s) = i
  <1>1. s \in Sids
    BY DEF Sids
  <1> QED
    BY <1>1, ItemOfSid DEF ServersApart

LEMMA OneNode ==
  ASSUME NEW i \in Items, Len(Nodes[i]) = 1, NEW s \in ToSet(Nodes[i]), NEW t \in ToSet(Nodes[i])
  PROVE  s = t
  <1>1. DOMAIN Nodes[i] = 1..1
    BY ProxyLaw
  <1>2. PICK n : n = Nodes[i]
    OBVIOUS
  <1>3. \A x \in ToSet(n) : x = n[1]
    BY <1>1, <1>2 DEF ToSet
  <1> QED
    BY <1>2, <1>3

(* How the checker lists the answer got.                                   *)
IsListed(got, s) ==
  /\ seq(s) \in Nat
  /\ groupDisplay(listed[seq(s)]) = Called(got, ItemOf(s))
  /\ Len(Nodes[ItemOf(s)]) = 1 => listed[seq(s)].grp = NoGrp
  /\ Len(Nodes[ItemOf(s)]) # 1 => listed[seq(s)].grp = Called(got, ItemOf(s))
Lists(got) ==
  \A s \in Sids : /\ s \in ListedSids <=> ItemOf(s) \in ToSet(Offered(got))
                  /\ s \in ListedSids => IsListed(got, s)

LEMMA CalledType == \A got, i : Called(got, i) \in {Name(i), TagName(i)} /\ Called(got, i) # NoGrp
  BY NamesOf DEF Called, MergedName, NoGrp

LEMMA ListedLaw ==
  ASSUME ServersApart, AnswerInv
  PROVE  ListedSids = {} \/ \E got \in Gots : sub(got).code = 200 /\ Lists(got)
  <1>1. CASE listed = <<>>
    BY <1>1 DEF ListedSids
  <1>2. ASSUME NEW got \in Gots, sub(got).code = 200, listed = Listing(sub(got).served)
        PROVE  Lists(got)
    <2>1. IsListing(got, listed)
      BY <1>2, ListingLaw
    <2>2. ToSet(Offered(got)) \subseteq Items
      BY <1>2, ServedEach DEF ToSet
    <2>3. ASSUME NEW s \in Sids, ItemOf(s) \in ToSet(Offered(got)) PROVE s \in ListedSids
      BY <2>1, <2>3, ItemOfSid DEF IsListing, ListedSids
    <2>4. ASSUME NEW s \in Sids, s \in ListedSids
          PROVE  ItemOf(s) \in ToSet(Offered(got)) /\ IsListed(got, s)
      <3>1. PICK k : k = seq(s)
        OBVIOUS
      <3>2. k \in DOMAIN listed /\ listed[k].sid = s /\ k \in Nat
        BY <2>1, <2>4, <3>1 DEF seq, ListedSids, IsListing
      <3>3. PICK i \in ToSet(Offered(got)) : IsNode(got, listed[k], i)
        BY <2>1, <3>2 DEF IsListing
      <3>4. i = ItemOf(s)
        BY <2>2, <3>2, <3>3, ItemOfNode DEF IsNode
      <3>5. groupDisplay(listed[k]) = Called(got, i)
        <4>1. CASE Len(Nodes[i]) = 1
          BY <3>3, <4>1 DEF IsNode, groupDisplay
        <4>2. CASE Len(Nodes[i]) # 1
          BY <3>3, <4>2, CalledType DEF IsNode, groupDisplay
        <4> QED BY <4>1, <4>2
      <3> QED BY <3>1, <3>2, <3>3, <3>4, <3>5 DEF IsNode, IsListed
    <2> QED BY <2>3, <2>4 DEF Lists
  <1> QED
    BY <1>1, <1>2 DEF AnswerInv

-----------------------------------------------------------------------------
(* A poll, and the consolidation after it.                                 *)

LEMMA PollRows ==
  ASSUME RowsInv, RestInv, NEW on \in SUBSET ListedSids, Poll(on)
  PROVE  /\ last_poll_ts \in Nat /\ last_poll_ts' = last_poll_ts + 1 /\ last_poll_ts' > 0
         /\ \A s \in Sids : current[s].ts \in 0..last_poll_ts
         /\ \A s \in ListedSids : s \in Sids =>
              /\ current'[s].name = listed[seq(s)].name /\ current'[s].grp = listed[seq(s)].grp
              /\ current'[s].online <=> s \in on
              /\ current'[s].ts = last_poll_ts' /\ current'[s].seq = seq(s)
         /\ \A s \in Sids : s \notin ListedSids => current'[s] = current[s]
         /\ NoRow.ts = 0
         /\ \A s \in Sids : s \in Fresh' <=> s \in ListedSids
         /\ Fresh' \subseteq Sids
  <1>1. last_poll_ts \in Nat /\ last_poll_ts' = last_poll_ts + 1 /\ last_poll_ts' > 0
    BY SiteAssumption DEF RestInv, Poll
  <1>2. NoRow.ts = 0
    BY DEF NoRow
  <1>3. \A s \in Sids : current[s].ts \in 0..last_poll_ts
    <2>1. \A s \in Sids : current[s] = NoRow \/ current[s].ts \in 1..last_poll_ts
      BY DEF RowsInv
    <2>2. 0 \in 0..last_poll_ts /\ 1..last_poll_ts \subseteq 0..last_poll_ts
      BY <1>1
    <2> QED BY <1>2, <2>1, <2>2
  <1>4. ASSUME NEW s \in ListedSids, s \in Sids
        PROVE  /\ current'[s].name = listed[seq(s)].name /\ current'[s].grp = listed[seq(s)].grp
               /\ current'[s].online <=> s \in on
               /\ current'[s].ts = last_poll_ts' /\ current'[s].seq = seq(s)
    <2>1. current'[s] = Row(s, on)
      BY <1>4 DEF Poll
    <2>2. Row(s, on).name = listed[seq(s)].name /\ Row(s, on).grp = listed[seq(s)].grp
          /\ Row(s, on).ts = last_poll_ts' /\ Row(s, on).seq = seq(s)
      BY DEF Row
    <2>3. Row(s, on).online <=> s \in on
      BY DEF Row
    <2> QED BY <2>1, <2>2, <2>3
  <1>5. \A s \in Sids : s \notin ListedSids => current'[s] = current[s]
    BY DEF Poll
  <1>6. Fresh' = {s \in Sids : current'[s] # NoRow /\ current'[s].ts = last_poll_ts'}
    BY DEF Fresh, Rows, Sids
  <1>7. \A s \in Sids : s \in Fresh' <=> s \in ListedSids
    <2>1. ASSUME NEW s \in Sids, s \in ListedSids PROVE s \in Fresh'
      BY <1>1, <1>2, <1>4, <1>6, <2>1
    <2>2. ASSUME NEW s \in Sids, s \notin ListedSids PROVE s \notin Fresh'
      BY <1>1, <1>3, <1>5, <1>6, <2>2
    <2> QED BY <2>1, <2>2
  <1> QED
    BY <1>1, <1>2, <1>3, <1>4, <1>5, <1>6, <1>7

(* Of the rows of a name one has been polled last.                         *)
LEMMA CanonLaw ==
  ASSUME RowsInv, RestInv, NEW g \in Rows(current)
  PROVE  canon(g) \in byName(g) /\ \A r \in byName(g) : current[r].ts <= current[canon(g)].ts
  <1>1. byName(g) \subseteq Rows(current) /\ g \in byName(g)
    BY DEF byName
  <1>2. last_poll_ts \in Nat
    BY SiteAssumption DEF RestInv
  <1>3. \A r \in byName(g) : current[r].ts \in Nat /\ last_poll_ts - current[r].ts \in Nat
    <2>1. \A r \in byName(g) : current[r].ts \in 1..last_poll_ts
      BY <1>1 DEF RowsInv, Rows
    <2> QED BY <1>2, <2>1
  <1> DEFINE N == {last_poll_ts - current[r].ts : r \in byName(g)}
  <1>4. PICK m \in N : \A n \in N : m <= n
    <2>1. N \subseteq Nat /\ N # {}
      BY <1>1, <1>3
    <2> HIDE DEF N
    <2> QED BY <2>1, LeastNumber
  <1>5. PICK t \in byName(g) : m = last_poll_ts - current[t].ts
    BY <1>4
  <1>6. \A r \in byName(g) : current[r].ts <= current[t].ts
    <2> SUFFICES ASSUME NEW r \in byName(g) PROVE current[r].ts <= current[t].ts
      OBVIOUS
    <2>1. last_poll_ts - current[t].ts <= last_poll_ts - current[r].ts
      BY <1>4, <1>5
    <2> QED BY <1>2, <1>3, <2>1
  <1> QED
    BY <1>5, <1>6 DEF canon

LEMMA MergeRows ==
  ASSUME RowsInv, RestInv, ConsolidateByName
  PROVE  /\ last_poll_ts' = last_poll_ts /\ last_poll_ts \in Nat
         /\ Gone \subseteq Rows(current)
         /\ \A s \in Sids : current'[s] = IF s \in Gone THEN NoRow ELSE current[s]
         /\ \A s \in Fresh : s \in Sids /\ s \notin Gone
         /\ Fresh' = Fresh
         /\ \A g \in Gone : current[g].ts < last_poll_ts /\ current[g].ts \in Nat
  <1>1. last_poll_ts' = last_poll_ts /\ last_poll_ts \in Nat
    BY SiteAssumption DEF ConsolidateByName, RestInv
  <1>2. \A s \in Sids : current'[s] = IF s \in Gone THEN NoRow ELSE current[s]
    BY DEF ConsolidateByName
  <1>3. \A g \in Gone : current[g].ts < last_poll_ts /\ current[g].ts \in Nat /\ g \in Rows(current)
    <2>1. \A r \in Rows(current) : current[r].ts \in 1..last_poll_ts
      BY DEF RowsInv, Rows
    <2> QED BY <1>1, <2>1 DEF Gone
  <1>4. \A s \in Fresh : s \in Sids /\ s \notin Gone /\ current[s].ts = last_poll_ts
    <2>1. \A s \in Fresh : s \in Sids /\ current[s].ts = last_poll_ts
      BY DEF Fresh, Rows
    <2> QED BY <1>1, <1>3, <2>1
  <1>5. Fresh' = {s \in Sids : current'[s] # NoRow /\ current'[s].ts = last_poll_ts}
    BY <1>1 DEF Fresh, Rows, Sids
  <1>6. Fresh = {s \in Sids : current[s] # NoRow /\ current[s].ts = last_poll_ts}
    BY DEF Fresh, Rows
  <1>7. Fresh' = Fresh
    BY <1>2, <1>4, <1>5, <1>6
  <1> QED
    BY <1>1, <1>2, <1>3, <1>4, <1>7

LEMMA RowsOnlyLater ==
  ASSUME NEW cur, NEW last \in Nat, RowsOnly(cur, last)
  PROVE  RowsOnly(cur, last + 1)
  <1>1. 1..last \subseteq 1..(last + 1)
    OBVIOUS
  <1> QED
    BY <1>1 DEF RowsOnly, IsRow

LEMMA PollKeepsPage ==
  ASSUME ServersApart, AnswerInv, RowsInv, RestInv, NEW on \in SUBSET ListedSids, Poll(on),
         RowsOnly(current, last_poll_ts), SamplesInv, ReadInv,
         req.at # "none" => req.polled \in 0..last_poll_ts
  PROVE  RowsOnly(current', last_poll_ts') /\ FreshWhole' /\ SamplesInv' /\ ReadInv'
  <1>1. PICK got : ListedSids = {} \/ (got \in Gots /\ sub(got).code = 200 /\ Lists(got))
    BY ListedLaw
  <1>2. /\ last_poll_ts \in Nat /\ last_poll_ts' = last_poll_ts + 1 /\ last_poll_ts' > 0
        /\ \A s \in Sids : current[s].ts \in 0..last_poll_ts
        /\ \A s \in ListedSids : s \in Sids =>
             /\ current'[s].name = listed[seq(s)].name /\ current'[s].grp = listed[seq(s)].grp
             /\ current'[s].online <=> s \in on
             /\ current'[s].ts = last_poll_ts' /\ current'[s].seq = seq(s)
        /\ \A s \in Sids : s \notin ListedSids => current'[s] = current[s]
        /\ \A s \in Sids : s \in Fresh' <=> s \in ListedSids
        /\ Fresh' \subseteq Sids
    BY PollRows
  <1>3. RowsOnly(current', last_poll_ts')
    <2> SUFFICES ASSUME NEW s \in Sids PROVE current'[s] = NoRow \/ IsRow(current'[s], s, last_poll_ts')
      BY DEF RowsOnly
    <2>1. CASE s \in ListedSids
      <3>1. IsListed(got, s)
        BY <1>1, <2>1 DEF Lists
      <3>2. last_poll_ts' \in 1..last_poll_ts'
        BY <1>2
      <3> QED BY <1>2, <2>1, <3>1, <3>2, CalledType DEF IsListed, IsRow
    <2>2. CASE s \notin ListedSids
      <3>1. RowsOnly(current, last_poll_ts')
        BY <1>2, RowsOnlyLater
      <3> QED BY <1>2, <2>2, <3>1 DEF RowsOnly
    <2> QED BY <2>1, <2>2
  <1>4. FreshWhole'
    <2> SUFFICES ASSUME NEW s \in Fresh', NEW t \in ToSet(Nodes[ItemOf(s)])
                 PROVE  t \in Fresh' /\ groupDisplay(current'[t]) = groupDisplay(current'[s])
      BY DEF FreshWhole
    <2>1. s \in Sids /\ s \in ListedSids
      BY <1>2
    <2>2. t \in Sids /\ ItemOf(t) = ItemOf(s)
      BY <2>1, ItemOfSid, ItemOfNode
    <2>3. t \in ListedSids /\ IsListed(got, s) /\ IsListed(got, t)
      BY <1>1, <2>1, <2>2 DEF Lists
    <2>4. groupDisplay(current'[t]) = groupDisplay(listed[seq(t)])
          /\ groupDisplay(current'[s]) = groupDisplay(listed[seq(s)])
      BY <1>2, <2>1, <2>2, <2>3 DEF groupDisplay
    <2> QED BY <1>2, <2>2, <2>3, <2>4 DEF IsListed
  <1>5. SamplesInv'
    <2> SUFFICES ASSUME NEW s \in Sids
                 PROVE  /\ \A x \in samples'[s] : x[1] <= current'[s].ts
                        /\ s \in Fresh' => (current'[s].online <=> <<last_poll_ts', TRUE>> \in samples'[s])
      BY DEF SamplesInv, Sids
    <2>1. samples[s] \subseteq (1..last_poll_ts) \X BOOLEAN /\ \A x \in samples[s] : x[1] <= current[s].ts
      BY DEF RowsInv, SamplesInv
    <2>2. CASE s \in ListedSids
      <3>1. samples'[s] = samples[s] \cup {<<last_poll_ts', s \in on>>}
        BY <2>2 DEF Poll
      <3>2. \A x \in samples[s] : x[1] \in 1..last_poll_ts
        BY <2>1
      <3>3. \A x \in samples[s] : x[1] <= last_poll_ts' /\ x[1] # last_poll_ts'
        BY <1>2, <3>2
      <3>4. \A x \in samples'[s] : x[1] <= current'[s].ts
        <4>1. \A x \in samples'[s] : x \in samples[s] \/ x[1] = last_poll_ts'
          BY <3>1
        <4> QED BY <1>2, <2>2, <3>3, <4>1
      <3>5. <<last_poll_ts', TRUE>> \notin samples[s]
        BY <3>3
      <3>6. s \in on <=> <<last_poll_ts', TRUE>> \in samples'[s]
        <4>1. CASE s \in on
          <5>1. <<last_poll_ts', s \in on>> = <<last_poll_ts', TRUE>>
            BY <4>1
          <5> QED BY <3>1, <4>1, <5>1
        <4>2. CASE s \notin on
          <5>0. (s \in on) = FALSE
            BY <4>2
          <5>1. <<last_poll_ts', s \in on>> = <<last_poll_ts', FALSE>>
            BY <5>0, Zenon
          <5>2. <<last_poll_ts', FALSE>> # <<last_poll_ts', TRUE>>
            OBVIOUS
          <5> QED BY <3>1, <3>5, <4>2, <5>1, <5>2
        <4> QED BY <4>1, <4>2
      <3> QED BY <1>2, <2>2, <3>4, <3>6
    <2>3. CASE s \notin ListedSids
      <3>1. samples'[s] = samples[s] /\ current'[s] = current[s] /\ s \notin Fresh'
        BY <1>2, <2>3 DEF Poll
      <3> QED BY <2>1, <3>1
    <2> QED BY <2>2, <2>3
  <1>6. ReadInv'
    <2>1. req' = req
      BY DEF Poll
    <2>2. req.at # "none" => RowsOnly(req.current, last_poll_ts') /\ req.polled # last_poll_ts'
      <3>1. \A n \in 0..last_poll_ts : n # last_poll_ts'
        BY <1>2
      <3> QED BY <1>2, <3>1, RowsOnlyLater DEF ReadInv
    <2> QED BY <2>1, <2>2 DEF ReadInv, Sids
  <1> QED
    BY <1>3, <1>4, <1>5, <1>6

LEMMA MergeKeepsPage ==
  ASSUME RowsInv, RestInv, ConsolidateByName,
         RowsOnly(current, last_poll_ts), FreshWhole, SamplesInv, ReadInv
  PROVE  RowsOnly(current', last_poll_ts') /\ FreshWhole' /\ SamplesInv' /\ ReadInv'
  <1>1. /\ last_poll_ts' = last_poll_ts /\ last_poll_ts \in Nat
        /\ Gone \subseteq Rows(current)
        /\ \A s \in Sids : current'[s] = IF s \in Gone THEN NoRow ELSE current[s]
        /\ \A s \in Fresh : s \in Sids /\ s \notin Gone
        /\ Fresh' = Fresh
        /\ \A g \in Gone : current[g].ts < last_poll_ts /\ current[g].ts \in Nat
    BY MergeRows
  <1>2. RowsOnly(current', last_poll_ts')
    BY <1>1 DEF RowsOnly
  <1>3. FreshWhole'
    <2> SUFFICES ASSUME NEW s \in Fresh', NEW t \in ToSet(Nodes[ItemOf(s)])
                 PROVE  t \in Fresh' /\ groupDisplay(current'[t]) = groupDisplay(current'[s])
      BY DEF FreshWhole
    <2>1. s \in Fresh /\ t \in Fresh /\ groupDisplay(current[t]) = groupDisplay(current[s])
      BY <1>1 DEF FreshWhole
    <2> QED BY <1>1, <2>1
  <1>4. SamplesInv'
    <2> SUFFICES ASSUME NEW s \in Sids
                 PROVE  /\ \A x \in samples'[s] : x[1] <= current'[s].ts
                        /\ s \in Fresh' => (current'[s].online <=> <<last_poll_ts', TRUE>> \in samples'[s])
      BY DEF SamplesInv, Sids
    <2>1. CASE s \in Gone
      <3>1. samples'[s] = {} /\ s \notin Fresh'
        BY <1>1, <2>1 DEF ConsolidateByName
      <3> QED BY <3>1
    <2>2. CASE s \notin Gone
      <3>1. samples'[s] = samples[s] \cup UNION {samples[g] : g \in GoneInto(s)} /\ current'[s] = current[s]
        BY <1>1, <2>2 DEF ConsolidateByName
      <3>2. ASSUME NEW g \in GoneInto(s), NEW x \in samples[g]
            PROVE  x[1] <= current[s].ts /\ x[1] < last_poll_ts
        <4>1. g \in Gone /\ canon(g) = s /\ g \in Rows(current) /\ g \in Sids
          BY <1>1 DEF GoneInto, Rows
        <4>2. s \in byName(g) /\ g \in byName(g) /\ current[g].ts <= current[s].ts
          BY <4>1, CanonLaw DEF byName
        <4>3. current[s].ts \in Nat /\ current[g].ts \in Nat /\ current[g].ts < last_poll_ts
          <5>1. \A r \in Rows(current) : current[r].ts \in 1..last_poll_ts
            BY DEF RowsInv, Rows
          <5>2. s \in Rows(current)
            BY <4>2 DEF byName
          <5> QED BY <1>1, <4>1, <5>1, <5>2
        <4>4. x[1] <= current[g].ts /\ x[1] \in Nat
          <5>1. x \in (1..last_poll_ts) \X BOOLEAN
            BY <4>1 DEF RowsInv
          <5> QED BY <4>1, <5>1 DEF SamplesInv
        <4> QED BY <1>1, <4>2, <4>3, <4>4
      <3>3. \A x \in samples'[s] : x[1] <= current'[s].ts
        BY <3>1, <3>2 DEF SamplesInv
      <3>4. <<last_poll_ts, TRUE>> \in samples'[s] <=> <<last_poll_ts, TRUE>> \in samples[s]
        <4>1. \A g \in GoneInto(s) : <<last_poll_ts, TRUE>> \notin samples[g]
          BY <1>1, <3>2
        <4> QED BY <3>1, <4>1
      <3> QED BY <1>1, <3>1, <3>3, <3>4 DEF SamplesInv
    <2> QED BY <2>1, <2>2
  <1>5. ReadInv'
    <2> SUFFICES ASSUME req.at # "none"
                 PROVE  /\ RowsOnly(req.current, last_poll_ts)
                        /\ (last_poll_ts > 0 /\ req.polled = last_poll_ts) =>
                             \A s \in Sids : (req.current[s].ts = last_poll_ts \/ current'[s].ts = last_poll_ts)
                                               => req.current[s] = current'[s]
      <3>1. req' = req
        BY DEF ConsolidateByName
      <3> QED BY <1>1, <3>1 DEF ReadInv, Sids
    <2>1. RowsOnly(req.current, last_poll_ts)
      BY DEF ReadInv
    <2>2. ASSUME last_poll_ts > 0, req.polled = last_poll_ts, NEW s \in Sids,
                 req.current[s].ts = last_poll_ts \/ current'[s].ts = last_poll_ts
          PROVE  req.current[s] = current'[s]
      <3>1. NoRow.ts = 0
        BY DEF NoRow
      <3>2. current[s].ts = last_poll_ts => s \notin Gone
        BY <1>1
      <3>3. current'[s].ts = last_poll_ts => s \notin Gone
        BY <1>1, <2>2, <3>1
      <3>4. req.current[s] = current[s]
        BY <1>1, <2>2, <3>3 DEF ReadInv
      <3> QED BY <1>1, <2>2, <3>2, <3>3, <3>4
    <2> QED BY <2>1, <2>2
  <1> QED
    BY <1>2, <1>3, <1>4, <1>5

PolledInv == req.at # "none" => req.polled \in 0..last_poll_ts
PageInv == RowsOnly(current, last_poll_ts) /\ FreshWhole /\ SamplesInv /\ ReadInv /\ PolledInv

LEMMA PageStep ==
  ASSUME ServersApart, AnswerInv, RowsInv, RestInv, PageInv, [Next]_siteVars
  PROVE  PageInv'
  <1>1. ASSUME UNCHANGED tables, UNCHANGED req PROVE PageInv'
    <2>1. UNCHANGED <<current, samples, last_poll_ts, req>>
      BY <1>1 DEF tables
    <2>2. Fresh' = Fresh
      BY <2>1 DEF Fresh, Rows, Sids
    <2>3. RowsOnly(current, last_poll_ts)'
      BY <2>1 DEF PageInv, RowsOnly, IsRow, Sids, ItemOf
    <2>4. FreshWhole' /\ SamplesInv'
      BY <2>1, <2>2 DEF PageInv, FreshWhole, SamplesInv, ItemOf, Sids
    <2>5. ReadInv' /\ PolledInv'
      BY <2>1 DEF PageInv, ReadInv, PolledInv, RowsOnly, IsRow, Sids, ItemOf
    <2> QED BY <2>3, <2>4, <2>5 DEF PageInv
  <1>2. ASSUME NEW on \in SUBSET ListedSids, Poll(on) PROVE PageInv'
    <2>1. RowsOnly(current', last_poll_ts') /\ FreshWhole' /\ SamplesInv' /\ ReadInv'
      BY <1>2, PollKeepsPage DEF PageInv, PolledInv
    <2>2. PolledInv'
      <3>1. req' = req /\ last_poll_ts \in Nat /\ last_poll_ts' = last_poll_ts + 1
        BY <1>2, PollRows DEF Poll
      <3>2. 0..last_poll_ts \subseteq 0..last_poll_ts'
        BY <3>1
      <3> QED BY <3>1, <3>2 DEF PolledInv, PageInv
    <2> QED BY <2>1, <2>2 DEF PageInv
  <1>3. ASSUME ConsolidateByName PROVE PageInv'
    <2>1. RowsOnly(current', last_poll_ts') /\ FreshWhole' /\ SamplesInv' /\ ReadInv'
      BY <1>3, MergeKeepsPage DEF PageInv
    <2>2. PolledInv'
      BY <1>3 DEF ConsolidateByName, PageInv, PolledInv
    <2> QED BY <2>1, <2>2 DEF PageInv
  <1>4. ASSUME CurrentRows \/ DailyRows \/ HiddenSet \/ summary PROVE PageInv'
    <2>1. UNCHANGED <<current, samples, last_poll_ts>>
      BY <1>4, TablesOnly DEF tables
    <2>2. Fresh' = Fresh
      BY <2>1 DEF Fresh, Rows, Sids
    <2>3. RowsOnly(current, last_poll_ts)'
      BY <2>1 DEF PageInv, RowsOnly, IsRow, Sids, ItemOf
    <2>4. FreshWhole' /\ SamplesInv'
      BY <2>1, <2>2 DEF PageInv, FreshWhole, SamplesInv, ItemOf, Sids
    <2>5. \/ req'.at = "none"
          \/ req'.current = current /\ req'.polled = last_poll_ts
          \/ req'.current = req.current /\ req'.polled = req.polled /\ req.at # "none"
      <3>1. DOMAIN req = {"at", "polled", "current", "daily", "hidden"}
        BY DEF RestInv, NoReq
      <3>2. CurrentRows => req'.current = current /\ req'.polled = last_poll_ts
        BY DEF CurrentRows, Visit, NoReq
      <3>3. DailyRows => req'.current = req.current /\ req'.polled = req.polled /\ req.at # "none"
        BY <3>1 DEF DailyRows, Visit
      <3>4. HiddenSet => req'.current = req.current /\ req'.polled = req.polled /\ req.at # "none"
        BY <3>1 DEF HiddenSet, Visit
      <3>5. summary => req'.at = "none"
        BY DEF summary, Visit, NoReq
      <3> QED BY <1>4, <3>2, <3>3, <3>4, <3>5
    <2>6. last_poll_ts \in 0..last_poll_ts
      BY SiteAssumption DEF RestInv
    <2>7. PolledInv'
      BY <2>1, <2>5, <2>6 DEF PageInv, PolledInv
    <2>8. ReadInv'
      BY <2>1, <2>3, <2>5 DEF PageInv, ReadInv, RowsOnly, IsRow, Sids, ItemOf
    <2> QED BY <2>3, <2>4, <2>7, <2>8 DEF PageInv
  <1>5. UNCHANGED siteVars => UNCHANGED tables /\ UNCHANGED req
    BY DEF siteVars
  <1> QED
    BY <1>1, <1>2, <1>3, <1>4, <1>5, TablesOnly DEF Next

LEMMA PageHolds == ServersApart /\ Spec => [](AnswerInv /\ RowsInv /\ RestInv /\ PageInv)
  <1>1. Init => PageInv
    <2>1. Init => RowsOnly(current, last_poll_ts)
      BY DEF Init, RowsOnly
    <2>2. Init => Fresh = {}
      BY DEF Init, Fresh, Rows
    <2>3. Init => FreshWhole /\ SamplesInv
      BY <2>2 DEF Init, FreshWhole, SamplesInv
    <2>4. Init => req.at = "none"
      BY DEF Init, NoReq
    <2> QED BY <2>1, <2>3, <2>4 DEF PageInv, ReadInv, PolledInv
  <1>2. ServersApart /\ AnswerInv /\ RowsInv /\ RestInv /\ PageInv /\ [Next]_siteVars => PageInv'
    BY PageStep
  <1>3. ServersApart => [](ServersApart)
    <2>1. ServersApart => ServersApart'
      BY DEF ServersApart
    <2> QED BY <2>1, PTL
  <1> QED
    BY <1>1, <1>2, <1>3, AnswersHold, TypesHold, PTL DEF Spec

-----------------------------------------------------------------------------
(* The tiles.                                                              *)

LEMMA NotFew ==
  \A i \in Items : Len(Nodes[i]) # 1 /\ (\E s : s \in ToSet(Nodes[i])) => ~(Len(Nodes[i]) <= 1)
  <1>1. \A i \in Items : Len(Nodes[i]) \in Nat /\ DOMAIN Nodes[i] = 1..Len(Nodes[i])
    BY ProxyLaw
  <1>2. \A i \in Items : (\E s : s \in ToSet(Nodes[i])) => DOMAIN Nodes[i] # {}
    BY DEF ToSet
  <1>3. \A n \in Nat : n # 1 /\ 1..n # {} => ~(n <= 1)
    OBVIOUS
  <1> QED
    BY <1>1, <1>2, <1>3

(* The rows of a group are of one server.                                  *)
LEMMA GroupIsOfOne ==
  ASSUME ServersApart, NEW cur, NEW last, RowsOnly(cur, last),
         NEW s \in Rows(cur), NEW t \in Rows(cur), groupKey(cur, s) = groupKey(cur, t)
  PROVE  ItemOf(s) = ItemOf(t)
  <1>1. s \in Sids /\ t \in Sids /\ IsRow(cur[s], s, last) /\ IsRow(cur[t], t, last)
    BY DEF Rows, RowsOnly
  <1>2. \A x, y : /\ <<"g", x>> # <<"s", y>>
                  /\ <<"g", x>> = <<"g", y>> => x = y
                  /\ <<"s", x>> = <<"s", y>> => x = y
    <2> SUFFICES ASSUME NEW k, NEW m, NEW x, NEW y, <<k, x>> = <<m, y>> PROVE k = m /\ x = y
      OBVIOUS
    <2>1. <<k, x>>[1] = k /\ <<k, x>>[2] = x /\ <<m, y>>[1] = m /\ <<m, y>>[2] = y
      OBVIOUS
    <2> QED BY <2>1
  <1>3. CASE cur[s].grp = NoGrp
    <2>1. groupKey(cur, s) = <<"s", s>>
      BY <1>3 DEF groupKey
    <2>2. cur[t].grp = NoGrp
      BY <1>2, <2>1 DEF groupKey
    <2>3. groupKey(cur, t) = <<"s", t>>
      BY <2>2 DEF groupKey
    <2>4. ItemOf(s) = ItemOf(t)
      BY <1>2, <2>1, <2>3
    <2> QED BY <2>4
  <1>4. CASE cur[s].grp # NoGrp
    <2>1. groupKey(cur, s) = <<"g", cur[s].grp>>
      BY <1>4 DEF groupKey
    <2>2. cur[t].grp # NoGrp
      BY <1>2, <2>1 DEF groupKey
    <2>3. groupKey(cur, t) = <<"g", cur[t].grp>>
      BY <2>2 DEF groupKey
    <2>4. cur[s].grp = cur[t].grp
      BY <1>2, <2>1, <2>3
    <2>5. /\ ItemOf(s) \in Items /\ s \in ToSet(Nodes[ItemOf(s)])
          /\ ItemOf(t) \in Items /\ t \in ToSet(Nodes[ItemOf(t)])
      BY <1>1, ItemOfSid
    <2>6. Len(Nodes[ItemOf(s)]) # 1 /\ Len(Nodes[ItemOf(t)]) # 1
      BY <1>1, <1>4, <2>2 DEF IsRow
    <2>7. ~(Len(Nodes[ItemOf(s)]) <= 1) /\ ~(Len(Nodes[ItemOf(t)]) <= 1)
      BY <2>5, <2>6, NotFew
    <2>8. cur[s].grp[1] = Remark[ItemOf(s)] /\ cur[t].grp[1] = Remark[ItemOf(t)]
      BY <1>1, <2>6, NamesOf DEF IsRow
    <2> QED BY <2>4, <2>5, <2>7, <2>8 DEF ServersApart
  <1> QED
    BY <1>3, <1>4

(* A request that answers untorn has read what the last poll has written.  *)
ReadFresh(cur) == \A s \in Fresh : s \in Rows(cur) /\ cur[s] = current[s]

(* The group of a server that was polled are its nodes.                    *)
LEMMA GroupIsItem ==
  ASSUME ServersApart, NEW cur, NEW last, RowsOnly(cur, last), FreshWhole, ReadFresh(cur),
         NEW s \in Fresh
  PROVE  {t \in Rows(cur) : groupKey(cur, t) = groupKey(cur, s)} = ToSet(Nodes[ItemOf(s)])
  <1>1. s \in Sids /\ s \in Rows(cur) /\ cur[s] = current[s]
    BY DEF Fresh, Rows, ReadFresh
  <1>2. ItemOf(s) \in Items /\ s \in ToSet(Nodes[ItemOf(s)])
    BY <1>1, ItemOfSid
  <1>3. ASSUME NEW t \in Rows(cur), groupKey(cur, t) = groupKey(cur, s)
        PROVE  t \in ToSet(Nodes[ItemOf(s)])
    <2>1. ItemOf(t) = ItemOf(s)
      BY <1>1, <1>3, GroupIsOfOne
    <2>2. t \in Sids
      BY DEF Rows
    <2> QED BY <2>1, <2>2, ItemOfSid
  <1>4. ASSUME NEW t \in ToSet(Nodes[ItemOf(s)])
        PROVE  t \in Rows(cur) /\ groupKey(cur, t) = groupKey(cur, s)
    <2>1. t \in Fresh /\ groupDisplay(current[t]) = groupDisplay(current[s])
      BY DEF FreshWhole
    <2>2. t \in Rows(cur) /\ cur[t] = current[t]
      BY <2>1 DEF ReadFresh
    <2>3. CASE Len(Nodes[ItemOf(s)]) = 1
      <3>1. t = s
        BY <1>2, <2>3, OneNode
      <3> QED BY <2>2, <3>1
    <2>4. CASE Len(Nodes[ItemOf(s)]) # 1
      <3>1. ItemOf(t) = ItemOf(s) /\ t \in Sids
        BY <1>2, ItemOfNode
      <3>2. IsRow(cur[s], s, last) /\ IsRow(cur[t], t, last)
        BY <1>1, <2>2, <3>1 DEF RowsOnly, Rows
      <3>3. cur[s].grp # NoGrp /\ cur[t].grp # NoGrp
        BY <2>4, <3>1, <3>2, NamesOf DEF IsRow, NoGrp
      <3>4. cur[s].grp = cur[t].grp
        BY <1>1, <2>1, <2>2, <3>3 DEF groupDisplay
      <3> QED BY <2>2, <3>3, <3>4 DEF groupKey
    <2> QED BY <2>3, <2>4
  <1> QED
    BY <1>3, <1>4

(* Of rows of one time, the first of the answer is found.                  *)
LEMMA CanonIsMember ==
  ASSUME NEW cur, NEW last \in Nat, NEW ms, ms # {},
         \A s \in ms : cur[s].ts = last /\ cur[s].seq \in Nat
  PROVE  Canon(cur, ms) \in ms
  <1> DEFINE N == {cur[s].seq : s \in ms}
  <1>1. PICK m \in N : \A n \in N : m <= n
    <2>1. N \subseteq Nat /\ N # {}
      OBVIOUS
    <2> HIDE DEF N
    <2> QED BY <2>1, LeastNumber
  <1>2. PICK s \in ms : m = cur[s].seq
    BY <1>1
  <1>3. \A t \in ms : cur[s].ts > cur[t].ts \/ (cur[s].ts = cur[t].ts /\ cur[s].seq <= cur[t].seq)
    BY <1>1, <1>2
  <1> QED
    BY <1>3 DEF Canon

LEMMA TileLaw ==
  ASSUME NEW r, NEW ms
  PROVE  LET raw == groupDisplay(r.current[Canon(r.current, ms)])
         IN /\ Tile(r, ms).of = ms
            /\ Tile(r, ms).hidden <=> raw \in r.hidden
            /\ Tile(r, ms).absent <=> ~Active(r, ms)
            /\ Tile(r, ms).online <=> \E s \in ms : r.current[s].online
  <1>1. Tile(r, ms).of = ms
    BY DEF Tile
  <1>2. Tile(r, ms).hidden <=> groupDisplay(r.current[Canon(r.current, ms)]) \in r.hidden
    BY DEF Tile
  <1>3. Tile(r, ms).absent <=> ~Active(r, ms)
    BY DEF Tile
  <1>4. Tile(r, ms).online <=> Online(r.current, ms)
    BY DEF Tile
  <1> QED
    BY <1>1, <1>2, <1>3, <1>4 DEF Online

LEMMA PolledIs == Polled = {ItemOf(s) : s \in Fresh}
  BY DEF Polled, Fresh

(* The button of a server that was polled has the name of its rows.        *)
LEMMA ButtonOf ==
  ASSUME ServersApart, FreshWhole, NEW s \in Fresh
  PROVE  Button(ItemOf(s)) = groupDisplay(current[s])
  <1>1. s \in Rows(current) /\ Rows(current) \subseteq Sids
    BY DEF Fresh, Rows
  <1>2. PICK c : c = CHOOSE t \in Rows(current) : ItemOf(t) = ItemOf(s)
    OBVIOUS
  <1>3. c \in Rows(current) /\ ItemOf(c) = ItemOf(s)
    BY <1>1, <1>2
  <1>4. c \in ToSet(Nodes[ItemOf(s)])
    BY <1>1, <1>3, ItemOfSid
  <1>5. groupDisplay(current[c]) = groupDisplay(current[s])
    BY <1>4 DEF FreshWhole
  <1> QED
    BY <1>2, <1>5 DEF Button

(* The tiles of the page are those of the groups that are fresh, and whose *)
(* name is not hidden.                                                     *)
LEMMA TilesShown ==
  ASSUME last_poll_ts \in Nat, last_poll_ts > 0, NEW t, t \in Page(FALSE).tiles
  PROVE  /\ t.of \in Groups(req.current) /\ t = Tile(Read, t.of)
         /\ groupDisplay(req.current[Canon(req.current, t.of)]) \notin req.hidden
         /\ \E s \in t.of : req.current[s].ts >= last_poll_ts
  <1>1. PICK r : r = Read
    OBVIOUS
  <1>2. r.current = req.current /\ r.hidden = req.hidden /\ r.last = last_poll_ts
    BY <1>1 DEF Read
  <1>3. PICK ms \in Groups(r.current) : t = Tile(r, ms) /\ ~t.hidden /\ ~t.absent
    BY <1>1 DEF Page, BuildSummary
  <1>4. /\ t.of = ms
        /\ t.hidden <=> groupDisplay(r.current[Canon(r.current, ms)]) \in r.hidden
        /\ t.absent <=> ~Active(r, ms)
    BY <1>3, TileLaw
  <1>5. Active(r, ms)
    BY <1>3, <1>4
  <1>6. r.last # 0
    BY <1>2
  <1>7. \E s \in ms : r.current[s].ts >= r.last
    BY <1>5, <1>6 DEF Active
  <1> QED
    BY <1>1, <1>2, <1>3, <1>4, <1>7

LEMMA TilesAreShown ==
  ASSUME NEW ms \in Groups(req.current),
         groupDisplay(req.current[Canon(req.current, ms)]) \notin req.hidden,
         \E s \in ms : req.current[s].ts >= last_poll_ts
  PROVE  /\ Tile(Read, ms) \in Page(FALSE).tiles /\ Tile(Read, ms).of = ms
         /\ Tile(Read, ms).online <=> \E s \in ms : req.current[s].online
  <1>1. PICK r : r = Read
    OBVIOUS
  <1>2. r.current = req.current /\ r.hidden = req.hidden /\ r.last = last_poll_ts
    BY <1>1 DEF Read
  <1>3. Active(r, ms)
    BY <1>2 DEF Active
  <1>4. PICK t : t = Tile(r, ms)
    OBVIOUS
  <1>5. ~t.hidden /\ ~t.absent /\ t.of = ms /\ (t.online <=> \E s \in ms : r.current[s].online)
    BY <1>2, <1>3, <1>4, TileLaw
  <1>6. t \in Page(FALSE).tiles
    <2>1. t \in {Tile(r, g) : g \in Groups(r.current)}
      BY <1>2, <1>4
    <2> QED BY <1>1, <1>5, <2>1 DEF Page, BuildSummary
  <1> QED
    BY <1>1, <1>2, <1>4, <1>5, <1>6

LEMMA PageIsRight ==
  ASSUME ServersApart, RowsInv, RestInv, PageInv, Untorn, NEW i \in Items
  PROVE  IF i \in Polled /\ Button(i) \notin req.hidden
         THEN \E t \in TilesOf(i) : /\ TilesOf(i) = {t} /\ t.of = ToSet(Nodes[i])
                                    /\ t.online <=> Up(i)
         ELSE TilesOf(i) = {}
  <1> DEFINE cur == req.current
  <1>1. last_poll_ts \in Nat /\ last_poll_ts > 0 /\ req.at # "none"
    BY SiteAssumption DEF Untorn, Answers, RestInv
  <1>2. RowsOnly(cur, last_poll_ts) /\ FreshWhole /\ SamplesInv
    BY <1>1 DEF PageInv, ReadInv
  <1>3. \A s \in Sids : (cur[s].ts = last_poll_ts \/ current[s].ts = last_poll_ts) => cur[s] = current[s]
    BY <1>1 DEF PageInv, ReadInv, Untorn
  <1>4. Fresh = {s \in Sids : current[s] # NoRow /\ current[s].ts = last_poll_ts}
    BY DEF Fresh, Rows
  <1>5. ReadFresh(cur)
    BY <1>3, <1>4 DEF ReadFresh, Rows
  <1>6. \A s \in Rows(cur) : s \in Sids /\ (cur[s].ts >= last_poll_ts => s \in Fresh)
    <2> SUFFICES ASSUME NEW s \in Rows(cur) PROVE s \in Sids /\ (cur[s].ts >= last_poll_ts => s \in Fresh)
      OBVIOUS
    <2>1. s \in Sids /\ cur[s] # NoRow /\ cur[s].ts \in 1..last_poll_ts
      BY <1>2 DEF Rows, RowsOnly, IsRow
    <2>2. cur[s].ts >= last_poll_ts => cur[s].ts = last_poll_ts
      BY <1>1, <2>1
    <2> QED BY <1>3, <1>4, <2>1, <2>2
  <1>7. ASSUME NEW ms \in Groups(cur), NEW s \in ms
        PROVE  /\ s \in Rows(cur) /\ ms = {t \in Rows(cur) : groupKey(cur, t) = groupKey(cur, s)}
               /\ \A t \in ms : t \in Rows(cur) /\ ItemOf(t) = ItemOf(s)
    <2>1. PICK r \in Rows(cur) : ms = {t \in Rows(cur) : groupKey(cur, t) = groupKey(cur, r)}
      BY DEF Groups
    <2>2. s \in Rows(cur) /\ groupKey(cur, s) = groupKey(cur, r)
      BY <2>1
    <2>3. ms = {t \in Rows(cur) : groupKey(cur, t) = groupKey(cur, s)}
      BY <2>1, <2>2
    <2>4. ASSUME NEW t \in ms PROVE t \in Rows(cur) /\ ItemOf(t) = ItemOf(s)
      BY <1>2, <2>2, <2>3, GroupIsOfOne
    <2> QED BY <2>2, <2>3, <2>4
  <1> HIDE DEF cur
  (* A tile that is shown and has a node of i is that of i, which is fresh. *)
  <1>8. ASSUME NEW t \in TilesOf(i)
        PROVE  /\ i \in Polled /\ t.of = ToSet(Nodes[i]) /\ t = Tile(Read, t.of)
               /\ groupDisplay(cur[Canon(cur, t.of)]) \notin req.hidden
    <2>1. t \in Page(FALSE).tiles /\ t.of \cap ToSet(Nodes[i]) # {}
      BY DEF TilesOf
    <2>2. /\ t.of \in Groups(cur) /\ t = Tile(Read, t.of)
          /\ groupDisplay(cur[Canon(cur, t.of)]) \notin req.hidden
          /\ \E s \in t.of : cur[s].ts >= last_poll_ts
      BY <1>1, <2>1, TilesShown DEF cur
    <2>3. PICK s \in t.of : cur[s].ts >= last_poll_ts
      BY <2>2
    <2>4. PICK x \in t.of : x \in ToSet(Nodes[i])
      BY <2>1
    <2>5. ItemOf(x) = i
      BY <2>4, ItemOfNode
    <2>6. ItemOf(s) = i /\ s \in Fresh
      BY <1>6, <1>7, <2>2, <2>3, <2>4, <2>5
    <2>7. t.of = ToSet(Nodes[i])
      <3>1. t.of = {u \in Rows(cur) : groupKey(cur, u) = groupKey(cur, s)}
        BY <1>7, <2>2
      <3>2. {u \in Rows(cur) : groupKey(cur, u) = groupKey(cur, s)} = ToSet(Nodes[ItemOf(s)])
        BY <1>2, <1>5, <2>6, GroupIsItem
      <3> QED BY <2>6, <3>1, <3>2
    <2> QED BY <2>2, <2>6, <2>7, PolledIs
  <1>9. ASSUME i \in Polled
        PROVE  /\ ToSet(Nodes[i]) \in Groups(cur) /\ ToSet(Nodes[i]) # {}
               /\ \A s \in ToSet(Nodes[i]) : s \in Fresh /\ cur[s] = current[s] /\ cur[s].ts = last_poll_ts
               /\ groupDisplay(cur[Canon(cur, ToSet(Nodes[i]))]) = Button(i)
    <2>1. PICK s \in Fresh : ItemOf(s) = i
      BY <1>9, PolledIs
    <2>2. ToSet(Nodes[i]) = {t \in Rows(cur) : groupKey(cur, t) = groupKey(cur, s)}
      BY <1>2, <1>5, <2>1, GroupIsItem
    <2>3. s \in Rows(cur)
      BY <1>5, <2>1 DEF ReadFresh
    <2>4. \A t \in ToSet(Nodes[i]) : t \in Fresh /\ groupDisplay(current[t]) = groupDisplay(current[s])
      BY <1>2, <2>1 DEF FreshWhole
    <2>5. \A t \in ToSet(Nodes[i]) : cur[t] = current[t] /\ cur[t].ts = last_poll_ts /\ cur[t].seq \in Nat
      <3> SUFFICES ASSUME NEW t \in ToSet(Nodes[i])
                   PROVE  cur[t] = current[t] /\ cur[t].ts = last_poll_ts /\ cur[t].seq \in Nat
        OBVIOUS
      <3>1. t \in Fresh /\ t \in Rows(cur) /\ cur[t] = current[t] /\ t \in Sids
        BY <1>4, <1>5, <2>4 DEF ReadFresh
      <3>2. cur[t].ts = last_poll_ts
        BY <1>4, <3>1
      <3>3. cur[t].seq \in Nat
        BY <1>2, <3>1 DEF RowsOnly, IsRow, Rows
      <3> QED BY <3>1, <3>2, <3>3
    <2>6. ToSet(Nodes[i]) # {}
      BY <2>2, <2>3
    <2>7. PICK ms : ms = ToSet(Nodes[i])
      OBVIOUS
    <2>8. Canon(cur, ms) \in ms
      BY <1>1, <2>5, <2>6, <2>7, CanonIsMember
    <2>9. groupDisplay(cur[Canon(cur, ms)]) = groupDisplay(current[s])
      BY <2>4, <2>5, <2>7, <2>8
    <2>10. Button(i) = groupDisplay(current[s])
      BY <1>2, <2>1, ButtonOf
    <2> QED BY <2>2, <2>3, <2>4, <2>5, <2>6, <2>7, <2>9, <2>10 DEF Groups
  <1>10. CASE i \in Polled /\ Button(i) \notin req.hidden
    <2> DEFINE t == Tile(Read, ToSet(Nodes[i]))
    <2>1. PICK ms : ms = ToSet(Nodes[i])
      OBVIOUS
    <2>2. /\ ms \in Groups(cur) /\ groupDisplay(cur[Canon(cur, ms)]) \notin req.hidden
          /\ \E s \in ms : cur[s].ts >= last_poll_ts
          /\ \A s \in ms : s \in Fresh /\ cur[s] = current[s]
      BY <1>1, <1>9, <1>10, <2>1
    <2>3. /\ t \in Page(FALSE).tiles /\ t.of = ms
          /\ t.online <=> \E s \in ms : cur[s].online
      BY <2>1, <2>2, TilesAreShown DEF cur
    <2> HIDE DEF t
    <2>4. t \in TilesOf(i)
      BY <1>9, <1>10, <2>1, <2>3 DEF TilesOf
    <2>5. \A u \in TilesOf(i) : u = t
      BY <1>8 DEF t
    <2>6. \A s \in ms : cur[s].online <=> <<last_poll_ts, TRUE>> \in samples[s]
      BY <1>2, <1>4, <2>2 DEF SamplesInv
    <2>7. t.online <=> Up(i)
      BY <2>1, <2>3, <2>6 DEF Up
    <2> QED BY <1>10, <2>1, <2>3, <2>4, <2>5, <2>7
  <1>11. CASE ~(i \in Polled /\ Button(i) \notin req.hidden)
    <2>1. TilesOf(i) = {}
      BY <1>8, <1>9, <1>11
    <2> QED BY <1>11, <2>1
  <1> QED
    BY <1>10, <1>11

(* Where servers are told apart, the page of a request that no poll came   *)
(* between shows those of the last poll: see PageShowsListed.              *)
THEOREM PageIsListed == ServersApart /\ Spec => []PageShowsListed
  <1>1. ServersApart /\ RowsInv /\ RestInv /\ PageInv => PageShowsListed
    BY PageIsRight DEF PageShowsListed
  <1>2. ServersApart => [](ServersApart)
    <2>1. ServersApart => ServersApart'
      BY DEF ServersApart
    <2> QED BY <2>1, PTL
  <1> QED
    BY <1>1, <1>2, PageHolds, PTL

-----------------------------------------------------------------------------
(* Hiding.                                                                 *)

(* The name of a server among others.                                      *)
Display(i, I) == IF \E j \in I \ {i} : Remark[j] = Remark[i] THEN TagName(i) ELSE Name(i)
(* While the polls list the same servers, all rows are of the last poll,   *)
(* by names that stay, and a name is hidden if its server is.              *)
HidingInv ==
  steady =>
    /\ \A s \in Rows(current) : s \in Fresh /\ groupDisplay(current[s]) = Display(ItemOf(s), Polled)
    /\ \A i \in Polled : i \in hid <=> Display(i, Polled) \in hidden
    /\ last_poll_ts = 0 => hidden = {} /\ hid = {}

LEMMA TwinFacts ==
  ASSUME TwinsAreLinks
  PROVE  \A i, j \in Items : i # j /\ Remark[i] = Remark[j] =>
           Remark[i] # "" /\ Tag[i] # Tag[j] /\ Nodes[i] # <<>>
  BY DEF TwinsAreLinks

LEMMA TwinForms ==
  ASSUME TwinsAreLinks, NEW i \in Items, NEW j \in Items, i # j, Remark[i] = Remark[j],
         NEW u \in DOMAIN Upstream, NEW b \in Upstream[u], b.form \in JSONForms
  PROVE  i \notin ToSet(b.items)
  BY DEF TwinsAreLinks

LEMMA CalledIsDisplay ==
  ASSUME TwinsAreLinks, NEW got \in Gots, ToSet(Offered(got)) \subseteq Items,
         NEW i \in ToSet(Offered(got)), FilterJSON(got).ok => i \in ItemsOf(JSONOf(got)),
         NEW I, I \subseteq ToSet(Offered(got)),
         \A j \in ToSet(Offered(got)) : Nodes[j] # <<>> => j \in I
  PROVE  Called(got, i) = Display(i, I)
  <1>1. \A k, j \in Items : k # j /\ Remark[k] = Remark[j] => Remark[k] # "" /\ Nodes[k] # <<>>
    BY TwinFacts
  <1>2. CASE FilterJSON(got).ok
    <2>1. i \in ItemsOf(JSONOf(got))
      BY <1>2
    <2>2. PICK b \in JSONOf(got) : i \in ToSet(b.items)
      BY <2>1 DEF ItemsOf
    <2>3. b \in Bodies /\ b.form \in JSONForms
      BY <2>2, GotType DEF JSONOf
    <2>4. PICK u \in DOMAIN Upstream : b \in Upstream[u]
      BY <2>3 DEF Bodies
    <2>5. ASSUME NEW j \in I \ {i} PROVE Remark[j] # Remark[i]
      <3>1. i \in Items /\ j \in Items /\ i # j
        OBVIOUS
      <3> QED BY <2>2, <2>3, <2>4, <3>1, TwinForms
    <2> QED BY <1>2, <2>5 DEF Called, Display
  <1>3. CASE ~FilterJSON(got).ok
    <2>1. Offered(got) = Lines(got) /\ Called(got, i) = MergedName(got, i)
      BY <1>3 DEF Offered, Called
    <2>2. CASE \E j \in I \ {i} : Remark[j] = Remark[i]
      <3>1. PICK j \in I \ {i} : Remark[j] = Remark[i]
        BY <2>2
      <3>2. Remark[i] # ""
        <4>1. i \in Items /\ j \in Items /\ i # j
          BY <3>1
        <4> QED BY <1>1, <3>1, <4>1
      <3>3. remarkCount(got, Remark[i]) > 1
        BY <2>1, <3>1, TwinsCounted
      <3> QED BY <2>1, <2>2, <3>2, <3>3 DEF MergedName, Display
    <2>3. CASE ~ \E j \in I \ {i} : Remark[j] = Remark[i]
      <3>1. ASSUME NEW l \in ToSet(Lines(got)), Remark[l] = Remark[i] PROVE l = i
        <4>1. l # i => Nodes[l] # <<>>
          <5>1. i \in Items /\ l \in Items
            BY <2>1, <3>1
          <5> QED BY <1>1, <3>1, <5>1
        <4> QED BY <2>1, <2>3, <3>1, <4>1
      <3>2. {l \in ToSet(Lines(got)) : Remark[l] = Remark[i]} = {i}
        BY <2>1, <3>1
      <3>3. remarkCount(got, Remark[i]) = 1
        <4>1. remarkCount(got, Remark[i]) = Cardinality({l \in ToSet(Lines(got)) : Remark[l] = Remark[i]})
          BY DEF remarkCount
        <4>2. Cardinality({i}) = 1
          BY FS_Singleton
        <4> QED BY <3>2, <4>1, <4>2
      <3> QED BY <2>1, <2>3, <3>3 DEF MergedName, Display
    <2> QED BY <2>2, <2>3
  <1> QED
    BY <1>2, <1>3

LEMMA DisplayApart ==
  ASSUME TwinsAreLinks, NEW I, I \subseteq Items, NEW i \in I, NEW j \in I, i # j
  PROVE  Display(i, I) # Display(j, I)
  <1>1. Display(i, I)[1] = Remark[i] /\ Display(j, I)[1] = Remark[j]
    BY NamesOf DEF Display
  <1>2. CASE Remark[i] = Remark[j]
    <2>1. Display(i, I) = TagName(i) /\ Display(j, I) = TagName(j)
      BY <1>2 DEF Display
    <2>2. Tag[i] # Tag[j]
      <3>1. i \in Items /\ j \in Items
        OBVIOUS
      <3> QED BY <1>2, <3>1, TwinFacts
    <2>3. TagName(i)[2] = Tag[i] /\ TagName(j)[2] = Tag[j]
      BY DEF TagName
    <2> QED BY <2>1, <2>2, <2>3
  <1> QED
    BY <1>1, <1>2

LEMMA PolledItems == Polled \subseteq Items /\ Fresh \subseteq Sids /\ Fresh \subseteq Rows(current)
  <1>1. Fresh \subseteq Sids /\ Fresh \subseteq Rows(current)
    BY DEF Fresh, Rows
  <1> QED
    BY <1>1, PolledIs, ItemOfSid

(* What is listed, as items.                                               *)
ListedItems == {ItemOf(s) : s \in ListedSids}

LEMMA ListedDisplay ==
  ASSUME ServersApart, TwinsAreLinks, AnswerInv, NEW s \in ListedSids
  PROVE  /\ groupDisplay(listed[seq(s)]) = Display(ItemOf(s), ListedItems)
         /\ \A t \in Sids : ItemOf(t) \in ListedItems => t \in ListedSids
  <1>1. PICK got \in Gots : sub(got).code = 200 /\ Lists(got)
    BY ListedLaw
  <1>2. ListedSids \subseteq Sids
    BY ListedAreSids
  <1>3. \A t \in Sids : t \in ListedSids <=> ItemOf(t) \in ToSet(Offered(got))
    BY <1>1 DEF Lists
  <1>4. ListedItems \subseteq ToSet(Offered(got))
    BY <1>2, <1>3 DEF ListedItems
  <1>5. ASSUME NEW j \in ToSet(Offered(got)), Nodes[j] # <<>> PROVE j \in ListedItems
    <2>1. j \in Items
      BY <1>1, ServedEach DEF ToSet
    <2>2. PICK n : n = Nodes[j]
      OBVIOUS
    <2>3. n \in Seq(STRING) /\ n # <<>>
      BY <1>5, <2>1, <2>2, FeedAssumption
    <2>4. \E t : t \in ToSet(n)
      <3>1. Len(n) \in Nat /\ DOMAIN n = 1..Len(n) /\ Len(n) # 0
        BY <2>3, EmptySeq, LenProperties
      <3>2. 1 \in DOMAIN n
        BY <3>1
      <3> QED BY <3>2 DEF ToSet
    <2>5. PICK t \in ToSet(Nodes[j]) : TRUE
      BY <2>2, <2>4
    <2>6. t \in Sids /\ ItemOf(t) = j
      BY <2>1, <2>5, ItemOfNode
    <2> QED BY <1>3, <2>6 DEF ListedItems
  <1>6. IsListed(got, s) /\ ItemOf(s) \in ToSet(Offered(got))
    BY <1>1, <1>2 DEF Lists
  <1>7. Called(got, ItemOf(s)) = Display(ItemOf(s), ListedItems)
    <2>1. ToSet(Offered(got)) \subseteq Items
      BY <1>1, ServedEach DEF ToSet
    <2>2. FilterJSON(got).ok => ItemOf(s) \in ItemsOf(JSONOf(got))
      BY <1>1, <1>6, ServedLaw
    <2> QED BY <1>1, <1>4, <1>5, <1>6, <2>1, <2>2, CalledIsDisplay
  <1> QED
    BY <1>3, <1>4, <1>6, <1>7 DEF IsListed

LEMMA SameHiding ==
  ASSUME HidingInv, \A s \in Sids : current'[s] = current[s],
         UNCHANGED <<last_poll_ts, hidden, hid>>, steady' => steady
  PROVE  HidingInv'
  <1>1. Sids' = Sids
    BY DEF Sids
  <1>2. Rows(current)' = Rows(current)
    BY <1>1 DEF Rows
  <1>3. Rows(current) \subseteq Sids
    BY DEF Rows
  <1>4. Fresh' = Fresh
    BY <1>2, <1>3 DEF Fresh
  <1>5. Polled' = Polled
    BY <1>4, <1>1 DEF Polled, Fresh, ItemOf
  <1>6. \A s \in Rows(current) : groupDisplay(current'[s]) = groupDisplay(current[s])
    BY <1>3
  <1> QED
    BY <1>2, <1>4, <1>5, <1>6 DEF HidingInv, Display, ItemOf

LEMMA PollHides ==
  ASSUME ServersApart, TwinsAreLinks, AnswerInv, RowsInv, RestInv, HidingInv,
         NEW on \in SUBSET ListedSids, Poll(on)
  PROVE  HidingInv'
  <1> SUFFICES ASSUME steady' PROVE HidingInv'
    BY DEF HidingInv
  <1>1. /\ last_poll_ts \in Nat /\ last_poll_ts' = last_poll_ts + 1 /\ last_poll_ts' > 0
        /\ \A s \in ListedSids : s \in Sids =>
             /\ current'[s].name = listed[seq(s)].name /\ current'[s].grp = listed[seq(s)].grp
             /\ current'[s].online <=> s \in on
             /\ current'[s].ts = last_poll_ts' /\ current'[s].seq = seq(s)
        /\ \A s \in Sids : s \notin ListedSids => current'[s] = current[s]
        /\ \A s \in Sids : s \in Fresh' <=> s \in ListedSids
        /\ Fresh' \subseteq Sids
    BY PollRows
  <1>2. /\ UNCHANGED <<hidden, hid>> /\ steady
        /\ last_poll_ts = 0 \/ Polled = ListedItems
    BY DEF Poll, adminVars, ListedItems
  <1>3. Fresh' = ListedSids
    BY <1>1, ListedAreSids
  <1>4. Polled' = ListedItems
    <2>1. Polled' = {ItemOf(s) : s \in Fresh'}
      BY DEF Polled, Fresh, ItemOf
    <2> QED BY <1>3, <2>1 DEF ListedItems
  <1>5. Rows(current)' \subseteq Fresh'
    <2> SUFFICES ASSUME NEW s \in Sids, current'[s] # NoRow, s \notin ListedSids PROVE FALSE
      BY <1>3 DEF Rows, Sids
    <2>1. s \in Rows(current)
      BY <1>1 DEF Rows
    <2>2. CASE last_poll_ts = 0
      <3>1. current[s].ts \in 1..0
        BY <2>1, <2>2 DEF RowsInv, Rows
      <3> QED BY <3>1
    <2>3. CASE last_poll_ts # 0
      <3>1. s \in Fresh
        BY <1>2, <2>1 DEF HidingInv
      <3>2. ItemOf(s) \in ListedItems
        BY <1>2, <2>3, <3>1, PolledIs
      <3>3. ListedSids # {}
        BY <3>2 DEF ListedItems
      <3>4. s \in ListedSids
        BY <3>2, <3>3, ListedDisplay
      <3> QED BY <3>4
    <2> QED BY <2>2, <2>3
  <1>6. ASSUME NEW s \in ListedSids
        PROVE  groupDisplay(current'[s]) = Display(ItemOf(s), ListedItems)
    <2>1. s \in Sids
      BY ListedAreSids
    <2>2. groupDisplay(current'[s]) = groupDisplay(listed[seq(s)])
      BY <1>1, <2>1 DEF groupDisplay
    <2> QED BY <2>2, ListedDisplay
  <1>7. \A i \in ListedItems : i \in hid <=> Display(i, ListedItems) \in hidden
    BY <1>2 DEF HidingInv
  <1>8. last_poll_ts' # 0
    BY <1>1
  <1>9. /\ \A s \in Rows(current)' :
             s \in Fresh' /\ groupDisplay(current'[s]) = Display(ItemOf(s), Polled')
        /\ \A i \in Polled' : i \in hid' <=> Display(i, Polled') \in hidden'
    BY <1>2, <1>3, <1>4, <1>5, <1>6, <1>7
  <1> QED
    BY <1>8, <1>9 DEF HidingInv, ItemOf, Display

LEMMA PressHides ==
  ASSUME ServersApart, TwinsAreLinks, RowsInv, PageInv, HidingInv,
         NEW i \in Items, handleVisCallback(i)
  PROVE  HidingInv'
  <1> SUFFICES ASSUME steady' PROVE HidingInv'
    BY DEF HidingInv
  <1>1. UNCHANGED <<current, last_poll_ts, steady>> /\ i \in Buttons
    BY DEF handleVisCallback, Mark, tables
  <1>2. PICK s \in Rows(current) : ItemOf(s) = i
    BY <1>1 DEF Buttons
  <1>3. s \in Fresh /\ groupDisplay(current[s]) = Display(i, Polled)
    BY <1>1, <1>2 DEF HidingInv
  <1>4. Button(i) = Display(i, Polled) /\ i \in Polled
    BY <1>2, <1>3, ButtonOf, PolledIs DEF PageInv
  <1>5. last_poll_ts # 0
    <2>1. current[s].ts \in 1..last_poll_ts
      BY <1>2 DEF RowsInv, Rows
    <2> QED BY <2>1
  <1>6. /\ hidden' = (hidden \cup {Display(i, Polled)}) \ (hidden \cap {Display(i, Polled)})
        /\ hid' = IF Display(i, Polled) \in hidden THEN hid \ {i} ELSE hid \cup {i}
    BY <1>4 DEF handleVisCallback, SetHiddenName
  <1>7. \A j \in Polled : j # i => Display(j, Polled) # Display(i, Polled)
    BY <1>4, PolledItems, DisplayApart
  <1>8. \A j \in Polled : j \in hid' <=> Display(j, Polled) \in hidden'
    BY <1>1, <1>6, <1>7 DEF HidingInv
  <1>9. Polled' = Polled /\ Fresh' = Fresh /\ Rows(current)' = Rows(current)
    BY <1>1 DEF Polled, Fresh, Rows, Sids, ItemOf
  <1> QED
    BY <1>1, <1>5, <1>8, <1>9 DEF HidingInv, Display, ItemOf

LEMMA HidingStep ==
  ASSUME ServersApart, TwinsAreLinks, AnswerInv, RowsInv, RestInv, PageInv, HidingInv,
         [Next]_siteVars
  PROVE  HidingInv'
  <1>1. ASSUME UNCHANGED <<tables, hidden, hid, steady>> PROVE HidingInv'
    BY <1>1, SameHiding DEF tables
  <1>2. ASSUME ConsolidateByName PROVE HidingInv'
    <2> SUFFICES ASSUME steady' PROVE HidingInv'
      BY DEF HidingInv
    <2>1. UNCHANGED <<last_poll_ts, hidden, hid, steady>>
      BY <1>2 DEF ConsolidateByName, adminVars
    <2>2. \A s \in Sids : current'[s] = current[s]
      <3>1. /\ Gone \subseteq Rows(current) /\ \A g \in Fresh : g \notin Gone
            /\ \A g \in Sids : current'[g] = IF g \in Gone THEN NoRow ELSE current[g]
        BY <1>2, MergeRows
      <3>2. Rows(current) \subseteq Fresh
        BY <2>1 DEF HidingInv
      <3> QED BY <3>1, <3>2
    <2> QED BY <2>1, <2>2, SameHiding
  <1>3. ASSUME NEW i \in Items, AddMaintenance(i) PROVE UNCHANGED <<tables, hidden, hid, steady>>
    BY <1>3 DEF AddMaintenance, Mark
  <1>4. ASSUME NEW stored \in Subscriptions, GetSub(stored)
        PROVE  UNCHANGED <<tables, hidden, hid, steady>>
    BY <1>4 DEF GetSub, adminVars
  <1>5. ASSUME CurrentRows \/ DailyRows \/ HiddenSet \/ summary
        PROVE  UNCHANGED <<tables, hidden, hid, steady>>
    BY <1>5 DEF CurrentRows, DailyRows, HiddenSet, summary, Visit, adminVars
  <1>6. UNCHANGED siteVars => UNCHANGED <<tables, hidden, hid, steady>>
    BY DEF siteVars, adminVars
  <1> QED
    BY <1>1, <1>2, <1>3, <1>4, <1>5, <1>6, PollHides, PressHides DEF Next

LEMMA HiddenByMark ==
  ASSUME ServersApart, RowsInv, RestInv, PageInv, HidingInv, Untorn, steady,
         req.hidden = hidden, NEW i \in Polled
  PROVE  TilesOf(i) = {} <=> i \in hid
  <1>1. i \in Items
    BY PolledItems
  <1>2. PICK s \in Fresh : ItemOf(s) = i
    BY PolledIs
  <1>3. Button(i) = groupDisplay(current[s])
    BY <1>2, ButtonOf DEF PageInv
  <1>4. groupDisplay(current[s]) = Display(i, Polled)
    BY <1>2 DEF HidingInv, Fresh
  <1>5. i \in hid <=> Button(i) \in req.hidden
    BY <1>3, <1>4 DEF HidingInv
  <1>6. CASE Button(i) \in req.hidden
    BY <1>1, <1>5, <1>6, PageIsRight
  <1>7. CASE Button(i) \notin req.hidden
    <2>1. \E t \in TilesOf(i) : TilesOf(i) = {t}
      BY <1>1, <1>7, PageIsRight
    <2> QED BY <1>5, <1>7, <2>1
  <1> QED
    BY <1>6, <1>7

(* Where servers are told apart, also those of one remark, they are hidden *)
(* one by one: see HiddenOneByOne.                                         *)
THEOREM HiddenByPress == ServersApart /\ TwinsAreLinks /\ Spec => []HiddenOneByOne
  <1>1. Init => HidingInv
    <2>1. Init => Rows(current) = {} /\ hidden = {} /\ hid = {}
      BY DEF Init, Rows
    <2> QED BY <2>1 DEF HidingInv
  <1>2. /\ ServersApart /\ TwinsAreLinks /\ AnswerInv /\ RowsInv /\ RestInv /\ PageInv
        /\ HidingInv /\ [Next]_siteVars
        => HidingInv'
    BY HidingStep
  <1>3. ServersApart /\ RowsInv /\ RestInv /\ PageInv /\ HidingInv => HiddenOneByOne
    BY HiddenByMark DEF HiddenOneByOne
  <1>4. ServersApart /\ TwinsAreLinks => [](ServersApart /\ TwinsAreLinks)
    <2>1. ServersApart /\ TwinsAreLinks => (ServersApart /\ TwinsAreLinks)'
      BY DEF ServersApart, TwinsAreLinks
    <2> QED BY <2>1, PTL
  <1> QED
    BY <1>1, <1>2, <1>3, <1>4, PageHolds, PTL DEF Spec

=============================================================================
