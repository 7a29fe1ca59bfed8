------------------------------ MODULE SumProofs ------------------------------
(***************************************************************************)
(* Facts about sums of integers over finite sets.  The induction theorems  *)
(* of the library have an operator as a parameter; here an induction takes *)
(* a smallest set for which the fact would fail.                           *)
(***************************************************************************)
EXTENDS Sums, FiniteSetTheorems, WellFoundedInduction, TLAPS

\* Among sets of subsets of a finite set there is a smallest one.
LEMMA SmallestSet ==
    ASSUME NEW S, IsFiniteSet(S), NEW C \in SUBSET SUBSET S, C # {}
    PROVE  \E T \in C : \A U \in C : U \subseteq T => U = T
<1>1. IsWellFoundedOn(StrictSubsetOrdering(S), SUBSET S)
  BY FS_StrictSubsetOrderingWellFounded, FS_FiniteSubsetsOfFinite, ZenonT(30)
<1>2. PICK T \in C : \A U \in C : <<U, T>> \notin StrictSubsetOrdering(S)
  <2> HIDE <1>1
  <2> DEFINE R == StrictSubsetOrdering(S)
             P == SUBSET S
  <2>1. IsWellFoundedOn(R, P) /\ C \subseteq P
    BY <1>1
  <2> HIDE DEF R, P
  <2>2. \E x \in C : \A y \in C : ~(<<y, x>> \in R)
    BY <2>1, WFMin
  <2> QED BY <2>2 DEF R
<1>3. ASSUME NEW U \in C, U \subseteq T, U # T PROVE FALSE
  <2>1. <<U, T>> \in StrictSubsetOrdering(S)
    BY <1>3 DEF StrictSubsetOrdering
  <2> QED BY <1>2, <2>1
<1> QED BY <1>3

Pick(T) == CHOOSE x \in T : TRUE

\* What the fold over S computes on the way: g[T] is the sum over T.
Adds(f, S, g) ==
    /\ g \in [SUBSET S -> Int]
    /\ \A T \in SUBSET S :
          g[T] = IF T = {} THEN 0 ELSE f[Pick(T)] + g[T \ {Pick(T)}]

\* There is only one way to add.
LEMMA AddsUnique ==
    ASSUME NEW f, NEW S, NEW T, IsFiniteSet(S), NEW g, NEW h,
           Adds(f, S, g), Adds(f, T, h), NEW U, U \subseteq S, U \subseteq T
    PROVE  g[U] = h[U]
<1> DEFINE C == {V \in SUBSET U : g[V] # h[V]}
<1> SUFFICES ASSUME g[U] # h[U] PROVE FALSE
  OBVIOUS
<1>1. IsFiniteSet(U)
  BY FS_Subset
<1>2. C \in SUBSET SUBSET U /\ C # {}
  OBVIOUS
<1> HIDE DEF C
<1>3. PICK V \in C : \A W \in C : W \subseteq V => W = V
  BY <1>1, <1>2, SmallestSet
<1>4. V \subseteq U /\ g[V] # h[V]
  BY DEF C
<1>5. V # {}
  BY <1>4, ZenonT(30) DEF Adds
<1> DEFINE W == V \ {Pick(V)}
<1>6. Pick(V) \in V
  BY <1>5 DEF Pick
<1>7. W \subseteq U /\ W \notin C
  BY <1>3, <1>4, <1>6
<1>8. g[W] = h[W]
  BY <1>7 DEF C
<1>9. g[V] = f[Pick(V)] + g[W] /\ h[V] = f[Pick(V)] + h[W]
  BY <1>4, <1>5 DEF Adds
<1> QED BY <1>4, <1>8, <1>9

\* There is a way to add.
LEMMA AddsExists ==
    ASSUME NEW f, NEW S, IsFiniteSet(S), \A x \in S : f[x] \in Int
    PROVE  \E g : Adds(f, S, g)
<1> DEFINE Good(T) == \E g : Adds(f, T, g)
           C == {T \in SUBSET S : ~Good(T)}
<1> SUFFICES ASSUME ~Good(S) PROVE FALSE
  OBVIOUS
<1>1. C \in SUBSET SUBSET S /\ C # {}
  OBVIOUS
<1> HIDE DEF C
<1>2. PICK T \in C : \A U \in C : U \subseteq T => U = T
  BY <1>1, SmallestSet
<1>3. T \subseteq S /\ ~Good(T)
  BY DEF C
<1>4. \A U \in SUBSET T : U # T => Good(U)
  BY <1>2, <1>3 DEF C
<1>5. T # {}
  <2>1. Adds(f, {}, [U \in SUBSET {} |-> 0])
    BY DEF Adds
  <2> QED BY <1>3, <2>1, ZenonT(30)
<1> DEFINE v(U) == (CHOOSE g : Adds(f, U, g))[U]
           x == Pick(T)
           g == [U \in SUBSET T |-> IF U = T THEN f[x] + v(T \ {x}) ELSE v(U)]
<1>6. x \in T
  BY <1>5 DEF Pick
<1>7. ASSUME NEW U \in SUBSET T, U # T
      PROVE  /\ v(U) \in Int
             /\ v(U) = IF U = {} THEN 0 ELSE f[Pick(U)] + v(U \ {Pick(U)})
  <2> DEFINE h == CHOOSE k : Adds(f, U, k)
  <2>1. Adds(f, U, h)
    BY <1>4, <1>7
  <2>2. v(U) = h[U]
    OBVIOUS
  <2> HIDE DEF h, v
  <2>3. h[U] \in Int
    BY <2>1 DEF Adds
  <2>4. CASE U = {}
    BY <2>1, <2>2, <2>3, <2>4, ZenonT(30) DEF Adds
  <2>5. CASE U # {}
    <3> DEFINE y == Pick(U)
               W == U \ {y}
               k == CHOOSE l : Adds(f, W, l)
    <3>1. y \in U
      BY <2>5 DEF Pick
    <3>2. W \subseteq T /\ W # T /\ W \subseteq U
      BY <3>1
    <3>3. Adds(f, W, k)
      BY <1>4, <3>2, ZenonT(30)
    <3>4. v(W) = k[W]
      BY DEF v
    <3>5. h[U] = f[y] + h[W]
      BY <2>1, <2>5 DEF Adds
    <3>6. IsFiniteSet(U)
      BY <1>3, FS_Subset
    <3> HIDE DEF k, W, y
    <3>7. h[W] = k[W]
      BY <2>1, <3>2, <3>3, <3>6, AddsUnique
    <3> QED BY <2>2, <2>3, <2>5, <3>4, <3>5, <3>7 DEF y, W
  <2> QED BY <2>4, <2>5
<1> HIDE DEF v, x
<1>8. T \ {x} \in SUBSET T /\ T \ {x} # T
  BY <1>6
<1>9. f[x] \in Int /\ v(T \ {x}) \in Int
  BY <1>3, <1>6, <1>7, <1>8, ZenonT(30)
<1>10. g \in [SUBSET T -> Int]
  <2> DEFINE a == f[x] + v(T \ {x})
  <2>1. a \in Int
    BY <1>9
  <2> HIDE DEF a
  <2>2. \A U \in SUBSET T : U # T => v(U) \in Int
    BY <1>7, ZenonT(30)
  <2>3. \A U \in SUBSET T : (IF U = T THEN a ELSE v(U)) \in Int
    BY <2>1, <2>2
  <2> DEFINE e(U) == IF U = T THEN a ELSE v(U)
  <2>4. g = [U \in SUBSET T |-> e(U)]
    BY DEF a
  <2> HIDE DEF e, g
  <2>5. \A U \in SUBSET T : e(U) \in Int
    BY <2>3 DEF e
  <2> QED BY <2>4, <2>5
<1>11. ASSUME NEW U \in SUBSET T
       PROVE  g[U] = IF U = {} THEN 0 ELSE f[Pick(U)] + g[U \ {Pick(U)}]
  <2>1. CASE U = T
    BY <1>5, <1>8, <2>1 DEF x
  <2>2. CASE U # T
    <3>1. U # {} => U \ {Pick(U)} # T
      BY <2>2 DEF Pick
    <3> QED BY <1>7, <2>2, <3>1
  <2> QED BY <2>1, <2>2
<1> HIDE DEF g
<1>12. Adds(f, T, g)
  BY <1>10, <1>11, ZenonT(30) DEF Adds
<1> QED BY <1>3, <1>12

\* The fold is one.
LEMMA SumAdds ==
    ASSUME NEW f, NEW S, IsFiniteSet(S), \A x \in S : f[x] \in Int
    PROVE  \E g : Adds(f, S, g) /\ SumOver(f, S) = g[S]
<1> DEFINE Eq(g) == g = [s \in SUBSET S |->
                            IF s = {} THEN 0
                            ELSE f[CHOOSE x \in s : TRUE]
                                 + g[s \ {CHOOSE x \in s : TRUE}]]
           i == CHOOSE g : Eq(g)
<1>1. SumOver(f, S) = i[S]
  BY DEF SumOver, MapThenSumSet, MapThenFoldSet
<1>2. PICK g : Adds(f, S, g)
  BY AddsExists
<1>3. Eq(g)
  BY <1>2 DEF Adds, Pick
<1>4. Eq(i)
  BY <1>3, ZenonT(30)
<1> HIDE DEF i
<1> DEFINE C == {V \in SUBSET S : g[V] # i[V]}
<1>5. C = {}
  <2> SUFFICES ASSUME C # {} PROVE FALSE
    OBVIOUS
  <2>1. C \in SUBSET SUBSET S
    OBVIOUS
  <2> HIDE DEF C
  <2>2. PICK V \in C : \A W \in C : W \subseteq V => W = V
    BY <2>1, SmallestSet
  <2>3. V \subseteq S /\ g[V] # i[V]
    BY DEF C
  <2> DEFINE y == CHOOSE x \in V : TRUE
             W == V \ {y}
  <2>4. V # {}
    BY <1>3, <1>4, <2>3
  <2>5. y \in V
    BY <2>4
  <2>6. W \subseteq S /\ W \notin C
    BY <2>2, <2>3, <2>5
  <2>7. g[W] = i[W]
    BY <2>6 DEF C
  <2>8. g[V] = f[y] + g[W] /\ i[V] = f[y] + i[W]
    BY <1>3, <1>4, <2>3, <2>4, ZenonT(30)
  <2> QED BY <2>3, <2>7, <2>8
<1>6. g[S] = i[S]
  BY <1>5
<1> QED BY <1>1, <1>2, <1>6

\* The sum is an integer; that of nothing is 0; and one element can be taken
\* out, the one the fold takes.
LEMMA SumPick ==
    ASSUME NEW f, NEW S, IsFiniteSet(S), \A x \in S : f[x] \in Int
    PROVE  /\ SumOver(f, S) \in Int
           /\ S = {} => SumOver(f, S) = 0
           /\ S # {} => SumOver(f, S) = f[Pick(S)] + SumOver(f, S \ {Pick(S)})
<1>1. PICK g : Adds(f, S, g) /\ SumOver(f, S) = g[S]
  BY SumAdds
<1>2. SumOver(f, S) \in Int /\ (S = {} => SumOver(f, S) = 0)
  BY <1>1, ZenonT(30) DEF Adds
<1>3. ASSUME S # {} PROVE SumOver(f, S) = f[Pick(S)] + SumOver(f, S \ {Pick(S)})
  <2> DEFINE T == S \ {Pick(S)}
  <2>1. T \subseteq S /\ IsFiniteSet(T)
    BY FS_Subset
  <2>2. g[S] = f[Pick(S)] + g[T]
    BY <1>1, <1>3 DEF Adds
  <2> HIDE DEF T
  <2>3. PICK h : Adds(f, T, h) /\ SumOver(f, T) = h[T]
    BY <2>1, SumAdds
  <2>4. g[T] = h[T]
    BY <1>1, <2>1, <2>3, AddsUnique
  <2> QED BY <1>1, <2>2, <2>3, <2>4 DEF T
<1> QED BY <1>2, <1>3

\* The sum over no elements.
LEMMA SumEmpty == \A f : SumOver(f, {}) = 0
BY SumPick, FS_EmptySet, ZenonT(30)

\* Any element can be taken out: the order of the additions does not matter.
LEMMA SumRemove ==
    ASSUME NEW f, NEW S, IsFiniteSet(S), \A x \in S : f[x] \in Int, NEW a \in S
    PROVE  SumOver(f, S) = f[a] + SumOver(f, S \ {a})
<1> DEFINE Bad(T) == \E b \in T : SumOver(f, T) # f[b] + SumOver(f, T \ {b})
           C == {T \in SUBSET S : Bad(T)}
<1> SUFFICES ASSUME Bad(S) PROVE FALSE
  OBVIOUS
<1>1. C \in SUBSET SUBSET S /\ C # {}
  BY ZenonT(30)
<1> HIDE DEF C
<1>2. PICK T \in C : \A U \in C : U \subseteq T => U = T
  BY <1>1, SmallestSet
<1>3. T \subseteq S
  BY DEF C
<1>4. PICK b \in T : SumOver(f, T) # f[b] + SumOver(f, T \ {b})
  BY DEF C
<1> DEFINE y == Pick(T)
           Y == T \ {y}
           B == T \ {b}
           W == T \ {b, y}
<1>5. y \in T
  BY <1>4 DEF Pick
<1> HIDE DEF y
<1>6. IsFiniteSet(T) /\ IsFiniteSet(Y) /\ IsFiniteSet(B) /\ IsFiniteSet(W)
  BY <1>3, FS_Subset
<1>7. SumOver(f, T) = f[y] + SumOver(f, Y)
  BY <1>3, <1>4, <1>6, SumPick DEF y
<1>8. b # y
  BY <1>4, <1>7, ZenonT(30)
<1>9. Y \subseteq T /\ Y # T /\ b \in Y /\ Y \ {b} = W
  BY <1>5, <1>8
<1>10. B \subseteq T /\ B # T /\ y \in B /\ B \ {y} = W
  BY <1>5, <1>8
<1>11. Y \in SUBSET S /\ B \in SUBSET S /\ Y \notin C /\ B \notin C
  BY <1>2, <1>3, <1>9, <1>10
<1>12. SumOver(f, Y) = f[b] + SumOver(f, W)
  BY <1>9, <1>11, ZenonT(30) DEF C
<1>13. SumOver(f, B) = f[y] + SumOver(f, W)
  BY <1>10, <1>11, ZenonT(30) DEF C
<1>14. f[b] \in Int /\ f[y] \in Int /\ SumOver(f, W) \in Int
  BY <1>3, <1>5, <1>6, SumPick, ZenonT(30)
<1>15. SumOver(f, T) # f[b] + SumOver(f, B)
  BY <1>4
<1> HIDE DEF W, Y, B
<1> QED BY <1>7, <1>12, <1>13, <1>14, <1>15

\* Induction on finite sets: what holds of no elements, and of a set when it
\* holds without one of its elements, holds of all.
LEMMA SetInduction ==
    ASSUME NEW S, IsFiniteSet(S), NEW G \in SUBSET SUBSET S, {} \in G,
           \A T \in SUBSET S : \A a \in T : T \ {a} \in G => T \in G
    PROVE  S \in G
<1> SUFFICES ASSUME S \notin G PROVE FALSE
  OBVIOUS
<1> DEFINE C == (SUBSET S) \ G
<1>1. C \in SUBSET SUBSET S /\ C # {}
  OBVIOUS
<1> HIDE DEF C
<1>2. PICK T \in C : \A U \in C : U \subseteq T => U = T
  BY <1>1, SmallestSet
<1>3. T \in SUBSET S /\ T \notin G /\ T # {}
  BY ZenonT(30) DEF C
<1>4. PICK a \in T : TRUE
  BY <1>3
<1>5. T \ {a} \in SUBSET S /\ T \ {a} \notin C
  BY <1>2, <1>3, <1>4
<1>6. T \ {a} \in G
  BY <1>5 DEF C
<1> QED BY <1>3, <1>4, <1>6

\* One step of the inductions below.
LEMMA SumStep ==
    ASSUME NEW f, NEW S, IsFiniteSet(S), \A x \in S : f[x] \in Int,
           NEW T \in SUBSET S, NEW a \in T
    PROVE  /\ SumOver(f, T) = f[a] + SumOver(f, T \ {a})
           /\ f[a] \in Int /\ SumOver(f, T) \in Int /\ SumOver(f, T \ {a}) \in Int
<1>1. IsFiniteSet(T) /\ IsFiniteSet(T \ {a})
  BY FS_Subset
<1>2. SumOver(f, T) = f[a] + SumOver(f, T \ {a})
  BY <1>1, SumRemove
<1>3. SumOver(f, T) \in Int /\ SumOver(f, T \ {a}) \in Int
  BY <1>1, SumPick, ZenonT(30)
<1> QED BY <1>2, <1>3

\* The sum of a pointwise sum is the sum of the sums.
LEMMA SumAdd ==
    ASSUME NEW f, NEW g, NEW h, NEW S, IsFiniteSet(S),
           \A x \in S : f[x] \in Int /\ g[x] \in Int /\ h[x] = f[x] + g[x]
    PROVE  SumOver(h, S) = SumOver(f, S) + SumOver(g, S)
<1> DEFINE G == {T \in SUBSET S : SumOver(h, T) = SumOver(f, T) + SumOver(g, T)}
<1>1. {} \in G
  BY SumEmpty
<1>2. ASSUME NEW T \in SUBSET S, NEW a \in T, T \ {a} \in G PROVE T \in G
  <2>1. SumOver(h, T \ {a}) = SumOver(f, T \ {a}) + SumOver(g, T \ {a})
    BY <1>2
  <2>2. /\ SumOver(f, T) = f[a] + SumOver(f, T \ {a})
        /\ f[a] \in Int /\ SumOver(f, T) \in Int /\ SumOver(f, T \ {a}) \in Int
    BY SumStep, ZenonT(30)
  <2>3. /\ SumOver(g, T) = g[a] + SumOver(g, T \ {a})
        /\ g[a] \in Int /\ SumOver(g, T) \in Int /\ SumOver(g, T \ {a}) \in Int
    BY SumStep, ZenonT(30)
  <2>4. \A x \in S : h[x] \in Int
    OBVIOUS
  <2>5. SumOver(h, T) = h[a] + SumOver(h, T \ {a})
    BY <2>4, SumStep
  <2>6. h[a] = f[a] + g[a]
    OBVIOUS
  <2>7. SumOver(h, T) = SumOver(f, T) + SumOver(g, T)
    BY <2>1, <2>2, <2>3, <2>5, <2>6
  <2> QED BY <2>7
<1> HIDE DEF G
<1>3. G \in SUBSET SUBSET S
  BY DEF G
<1>4. S \in G
  BY <1>1, <1>2, <1>3, SetInduction, ZenonT(30)
<1> QED BY <1>4 DEF G

\* Functions that agree on a set have the same sum over it.
LEMMA SumEq ==
    ASSUME NEW f, NEW g, NEW S, IsFiniteSet(S),
           \A x \in S : f[x] \in Int /\ g[x] = f[x]
    PROVE  SumOver(g, S) = SumOver(f, S)
<1> DEFINE G == {T \in SUBSET S : SumOver(g, T) = SumOver(f, T)}
<1>1. {} \in G
  BY SumEmpty
<1>2. ASSUME NEW T \in SUBSET S, NEW a \in T, T \ {a} \in G PROVE T \in G
  <2>1. SumOver(f, T) = f[a] + SumOver(f, T \ {a})
    BY SumStep
  <2>2. \A x \in S : g[x] \in Int
    OBVIOUS
  <2>3. SumOver(g, T) = g[a] + SumOver(g, T \ {a})
    BY <2>2, SumStep
  <2> QED BY <1>2, <2>1, <2>3
<1> HIDE DEF G
<1>3. G \in SUBSET SUBSET S
  BY DEF G
<1>4. S \in G
  BY <1>1, <1>2, <1>3, SetInduction, ZenonT(30)
<1> QED BY <1>4 DEF G

\* Elements that contribute nothing can be left out.
LEMMA SumSubset ==
    ASSUME NEW f, NEW S, IsFiniteSet(S), \A x \in S : f[x] \in Int,
           NEW R \in SUBSET S, \A x \in S \ R : f[x] = 0
    PROVE  SumOver(f, S) = SumOver(f, R)
<1> DEFINE G == {T \in SUBSET S : SumOver(f, T) = SumOver(f, T \cap R)}
<1>1. {} \in G
  OBVIOUS
<1>2. ASSUME NEW T \in SUBSET S, NEW a \in T, T \ {a} \in G PROVE T \in G
  <2>1. /\ SumOver(f, T) = f[a] + SumOver(f, T \ {a})
        /\ f[a] \in Int /\ SumOver(f, T \ {a}) \in Int
    BY SumStep
  <2>2. SumOver(f, T \ {a}) = SumOver(f, (T \ {a}) \cap R)
    BY <1>2
  <2>3. CASE a \in R
    <3> DEFINE U == T \cap R
    <3>1. U \in SUBSET S /\ a \in U /\ U \ {a} = (T \ {a}) \cap R
      BY <2>3
    <3> HIDE DEF U
    <3>2. SumOver(f, U) = f[a] + SumOver(f, U \ {a})
      BY <3>1, SumStep
    <3>3. SumOver(f, T) = SumOver(f, U)
      BY <2>1, <2>2, <3>1, <3>2, ZenonT(30)
    <3> QED BY <3>3 DEF U
  <2>4. CASE a \notin R
    <3>1. f[a] = 0 /\ (T \ {a}) \cap R = T \cap R
      BY <2>4
    <3>2. SumOver(f, T \ {a}) = SumOver(f, T \cap R)
      BY <2>2, <3>1
    <3>3. SumOver(f, T) = SumOver(f, T \ {a})
      BY <2>1, <3>1
    <3> QED BY <3>2, <3>3
  <2> QED BY <2>3, <2>4
<1> HIDE DEF G
<1>3. G \in SUBSET SUBSET S
  BY DEF G
<1>4. S \in G
  BY <1>1, <1>2, <1>3, SetInduction, ZenonT(30)
<1>5. S \cap R = R
  OBVIOUS
<1> QED BY <1>4, <1>5 DEF G

\* A sum of nonnegative terms is nonnegative and no smaller than any of them.
LEMMA SumNonneg ==
    ASSUME NEW f, NEW S, IsFiniteSet(S),
           \A x \in S : f[x] \in Int /\ f[x] >= 0
    PROVE  SumOver(f, S) >= 0 /\ \A x \in S : f[x] <= SumOver(f, S)
<1> DEFINE G == {T \in SUBSET S : SumOver(f, T) >= 0}
<1>0. IsFiniteSet(S) /\ \A x \in S : f[x] \in Int
  OBVIOUS
<1>1. {} \in G
  BY SumEmpty
<1>2. ASSUME NEW T \in SUBSET S, NEW a \in T, T \ {a} \in G PROVE T \in G
  <2>1. /\ SumOver(f, T) = f[a] + SumOver(f, T \ {a})
        /\ f[a] \in Int /\ SumOver(f, T \ {a}) \in Int
    BY ONLY <1>0, SumStep
  <2>2. f[a] >= 0 /\ SumOver(f, T \ {a}) >= 0
    <3>1. a \in S
      OBVIOUS
    <3>2. f[a] >= 0
      BY <3>1
    <3>3. SumOver(f, T \ {a}) >= 0
      BY <1>2
    <3> QED BY <3>2, <3>3
  <2>3. SumOver(f, T) >= 0
    BY <2>1, <2>2
  <2> QED BY <2>3
<1>3. ASSUME NEW T \in SUBSET S PROVE SumOver(f, T) >= 0
  <2> DEFINE H == G \cap SUBSET T
  <2>1. IsFiniteSet(T)
    BY FS_Subset
  <2>2. {} \in H
    BY <1>1
  <2>3. \A U \in SUBSET T : \A a \in U : U \ {a} \in H => U \in H
    BY <1>2
  <2>4. H \in SUBSET SUBSET T
    OBVIOUS
  <2> HIDE DEF H
  <2>5. T \in H
    BY <2>1, <2>2, <2>3, <2>4, SetInduction, ZenonT(30)
  <2> QED BY <2>5 DEF H
<1>4. ASSUME NEW a \in S PROVE f[a] <= SumOver(f, S)
  <2>1. /\ SumOver(f, S) = f[a] + SumOver(f, S \ {a})
        /\ f[a] \in Int /\ SumOver(f, S \ {a}) \in Int
    BY ONLY <1>0, SumStep
  <2>2. SumOver(f, S \ {a}) >= 0
    BY <1>3
  <2> QED BY <2>1, <2>2
<1> QED BY <1>3, <1>4

\* A change of one term changes the sum by as much.
LEMMA SumChange ==
    ASSUME NEW f, NEW g, NEW S, IsFiniteSet(S), NEW a \in S, NEW d \in Int,
           \A x \in S : f[x] \in Int,
           \A x \in S \ {a} : g[x] = f[x],
           g[a] = f[a] + d
    PROVE  SumOver(g, S) = SumOver(f, S) + d
<1> DEFINE R == S \ {a}
<1>1. IsFiniteSet(S) /\ IsFiniteSet(R) /\ R \subseteq S
  BY FS_Subset
<1>2. \A x \in S : g[x] \in Int
  OBVIOUS
<1>3. SumOver(f, S) = f[a] + SumOver(f, R)
  BY SumRemove
<1>4. SumOver(g, S) = g[a] + SumOver(g, R)
  BY <1>1, <1>2, SumRemove
<1>5. \A x \in R : f[x] \in Int /\ g[x] = f[x]
  OBVIOUS
<1> HIDE DEF R
<1>6. SumOver(g, R) = SumOver(f, R)
  BY <1>1, <1>5, SumEq
<1>7. SumOver(f, R) \in Int
  BY <1>1, <1>5, SumPick, ZenonT(30)
<1>8. f[a] \in Int
  OBVIOUS
<1> QED BY <1>3, <1>4, <1>6, <1>7, <1>8
=============================================================================
