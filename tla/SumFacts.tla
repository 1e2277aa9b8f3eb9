------------------------------ MODULE SumFacts ------------------------------
(***************************************************************************)
(* Facts about sums over finite sets (MapThenSumSet), for any terms and    *)
(* any set: a column taken out, two sums exchanged, terms compared.  The   *)
(* sum is a recursive function of the community modules; it is reasoned    *)
(* about through the equation that defines it (SumsUp), and induction is   *)
(* done by refuting a smallest counterexample.                             *)
(***************************************************************************)
EXTENDS Integers, FiniteSets, FiniteSetsExt, FiniteSetTheorems, WellFoundedInduction, TLAPS

(* The sum of f[j] over the j in S.                                        *)
Total(f, S) == MapThenSumSet(LAMBDA j : f[j], S)

(* h is the sum of f over every subset of S, as the fold unrolls it.       *)
Chosen(s) == CHOOSE x \in s : TRUE
SumsUp(f, S, h) ==
  h = [s \in SUBSET S |-> IF s = {} THEN 0 ELSE f[Chosen(s)] + h[s \ {Chosen(s)}]]

(* A set of naturals that has a member has a least one.  This is how       *)
(* inductions are done here: the least counterexample is refuted.          *)
LEMMA LeastNumber ==
  ASSUME NEW T, T \subseteq Nat, T # {}
  PROVE  \E k \in T : \A j \in T : k <= j
<1>1. IsWellFoundedOn(OpToRel(<, Nat), Nat)
  BY NatLessThanWellFounded
<1>2. PICK k \in T : \A j \in T : ~ (<<j, k>> \in OpToRel(<, Nat))
  BY <1>1, WFMin, Zenon
<1>3. \A j \in T : ~(j < k)
  BY <1>2 DEF OpToRel
<1> QED BY <1>3

(* Induction on a finite set, element by element.                          *)
LEMMA SmallestBad ==
  ASSUME NEW S, IsFiniteSet(S), NEW B, B \subseteq SUBSET S, B # {}
  PROVE  \E T \in B : \A R \in B : ~(R \subseteq T /\ R # T)
<1> DEFINE Sizes == {Cardinality(T) : T \in B}
<1>1. \A T \in B : IsFiniteSet(T) /\ Cardinality(T) \in Nat
  BY FS_Subset, FS_CardinalityType
<1>2. Sizes \subseteq Nat /\ Sizes # {}
  BY <1>1
<1> HIDE DEF Sizes
<1>3. PICK k \in Sizes : \A j \in Sizes : k <= j
  BY <1>2, LeastNumber, Zenon
<1>4. PICK T \in B : Cardinality(T) = k
  BY <1>3 DEF Sizes
<1>5. ASSUME NEW R \in B, R \subseteq T, R # T
      PROVE  FALSE
  <2>1. Cardinality(R) < Cardinality(T)
    BY <1>1, <1>5, FS_Subset, SMT
  <2>2. Cardinality(R) \in Sizes
    BY DEF Sizes
  <2> QED BY <2>1, <2>2, <1>1, <1>3, <1>4, <1>2
<1> QED BY <1>5

(* Induction on a finite set, element by element: a family with the empty  *)
(* set that is closed under adding an element contains the whole set.      *)
LEMMA SetInduction ==
  ASSUME NEW S, IsFiniteSet(S), NEW G, {} \in G,
         \A T \in SUBSET S : \A x \in S \ T : T \in G => T \cup {x} \in G
  PROVE  S \in G
<1> DEFINE B == (SUBSET S) \ G
<1> SUFFICES ASSUME S \notin G PROVE FALSE
  OBVIOUS
<1>1. PICK T \in B : \A R \in B : ~(R \subseteq T /\ R # T)
  <2>1. B \subseteq SUBSET S /\ B # {}
    OBVIOUS
  <2> HIDE DEF B
  <2> QED BY <2>1, SmallestBad
<1>2. PICK x \in T : TRUE
  OBVIOUS
<1>3. T \ {x} \in G
  BY <1>1, <1>2
<1>4. (T \ {x}) \cup {x} \in G
  BY <1>2, <1>3
<1>5. (T \ {x}) \cup {x} = T
  BY <1>2
<1> QED BY <1>4, <1>5

(* The recursive equation of a sum has at most one solution.               *)
LEMMA SumsUpOnce ==
  ASSUME NEW f, NEW S, IsFiniteSet(S), NEW h, NEW k, SumsUp(f, S, h), SumsUp(f, S, k)
  PROVE  h = k
<1> DEFINE B == {T \in SUBSET S : h[T] # k[T]}
<1>1. ASSUME B # {} PROVE FALSE
  <2>1. PICK T \in B : \A R \in B : ~(R \subseteq T /\ R # T)
    <3>1. B \subseteq SUBSET S /\ B # {}
      BY <1>1
    <3> HIDE DEF B
    <3> QED BY <3>1, SmallestBad
  <2>2. CASE T = {}
    BY <2>2, <2>1 DEF SumsUp
  <2>3. CASE T # {}
    <3>1. Chosen(T) \in T
      BY <2>3 DEF Chosen
    <3>2. h[T \ {Chosen(T)}] = k[T \ {Chosen(T)}]
      BY <2>1, <3>1
    <3>3. h[T] = f[Chosen(T)] + h[T \ {Chosen(T)}] /\ k[T] = f[Chosen(T)] + k[T \ {Chosen(T)}]
      BY <2>1, <2>3 DEF SumsUp
    <3> QED BY <3>2, <3>3, <2>1
  <2> QED BY <2>2, <2>3
<1>2. \A T \in SUBSET S : h[T] = k[T]
  BY <1>1
<1>3. h = [T \in SUBSET S |-> h[T]] /\ k = [T \in SUBSET S |-> k[T]]
  BY DEF SumsUp
<1> QED BY <1>2, <1>3

(* Total is the solution of that equation that CHOOSE picks.               *)
LEMMA TotalIs ==
  ASSUME NEW f, NEW S PROVE Total(f, S) = (CHOOSE h : SumsUp(f, S, h))[S]
BY DEF Total, MapThenSumSet, MapThenFoldSet, SumsUp, Chosen

(* Whatever solves the equation gives the sum.                             *)
LEMMA TotalFrom ==
  ASSUME NEW f, NEW S, IsFiniteSet(S), NEW h, SumsUp(f, S, h)
  PROVE  Total(f, S) = h[S]
<1>1. SumsUp(f, S, CHOOSE g : SumsUp(f, S, g))
  OBVIOUS
<1>2. (CHOOSE g : SumsUp(f, S, g)) = h
  BY <1>1, SumsUpOnce
<1> QED BY <1>2, TotalIs

(* The empty sum is zero.                                                  *)
LEMMA TotalEmpty == ASSUME NEW f PROVE Total(f, {}) = 0
<1> DEFINE h == [s \in SUBSET {} |-> 0]
<1>1. SumsUp(f, {}, h)
  BY DEF SumsUp
<1>2. IsFiniteSet({})
  BY FS_EmptySet
<1>3. h[{}] = 0
  OBVIOUS
<1> HIDE DEF h
<1> QED BY <1>1, <1>2, <1>3, TotalFrom

(* The equation that the fold is defined by.                               *)
LEMMA TotalUnfolds ==
  ASSUME NEW f, NEW S, IsFiniteSet(S), S # {}
  PROVE  Chosen(S) \in S /\ Total(f, S) = f[Chosen(S)] + Total(f, S \ {Chosen(S)})
<1> DEFINE Unfolds(T) == Total(f, T) = f[Chosen(T)] + Total(f, T \ {Chosen(T)})
           B == {T \in SUBSET S : T # {} /\ ~Unfolds(T)}
<1>1. ASSUME B # {} PROVE FALSE
  <2>1. PICK T \in B : \A R \in B : ~(R \subseteq T /\ R # T)
    <3>1. B \subseteq SUBSET S /\ B # {}
      BY <1>1
    <3> HIDE DEF B
    <3> QED BY <3>1, SmallestBad
  <2> DEFINE p == Chosen(T)
             h == [s \in SUBSET T |-> IF s = T THEN f[p] + Total(f, T \ {p}) ELSE Total(f, s)]
  <2>2. p \in T /\ T \ {p} # T
    BY <2>1 DEF Chosen
  <2>3. \A s \in SUBSET T : s # {} => Chosen(s) \in s /\ s \ {Chosen(s)} # T /\ s \ {Chosen(s)} \in SUBSET T
    BY DEF Chosen
  <2>4. \A s \in SUBSET T : s # {} /\ s # T => Unfolds(s)
    BY <2>1
  <2>5. \A s \in SUBSET T : h[s] = IF s = {} THEN 0 ELSE f[Chosen(s)] + h[s \ {Chosen(s)}]
    <3> TAKE s \in SUBSET T
    <3>1. CASE s = {}
      BY <3>1, TotalEmpty, <2>1
    <3>2. CASE s = T
      BY <3>2, <2>2, <2>1
    <3>3. CASE s # {} /\ s # T
      <4>1. h[s] = Total(f, s) /\ h[s \ {Chosen(s)}] = Total(f, s \ {Chosen(s)})
        BY <3>3, <2>3
      <4> QED BY <4>1, <3>3, <2>4
    <3> QED BY <3>1, <3>2, <3>3
  <2>6. SumsUp(f, T, h)
    BY <2>5 DEF SumsUp
  <2>7. IsFiniteSet(T)
    BY <2>1, FS_Subset
  <2>8. h[T] = f[p] + Total(f, T \ {p})
    OBVIOUS
  <2> HIDE DEF h
  <2>9. Total(f, T) = h[T]
    BY <2>6, <2>7, TotalFrom
  <2> QED BY <2>1, <2>8, <2>9
<1>2. Unfolds(S)
  BY <1>1
<1> QED BY <1>2 DEF Chosen

(* A sum of integers is one.                                               *)
LEMMA TotalInt ==
  ASSUME NEW f, NEW S, IsFiniteSet(S), \A j \in S : f[j] \in Int
  PROVE  Total(f, S) \in Int
<1> DEFINE B == {T \in SUBSET S : Total(f, T) \notin Int}
<1>1. ASSUME B # {} PROVE FALSE
  <2>1. PICK T \in B : \A R \in B : ~(R \subseteq T /\ R # T)
    <3>1. B \subseteq SUBSET S /\ B # {}
      BY <1>1
    <3> HIDE DEF B
    <3> QED BY <3>1, SmallestBad
  <2>2. T # {}
    BY <2>1, TotalEmpty
  <2>3. IsFiniteSet(T)
    BY <2>1, FS_Subset
  <2>4. Chosen(T) \in T /\ Total(f, T) = f[Chosen(T)] + Total(f, T \ {Chosen(T)})
    BY <2>2, <2>3, TotalUnfolds
  <2>5. Total(f, T \ {Chosen(T)}) \in Int
    BY <2>1, <2>4
  <2> QED BY <2>1, <2>4, <2>5
<1> QED BY <1>1

(* Any element may be taken out first.                                     *)
LEMMA TotalTakesOut ==
  ASSUME NEW f, NEW S, IsFiniteSet(S), \A j \in S : f[j] \in Int, NEW x \in S
  PROVE  Total(f, S) = f[x] + Total(f, S \ {x})
<1> DEFINE Out(T, y) == Total(f, T) = f[y] + Total(f, T \ {y})
           B == {T \in SUBSET S : \E y \in T : ~Out(T, y)}
<1>1. ASSUME B # {} PROVE FALSE
  <2>1. PICK T \in B : \A R \in B : ~(R \subseteq T /\ R # T)
    <3>1. B \subseteq SUBSET S /\ B # {}
      BY <1>1
    <3> HIDE DEF B
    <3> QED BY <3>1, SmallestBad
  <2>2. PICK y \in T : ~Out(T, y)
    BY <2>1
  <2>3. \A R \in SUBSET T : IsFiniteSet(R) /\ Total(f, R) \in Int
    BY <2>1, FS_Subset, TotalInt
  <2> DEFINE p == Chosen(T)
             R == (T \ {y}) \ {p}
  <2>4. p \in T /\ Out(T, p)
    BY <2>2, <2>3, TotalUnfolds
  <2>5. p # y
    BY <2>2, <2>4
  <2>6. Out(T \ {p}, y)
    BY <2>1, <2>2, <2>4, <2>5
  <2>7. Out(T \ {y}, p)
    BY <2>1, <2>2, <2>4, <2>5
  <2>8. (T \ {p}) \ {y} = R
    OBVIOUS
  <2>9. Total(f, R) \in Int /\ f[y] \in Int /\ f[p] \in Int
    BY <2>1, <2>2, <2>3, <2>4
  <2>10. Total(f, T) = f[p] + (f[y] + Total(f, R)) /\ Total(f, T \ {y}) = f[p] + Total(f, R)
    BY <2>4, <2>6, <2>7, <2>8
  <2> HIDE DEF R, p
  <2>11. Total(f, T) = f[y] + Total(f, T \ {y})
    BY <2>9, <2>10
  <2> QED BY <2>2, <2>11
<1> QED BY <1>1

(* Sums over a set depend on nothing but the values on it.                 *)
LEMMA TotalAgrees ==
  ASSUME NEW f, NEW g, NEW S, IsFiniteSet(S), \A j \in S : f[j] = g[j]
  PROVE  Total(f, S) = Total(g, S)
<1> DEFINE B == {T \in SUBSET S : Total(f, T) # Total(g, T)}
<1>1. ASSUME B # {} PROVE FALSE
  <2>1. PICK T \in B : \A R \in B : ~(R \subseteq T /\ R # T)
    <3>1. B \subseteq SUBSET S /\ B # {}
      BY <1>1
    <3> HIDE DEF B
    <3> QED BY <3>1, SmallestBad
  <2>2. T # {}
    BY <2>1, TotalEmpty
  <2>3. IsFiniteSet(T)
    BY <2>1, FS_Subset
  <2>4. /\ Chosen(T) \in T
        /\ Total(f, T) = f[Chosen(T)] + Total(f, T \ {Chosen(T)})
        /\ Total(g, T) = g[Chosen(T)] + Total(g, T \ {Chosen(T)})
    BY <2>2, <2>3, TotalUnfolds
  <2>5. Total(f, T \ {Chosen(T)}) = Total(g, T \ {Chosen(T)})
    BY <2>1, <2>4
  <2> QED BY <2>1, <2>4, <2>5
<1> QED BY <1>1

(* The sum of sums is the sum of the terms' sums.                          *)
LEMMA TotalAdds ==
  ASSUME NEW f, NEW g, NEW h, NEW S, IsFiniteSet(S),
         \A j \in S : f[j] \in Int /\ g[j] \in Int /\ h[j] = f[j] + g[j]
  PROVE  Total(h, S) = Total(f, S) + Total(g, S)
<1> DEFINE G == {T \in SUBSET S : Total(h, T) = Total(f, T) + Total(g, T)}
<1>1. {} \in G
  BY TotalEmpty
<1>2. ASSUME NEW T \in SUBSET S, NEW x \in S \ T, T \in G
      PROVE  T \cup {x} \in G
  <2> DEFINE W == T \cup {x}
  <2>1. IsFiniteSet(W) /\ W \in SUBSET S /\ x \in W /\ W \ {x} = T
    BY <1>2, FS_Subset
  <2>2. \A j \in W : f[j] \in Int /\ g[j] \in Int /\ h[j] \in Int
    BY <2>1
  <2>3. IsFiniteSet(T)
    BY FS_Subset
  <2> HIDE DEF W
  <2>4. /\ Total(f, W) = f[x] + Total(f, T)
        /\ Total(g, W) = g[x] + Total(g, T)
        /\ Total(h, W) = h[x] + Total(h, T)
    BY <2>1, <2>2, TotalTakesOut
  <2>5. Total(f, T) \in Int /\ Total(g, T) \in Int
    BY <2>3, TotalInt
  <2>6. h[x] = f[x] + g[x] /\ f[x] \in Int /\ g[x] \in Int
    OBVIOUS
  <2>7. Total(h, T) = Total(f, T) + Total(g, T)
    BY <1>2
  <2>8. Total(h, W) = Total(f, W) + Total(g, W)
    BY <2>4, <2>5, <2>6, <2>7
  <2> QED BY <2>1, <2>8 DEF W
<1> HIDE DEF G
<1>3. S \in G
  BY <1>1, <1>2, SetInduction
<1> QED BY <1>3 DEF G

(* A common factor comes out of a sum.                                     *)
LEMMA TotalScales ==
  ASSUME NEW f, NEW h, NEW S, IsFiniteSet(S), NEW a \in Int,
         \A j \in S : f[j] \in Int /\ h[j] = a * f[j]
  PROVE  Total(h, S) = a * Total(f, S)
<1> DEFINE G == {T \in SUBSET S : Total(h, T) = a * Total(f, T)}
<1>1. {} \in G
  BY TotalEmpty
<1>2. ASSUME NEW T \in SUBSET S, NEW x \in S \ T, T \in G
      PROVE  T \cup {x} \in G
  <2> DEFINE W == T \cup {x}
  <2>1. IsFiniteSet(W) /\ W \in SUBSET S /\ x \in W /\ W \ {x} = T
    BY <1>2, FS_Subset
  <2>2. \A j \in W : f[j] \in Int /\ h[j] \in Int
    BY <2>1
  <2>3. IsFiniteSet(T)
    BY FS_Subset
  <2> HIDE DEF W
  <2>4. /\ Total(f, W) = f[x] + Total(f, T)
        /\ Total(h, W) = h[x] + Total(h, T)
    BY <2>1, <2>2, TotalTakesOut
  <2>5. Total(f, T) \in Int
    BY <2>3, TotalInt
  <2>6. h[x] = a * f[x] /\ f[x] \in Int
    OBVIOUS
  <2>7. Total(h, T) = a * Total(f, T)
    BY <1>2
  <2>8. Total(h, W) = a * Total(f, W)
    BY <2>4, <2>5, <2>6, <2>7
  <2> QED BY <2>1, <2>8 DEF W
<1> HIDE DEF G
<1>3. S \in G
  BY <1>1, <1>2, SetInduction
<1> QED BY <1>3 DEF G

(* A sum grows with its terms.                                             *)
LEMMA TotalGrows ==
  ASSUME NEW f, NEW g, NEW S, IsFiniteSet(S),
         \A j \in S : f[j] \in Int /\ g[j] \in Int /\ f[j] <= g[j]
  PROVE  Total(f, S) <= Total(g, S)
<1> DEFINE G == {T \in SUBSET S : Total(f, T) <= Total(g, T)}
<1>1. {} \in G
  BY TotalEmpty
<1>2. ASSUME NEW T \in SUBSET S, NEW x \in S \ T, T \in G
      PROVE  T \cup {x} \in G
  <2> DEFINE W == T \cup {x}
  <2>1. IsFiniteSet(W) /\ W \in SUBSET S /\ x \in W /\ W \ {x} = T
    BY <1>2, FS_Subset
  <2>2. \A j \in W : f[j] \in Int /\ g[j] \in Int
    BY <2>1
  <2>3. IsFiniteSet(T)
    BY FS_Subset
  <2> HIDE DEF W
  <2>4. /\ Total(f, W) = f[x] + Total(f, T)
        /\ Total(g, W) = g[x] + Total(g, T)
    BY <2>1, <2>2, TotalTakesOut
  <2>5. Total(f, T) \in Int /\ Total(g, T) \in Int
    BY <2>3, TotalInt
  <2>6. f[x] <= g[x] /\ f[x] \in Int /\ g[x] \in Int
    OBVIOUS
  <2>7. Total(f, T) <= Total(g, T)
    BY <1>2
  <2>8. Total(f, W) <= Total(g, W)
    BY <2>4, <2>5, <2>6, <2>7
  <2> QED BY <2>1, <2>8 DEF W
<1> HIDE DEF G
<1>3. S \in G
  BY <1>1, <1>2, SetInduction
<1> QED BY <1>3 DEF G

(* Terms that are zero may be left out.                                    *)
LEMMA TotalSkipsZeros ==
  ASSUME NEW f, NEW S, IsFiniteSet(S), NEW T \in SUBSET S,
         \A j \in S : f[j] \in Int, \A j \in S \ T : f[j] = 0
  PROVE  Total(f, S) = Total(f, T)
<1> DEFINE D == S \ T
           G == {R \in SUBSET D : Total(f, T \cup R) = Total(f, T)}
<1>1. T \cup {} = T /\ {} \in G
  OBVIOUS
<1>2. ASSUME NEW R \in SUBSET D, NEW x \in D \ R, R \in G
      PROVE  R \cup {x} \in G
  <2> DEFINE W == T \cup (R \cup {x})
  <2>1. IsFiniteSet(W) /\ IsFiniteSet(T \cup R) /\ W \in SUBSET S /\ x \in W /\ W \ {x} = T \cup R
    BY FS_Subset
  <2>2. (\A j \in W : f[j] \in Int) /\ (\A j \in T \cup R : f[j] \in Int) /\ f[x] = 0
    BY <2>1
  <2> HIDE DEF W
  <2>4. Total(f, W) = f[x] + Total(f, T \cup R)
    BY <2>1, <2>2, TotalTakesOut
  <2>5. Total(f, T \cup R) \in Int
    BY <2>1, <2>2, TotalInt
  <2>7. Total(f, T \cup R) = Total(f, T)
    BY <1>2
  <2>8. Total(f, W) = Total(f, T)
    BY <2>4, <2>5, <2>2, <2>7
  <2> QED BY <2>8 DEF W
<1>3. IsFiniteSet(D)
  BY FS_Subset
<1>4. T \cup D = S
  OBVIOUS
<1> HIDE DEF D
<1>5. D \in G
  <2> HIDE DEF G
  <2> QED BY <1>1, <1>2, <1>3, SetInduction
<1> QED BY <1>4, <1>5

(* A sum of zeros is zero.                                                 *)
LEMMA TotalOfZeros ==
  ASSUME NEW f, NEW S, IsFiniteSet(S), \A j \in S : f[j] = 0
  PROVE  Total(f, S) = 0
<1>1. Total(f, S) = Total(f, {})
  BY TotalSkipsZeros
<1> QED BY <1>1, TotalEmpty

(* A table adds up to the same by rows (r) and by columns (c).             *)
LEMMA TotalExchange ==
  ASSUME NEW F, NEW R, IsFiniteSet(R), NEW C, IsFiniteSet(C), NEW G, NEW r, NEW c,
         \A i \in R, j \in C : F[i][j] \in Int /\ G[j][i] = F[i][j],
         \A i \in R : r[i] = Total(F[i], C),
         \A j \in C : c[j] = Total(G[j], R)
  PROVE  Total(r, R) = Total(c, C)
<1> DEFINE part(T) == [j \in C |-> Total(G[j], T)]
           Same == {T \in SUBSET R : Total(r, T) = Total(part(T), C)}
<1>1. \A i \in R : r[i] \in Int
  BY TotalInt
<1>2. \A T \in SUBSET R : \A j \in C : part(T)[j] = Total(G[j], T)
  OBVIOUS
<1>3. {} \in Same
  <2>1. \A j \in C : part({})[j] = 0
    BY TotalEmpty
  <2> HIDE DEF part
  <2>2. Total(part({}), C) = 0
    BY <2>1, TotalOfZeros
  <2> QED BY <2>2, TotalEmpty
<1>4. ASSUME NEW T \in SUBSET R, NEW x \in R \ T, T \in Same
      PROVE  T \cup {x} \in Same
  <2> DEFINE W == T \cup {x}
  <2>1. IsFiniteSet(W) /\ IsFiniteSet(T) /\ W \in SUBSET R /\ x \in W /\ W \ {x} = T
    BY FS_Subset
  <2> HIDE DEF W
  <2>2. Total(r, W) = r[x] + Total(r, T)
    BY <2>1, <1>1, TotalTakesOut
  <2>3. ASSUME NEW j \in C
        PROVE  /\ Total(G[j], W) = F[x][j] + Total(G[j], T)
               /\ Total(G[j], T) \in Int /\ F[x][j] \in Int
    <3>1. (\A i \in W : G[j][i] \in Int) /\ (\A i \in T : G[j][i] \in Int)
      BY <2>1
    <3>2. Total(G[j], W) = G[j][x] + Total(G[j], T)
      BY <2>1, <3>1, TotalTakesOut
    <3>3. Total(G[j], T) \in Int
      BY <2>1, <3>1, TotalInt
    <3> QED BY <3>2, <3>3
  <2>4. \A j \in C : /\ F[x][j] \in Int /\ part(T)[j] \in Int
                     /\ part(W)[j] = F[x][j] + part(T)[j]
    BY <2>1, <2>3, <1>2
  <2> HIDE DEF part
  <2>5. Total(part(W), C) = Total(F[x], C) + Total(part(T), C)
    BY <2>4, TotalAdds
  <2>6. Total(r, W) = Total(part(W), C)
    BY <2>2, <2>5, <1>1, <1>4
  <2> QED BY <2>1, <2>6 DEF W
<1>5. R \in Same
  <2> HIDE DEF Same
  <2> QED BY <1>3, <1>4, SetInduction
<1>6. Total(part(R), C) = Total(c, C)
  <2>1. \A j \in C : part(R)[j] = c[j]
    BY <1>2
  <2> HIDE DEF part
  <2> QED BY <2>1, TotalAgrees
<1> QED BY <1>5, <1>6

(* The scalar products of the models, as sums of a function.               *)
LEMMA TotalOfProducts ==
  ASSUME NEW a, NEW b, NEW S
  PROVE  MapThenSumSet(LAMBDA j : a[j] * b[j], S) = Total([j \in S |-> a[j] * b[j]], S)
BY DEF Total, MapThenSumSet, MapThenFoldSet
=============================================================================
