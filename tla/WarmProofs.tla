----------------------------- MODULE WarmProofs -----------------------------
(***************************************************************************)
(* Proofs about the warm-started simplex: whatever calls describe the      *)
(* program and whatever solves run between them, the struct stands on a    *)
(* basic solution, its evidence proves its verdicts and every verdict is   *)
(* the truth about the program as the caller last described it.            *)
(*                                                                         *)
(* The argument, in order: products of vectors and inverses of a basis;    *)
(* weak duality and refutations in the caller's variables; the equality    *)
(* form and its inverse, which total unimodularity keeps within -1, 0 and  *)
(* 1; the directions of primal_step; the starts of the cold and the warm   *)
(* solves; the evidence of Phase I and of the dual simplex; the ends of    *)
(* the lanes; the calls that describe the program; the invariant.          *)
(***************************************************************************)
EXTENDS WarmSimplex, SumFacts, SequenceTheorems, TLAPS

(* A sum with one term that is not zero is that term.                      *)
LEMMA TotalOfOne ==
  ASSUME NEW f, NEW S, IsFiniteSet(S), NEW j \in S, f[j] \in Int, \A k \in S \ {j} : f[k] = 0
  PROVE  Total(f, S) = f[j]
<1>1. \A k \in S : f[k] \in Int
  OBVIOUS
<1>2. Total(f, S) = f[j] + Total(f, S \ {j})
  BY <1>1, TotalTakesOut
<1>3. IsFiniteSet(S \ {j})
  BY FS_Subset
<1>4. Total(f, S \ {j}) = 0
  BY <1>3, TotalOfZeros
<1> QED BY <1>2, <1>4

(* The difference of two sums over a set.                                  *)
LEMMA TotalSubtracts ==
  ASSUME NEW f, NEW g, NEW h, NEW S, IsFiniteSet(S),
         \A j \in S : f[j] \in Int /\ g[j] \in Int /\ h[j] = f[j] - g[j]
  PROVE  Total(h, S) = Total(f, S) - Total(g, S)
<1>1. \A j \in S : h[j] \in Int /\ f[j] = h[j] + g[j]  OBVIOUS
<1>2. Total(f, S) = Total(h, S) + Total(g, S)  BY <1>1, TotalAdds
<1>3. Total(f, S) \in Int /\ Total(g, S) \in Int /\ Total(h, S) \in Int  BY <1>1, TotalInt
<1> QED BY <1>2, <1>3

(* A sum over two sets that have nothing in common.                        *)
LEMMA TotalOfUnion ==
  ASSUME NEW f, NEW S, NEW T, IsFiniteSet(S), IsFiniteSet(T), S \cap T = {},
         \A j \in S \cup T : f[j] \in Int
  PROVE  Total(f, S \cup T) = Total(f, S) + Total(f, T)
<1> DEFINE g == [j \in S \cup T |-> IF j \in S THEN f[j] ELSE 0]
           h == [j \in S \cup T |-> IF j \in S THEN 0 ELSE f[j]]
<1>1. IsFiniteSet(S \cup T)  BY FS_Union
<1>2. Total(f, S \cup T) = Total(g, S \cup T) + Total(h, S \cup T)
  <2>1. \A j \in S \cup T : g[j] \in Int /\ h[j] \in Int /\ f[j] = g[j] + h[j]  OBVIOUS
  <2> HIDE DEF g, h
  <2> QED BY <1>1, <2>1, TotalAdds
<1>3. Total(g, S \cup T) = Total(f, S)
  <2>1. S \in SUBSET (S \cup T)  OBVIOUS
  <2>2. \A j \in S \cup T : g[j] \in Int  OBVIOUS
  <2>3. \A j \in (S \cup T) \ S : g[j] = 0  OBVIOUS
  <2>4. \A j \in S : g[j] = f[j]  OBVIOUS
  <2> HIDE DEF g
  <2>5. Total(g, S \cup T) = Total(g, S)  BY <1>1, <2>1, <2>2, <2>3, TotalSkipsZeros
  <2> QED BY <2>4, <2>5, TotalAgrees
<1>4. Total(h, S \cup T) = Total(f, T)
  <2>1. T \in SUBSET (S \cup T)  OBVIOUS
  <2>2. \A j \in S \cup T : h[j] \in Int  OBVIOUS
  <2>3. \A j \in (S \cup T) \ T : h[j] = 0  OBVIOUS
  <2>4. \A j \in T : h[j] = f[j]  OBVIOUS
  <2> HIDE DEF h
  <2>5. Total(h, S \cup T) = Total(h, T)  BY <1>1, <2>1, <2>2, <2>3, TotalSkipsZeros
  <2> QED BY <2>4, <2>5, TotalAgrees
<1> QED BY <1>2, <1>3, <1>4

(* A double sum, row by row and column by column.                          *)
LEMMA TotalTurned ==
  ASSUME NEW R, IsFiniteSet(R), NEW S, IsFiniteSet(S), NEW F,
         \A i \in R, k \in S : F[i][k] \in Int
  PROVE  Total([i \in R |-> Total(F[i], S)], R)
           = Total([k \in S |-> Total([i \in R |-> F[i][k]], R)], S)
<1> DEFINE byRow == [i \in R |-> Total(F[i], S)]
           column(k) == [i \in R |-> F[i][k]]
           part(T) == [k \in S |-> Total(column(k), T)]
           Same == {T \in SUBSET R : Total(byRow, T) = Total(part(T), S)}
<1>1. \A i \in R : byRow[i] \in Int /\ byRow[i] = Total(F[i], S)  BY TotalInt
<1>2. \A T \in SUBSET R : \A k \in S : part(T)[k] = Total(column(k), T)  OBVIOUS
<1>3. \A k \in S : \A i \in R : column(k)[i] = F[i][k]  OBVIOUS
<1> HIDE DEF byRow, column
<1>4. {} \in Same
  <2>1. \A k \in S : part({})[k] = 0  BY TotalEmpty
  <2> HIDE DEF part
  <2>2. Total(part({}), S) = 0  BY <2>1, TotalOfZeros
  <2> QED BY <2>2, TotalEmpty
<1>5. ASSUME NEW T \in SUBSET R, NEW x \in R \ T, T \in Same
      PROVE  T \cup {x} \in Same
  <2> DEFINE W == T \cup {x}
  <2>1. IsFiniteSet(W) /\ IsFiniteSet(T) /\ W \in SUBSET R /\ x \in W /\ W \ {x} = T
    BY FS_Subset
  <2> HIDE DEF W
  <2>2. Total(byRow, W) = byRow[x] + Total(byRow, T)
    BY <2>1, <1>1, TotalTakesOut
  <2>3. ASSUME NEW k \in S
        PROVE  /\ Total(column(k), W) = F[x][k] + Total(column(k), T)
               /\ Total(column(k), T) \in Int /\ F[x][k] \in Int
    <3>1. (\A i \in W : column(k)[i] \in Int) /\ (\A i \in T : column(k)[i] \in Int)
      BY <2>1, <1>3
    <3>2. Total(column(k), W) = column(k)[x] + Total(column(k), T)
      BY <2>1, <3>1, TotalTakesOut
    <3>3. Total(column(k), T) \in Int
      BY <2>1, <3>1, TotalInt
    <3> QED BY <3>2, <3>3, <1>3
  <2>4. \A k \in S : /\ F[x][k] \in Int /\ part(T)[k] \in Int
                     /\ part(W)[k] = F[x][k] + part(T)[k]
    BY <2>1, <2>3, <1>2
  <2> HIDE DEF part
  <2>5. Total(part(W), S) = Total(F[x], S) + Total(part(T), S)
    BY <2>4, TotalAdds
  <2>6. Total(byRow, W) = Total(part(W), S)
    BY <2>2, <2>5, <1>1, <1>5
  <2> QED BY <2>1, <2>6 DEF W
<1>6. R \in Same
  <2> HIDE DEF Same
  <2> QED BY <1>4, <1>5, SetInduction
<1>7. Total(byRow, R) = Total(part(R), S)  BY <1>6
<1> QED BY <1>7 DEF byRow, column

(* A sum over the image of an injection.                                   *)
LEMMA TotalReindexed ==
  ASSUME NEW R, IsFiniteSet(R), NEW b, \A i, r \in R : b[i] = b[r] => i = r,
         NEW f, NEW g, \A i \in R : g[i] \in Int /\ f[b[i]] = g[i]
  PROVE  /\ IsFiniteSet({b[i] : i \in R})
         /\ Total(f, {b[i] : i \in R}) = Total(g, R)
<1> DEFINE S == {b[i] : i \in R}
           cells == [i \in R |-> [k \in S |-> IF b[i] = k THEN f[k] ELSE 0]]
           turned == [k \in S |-> [i \in R |-> IF b[i] = k THEN f[k] ELSE 0]]
           byRow == [i \in R |-> Total(cells[i], S)]
           byColumn == [k \in S |-> Total(turned[k], R)]
<1>1. IsFiniteSet(S)
  <2> DEFINE h == [i \in R |-> b[i]]
  <2>1. h \in Surjection(R, S)  BY DEF Surjection
  <2> QED BY <2>1, FS_Surjection
<1>2. \A k \in S : f[k] \in Int  OBVIOUS
<1>3. \A i \in R, k \in S : cells[i][k] \in Int /\ turned[k][i] = cells[i][k]  BY <1>2
<1>4. \A i \in R : byRow[i] = g[i]
  <2> SUFFICES ASSUME NEW i \in R PROVE Total(cells[i], S) = g[i]  OBVIOUS
  <2>1. b[i] \in S  OBVIOUS
  <2>3. \A k \in S \ {b[i]} : cells[i][k] = 0  OBVIOUS
  <2>4. cells[i][b[i]] = g[i] /\ g[i] \in Int  OBVIOUS
  <2> HIDE DEF cells, S
  <2> QED BY <1>1, <2>1, <2>3, <2>4, TotalOfOne
<1>5. \A k \in S : byColumn[k] = f[k]
  <2> SUFFICES ASSUME NEW k \in S PROVE Total(turned[k], R) = f[k]  OBVIOUS
  <2>1. PICK i \in R : b[i] = k  OBVIOUS
  <2>3. \A t \in R \ {i} : turned[k][t] = 0  BY <2>1
  <2>4. turned[k][i] = f[k] /\ f[k] \in Int  BY <2>1
  <2> HIDE DEF turned, S
  <2> QED BY <2>1, <2>3, <2>4, TotalOfOne
<1>6. Total(byRow, R) = Total(byColumn, S)
  <2>1. \A k \in S : turned[k] = [i \in R |-> cells[i][k]]  OBVIOUS
  <2>2. byColumn = [k \in S |-> Total([i \in R |-> cells[i][k]], R)]  BY <2>1
  <2>3. \A i \in R, k \in S : cells[i][k] \in Int  BY <1>3
  <2> HIDE DEF cells, turned, S, byColumn
  <2>4. Total(byRow, R) = Total([k \in S |-> Total([i \in R |-> cells[i][k]], R)], S)
    BY <1>1, <2>3, TotalTurned
  <2> QED BY <2>2, <2>4
<1>7. Total(byRow, R) = Total(g, R)
  <2> HIDE DEF byRow
  <2> QED BY <1>4, TotalAgrees
<1>8. Total(byColumn, S) = Total(f, S)
  <2> HIDE DEF byColumn, S
  <2> QED BY <1>1, <1>5, TotalAgrees
<1> QED BY <1>1, <1>6, <1>7, <1>8

(* The scalar product of u and v over R.                                   *)
Prod(u, v, R) == Total([r \in R |-> u[r] * v[r]], R)

(* v is an integer vector over R.                                          *)
Ints(v, R) == \A r \in R : v[r] \in Int

(* A product of integer vectors is an integer.                             *)
LEMMA ProdInt ==
  ASSUME NEW R, IsFiniteSet(R), NEW u, NEW v, Ints(u, R), Ints(v, R)
  PROVE  Prod(u, v, R) \in Int
<1> DEFINE f == [r \in R |-> u[r] * v[r]]
<1>1. \A r \in R : f[r] \in Int  BY DEF Ints
<1> HIDE DEF f
<1>2. Total(f, R) \in Int  BY <1>1, TotalInt
<1> QED BY <1>2 DEF f, Prod

(* A product depends on the products of the entries only.                  *)
LEMMA ProdAgrees ==
  ASSUME NEW R, IsFiniteSet(R), NEW u, NEW v, NEW w, NEW z,
         \A r \in R : u[r] * v[r] = w[r] * z[r]
  PROVE  Prod(u, v, R) = Prod(w, z, R)
<1>1. [r \in R |-> u[r] * v[r]] = [r \in R |-> w[r] * z[r]]  OBVIOUS
<1> QED BY <1>1 DEF Prod

(* It is symmetric,                                                        *)
LEMMA ProdSwaps ==
  ASSUME NEW R, IsFiniteSet(R), NEW u, NEW v, Ints(u, R), Ints(v, R)
  PROVE  Prod(u, v, R) = Prod(v, u, R)
<1>1. \A r \in R : u[r] * v[r] = v[r] * u[r]  BY DEF Ints
<1> QED BY <1>1, ProdAgrees

(* and linear in either vector,                                            *)
LEMMA ProdScales ==
  ASSUME NEW R, IsFiniteSet(R), NEW a \in Int, NEW u, NEW v, NEW w, Ints(u, R), Ints(v, R),
         \A r \in R : w[r] = a * u[r]
  PROVE  Prod(w, v, R) = a * Prod(u, v, R)
<1> DEFINE f == [r \in R |-> u[r] * v[r]]
           h == [r \in R |-> w[r] * v[r]]
<1>1. \A r \in R : f[r] \in Int /\ h[r] = a * f[r]
  <2> SUFFICES ASSUME NEW r \in R PROVE u[r] * v[r] \in Int /\ w[r] * v[r] = a * (u[r] * v[r])
    OBVIOUS
  <2>1. u[r] \in Int /\ v[r] \in Int /\ w[r] = a * u[r]  BY DEF Ints
  <2>2. \A x, y \in Int : x * y \in Int /\ (a * x) * y = a * (x * y)  OBVIOUS
  <2> QED BY <2>1, <2>2
<1> HIDE DEF f, h
<1>2. Total(h, R) = a * Total(f, R)  BY <1>1, TotalScales
<1> QED BY <1>2 DEF f, h, Prod

(* Products with a sum or a difference of vectors.                         *)
LEMMA ProdAdds ==
  ASSUME NEW R, IsFiniteSet(R), NEW u, NEW v, NEW w, NEW z, Ints(u, R), Ints(v, R), Ints(w, R),
         \A r \in R : z[r] = u[r] + w[r]
  PROVE  Prod(z, v, R) = Prod(u, v, R) + Prod(w, v, R)
<1> DEFINE f == [r \in R |-> u[r] * v[r]]
           g == [r \in R |-> w[r] * v[r]]
           h == [r \in R |-> z[r] * v[r]]
<1>1. \A r \in R : f[r] \in Int /\ g[r] \in Int /\ h[r] = f[r] + g[r]
  <2> SUFFICES ASSUME NEW r \in R
               PROVE u[r] * v[r] \in Int /\ w[r] * v[r] \in Int
                       /\ z[r] * v[r] = u[r] * v[r] + w[r] * v[r]
    OBVIOUS
  <2>1. u[r] \in Int /\ v[r] \in Int /\ w[r] \in Int /\ z[r] = u[r] + w[r]  BY DEF Ints
  <2>2. \A x, y, t \in Int : x * y \in Int /\ (x + t) * y = x * y + t * y  OBVIOUS
  <2> QED BY <2>1, <2>2
<1> HIDE DEF f, g, h
<1>2. Total(h, R) = Total(f, R) + Total(g, R)  BY <1>1, TotalAdds
<1> QED BY <1>2 DEF f, g, h, Prod

(* also in a row less a multiple of another.                               *)
LEMMA ProdSubtracts ==
  ASSUME NEW R, IsFiniteSet(R), NEW a \in Int, NEW u, NEW v, NEW w, NEW z,
         Ints(u, R), Ints(v, R), Ints(w, R), \A r \in R : z[r] = u[r] - a * w[r]
  PROVE  Prod(z, v, R) = Prod(u, v, R) - a * Prod(w, v, R)
<1> DEFINE t == [r \in R |-> (-a) * w[r]]
<1>0. -a \in Int  OBVIOUS
<1>1. \A r \in R : t[r] \in Int /\ z[r] = u[r] + t[r]
  <2> SUFFICES ASSUME NEW r \in R PROVE (-a) * w[r] \in Int /\ z[r] = u[r] + (-a) * w[r]
    OBVIOUS
  <2>1. u[r] \in Int /\ w[r] \in Int /\ z[r] = u[r] - a * w[r]  BY DEF Ints
  <2>2. \A x, y \in Int : (-a) * x \in Int /\ y - a * x = y + (-a) * x  OBVIOUS
  <2> QED BY <2>1, <2>2
<1>2. \A r \in R : t[r] = (-a) * w[r]  OBVIOUS
<1> HIDE DEF t
<1>3. Ints(t, R)  BY <1>1 DEF Ints
<1>4. Prod(z, v, R) = Prod(u, v, R) + Prod(t, v, R)  BY <1>1, <1>3, ProdAdds
<1>5. Prod(t, v, R) = (-a) * Prod(w, v, R)  BY <1>0, <1>2, ProdScales
<1>6. Prod(u, v, R) \in Int /\ Prod(w, v, R) \in Int  BY ProdInt
<1> QED BY <1>4, <1>5, <1>6

(* y^T (M w) = (y^T M) w.                                                  *)
LEMMA ProdAssociates ==
  ASSUME NEW R, IsFiniteSet(R), NEW S, IsFiniteSet(S), NEW y, NEW w, NEW M,
         Ints(y, R), Ints(w, S), \A i \in R : Ints(M[i], S)
  PROVE  Prod(y, [i \in R |-> Prod(M[i], w, S)], R)
           = Prod([k \in S |-> Prod(y, [i \in R |-> M[i][k]], R)], w, S)
<1> DEFINE F == [i \in R |-> [k \in S |-> y[i] * (M[i][k] * w[k])]]
           left == [i \in R |-> Prod(M[i], w, S)]
           right == [k \in S |-> Prod(y, [i \in R |-> M[i][k]], R)]
<1>1. \A i \in R, k \in S : F[i][k] \in Int
  <2> SUFFICES ASSUME NEW i \in R, NEW k \in S PROVE y[i] * (M[i][k] * w[k]) \in Int  OBVIOUS
  <2>1. y[i] \in Int /\ M[i][k] \in Int /\ w[k] \in Int  BY DEF Ints
  <2>2. \A a, b, c \in Int : a * (b * c) \in Int  OBVIOUS
  <2> QED BY <2>1, <2>2
<1>2. Total([i \in R |-> Total(F[i], S)], R)
        = Total([k \in S |-> Total([i \in R |-> F[i][k]], R)], S)
  <2> HIDE DEF F
  <2> QED BY <1>1, TotalTurned
<1>3. ASSUME NEW i \in R PROVE y[i] * left[i] = Total(F[i], S)
  <2> DEFINE f == [k \in S |-> M[i][k] * w[k]]
             h == [k \in S |-> y[i] * (M[i][k] * w[k])]
  <2>1. y[i] \in Int /\ \A k \in S : f[k] \in Int /\ h[k] = y[i] * f[k]
    BY DEF Ints
  <2>2. F[i] = h  OBVIOUS
  <2>3. left[i] = Total(f, S)  BY DEF Prod
  <2> HIDE DEF f, h, F, left
  <2>4. Total(h, S) = y[i] * Total(f, S)  BY <2>1, TotalScales
  <2> QED BY <2>2, <2>3, <2>4
<1>4. ASSUME NEW k \in S PROVE right[k] * w[k] = Total([i \in R |-> F[i][k]], R)
  <2> DEFINE f == [i \in R |-> y[i] * M[i][k]]
             h == [i \in R |-> y[i] * (M[i][k] * w[k])]
             g == [i \in R |-> M[i][k]]
  <2>1. w[k] \in Int /\ \A i \in R : f[i] \in Int /\ h[i] = w[k] * f[i]
    <3>1. w[k] \in Int  BY DEF Ints
    <3> SUFFICES ASSUME NEW i \in R
                 PROVE y[i] * M[i][k] \in Int /\ y[i] * (M[i][k] * w[k]) = w[k] * (y[i] * M[i][k])
      BY <3>1
    <3>2. y[i] \in Int /\ M[i][k] \in Int  BY DEF Ints
    <3>3. \A a, b, c \in Int : a * b \in Int /\ a * (b * c) = c * (a * b)  OBVIOUS
    <3> QED BY <3>1, <3>2, <3>3
  <2>2. [i \in R |-> F[i][k]] = h  OBVIOUS
  <2>3. right[k] = Total(f, R)
    <3>1. [i \in R |-> y[i] * g[i]] = f  OBVIOUS
    <3> QED BY <3>1 DEF Prod
  <2> HIDE DEF f, h, F, right
  <2>4. Total(h, R) = w[k] * Total(f, R)  BY <2>1, TotalScales
  <2>5. Total(f, R) \in Int  BY <2>1, TotalInt
  <2> QED BY <2>1, <2>2, <2>3, <2>4, <2>5
<1>5. Prod(y, left, R) = Total([i \in R |-> Total(F[i], S)], R)
  <2>1. [i \in R |-> y[i] * left[i]] = [i \in R |-> Total(F[i], S)]
    <3> HIDE DEF left, F
    <3> QED BY <1>3
  <2> HIDE DEF left, F
  <2> QED BY <2>1 DEF Prod
<1>6. Prod(right, w, S) = Total([k \in S |-> Total([i \in R |-> F[i][k]], R)], S)
  <2>1. [k \in S |-> right[k] * w[k]] = [k \in S |-> Total([i \in R |-> F[i][k]], R)]
    <3> HIDE DEF right, F
    <3> QED BY <1>4
  <2> HIDE DEF right, F
  <2> QED BY <2>1 DEF Prod
<1> HIDE DEF F
<1> QED BY <1>2, <1>5, <1>6

(* A unit vector, and an integer matrix.                                   *)
Unit(p, R) == [r \in R |-> IF r = p THEN 1 ELSE 0]

IntMatrix(M, R, S) == \A i \in R : Ints(M[i], S)

(* T is M transposed; v is M w.                                            *)
Transposes(T, M, R, S) == \A i \in R, k \in S : T[k][i] = M[i][k]
Times(v, M, w, R, S) == \A i \in R : v[i] = Prod(M[i], w, S)

(* y (M w) = (M^T y) w.                                                    *)
LEMMA ProdTransposed ==
  ASSUME NEW R, IsFiniteSet(R), NEW S, IsFiniteSet(S), NEW y, NEW w, NEW M, NEW T,
         Ints(y, R), Ints(w, S), IntMatrix(M, R, S), Transposes(T, M, R, S),
         NEW v, Times(v, M, w, R, S), NEW z, Times(z, T, y, S, R)
  PROVE  Prod(y, v, R) = Prod(z, w, S) /\ Ints(v, R) /\ Ints(z, S)
<1>1. \A i \in R : Ints(M[i], S)  BY DEF IntMatrix
<1>2. Prod(y, [i \in R |-> Prod(M[i], w, S)], R)
           = Prod([k \in S |-> Prod(y, [i \in R |-> M[i][k]], R)], w, S)
  BY <1>1, ProdAssociates
<1>3. Prod(y, v, R) = Prod(y, [i \in R |-> Prod(M[i], w, S)], R)
  <2>1. [i \in R |-> y[i] * v[i]] = [i \in R |-> y[i] * [r \in R |-> Prod(M[r], w, S)][i]]
    BY DEF Times
  <2> QED BY <2>1 DEF Prod
<1>4. ASSUME NEW k \in S PROVE z[k] = Prod(y, [i \in R |-> M[i][k]], R) /\ Ints(T[k], R)
  <2>1. Ints(T[k], R)  BY DEF Transposes, IntMatrix, Ints
  <2>2. z[k] = Prod(y, T[k], R)
    <3>1. z[k] = Prod(T[k], y, R)  BY DEF Times
    <3> QED BY <2>1, <3>1, ProdSwaps
  <2>3. [i \in R |-> y[i] * T[k][i]] = [i \in R |-> y[i] * [r \in R |-> M[r][k]][i]]
    BY DEF Transposes
  <2> QED BY <2>1, <2>2, <2>3 DEF Prod
<1>5. Prod(z, w, S) = Prod([k \in S |-> Prod(y, [i \in R |-> M[i][k]], R)], w, S)
  <2>1. [k \in S |-> z[k] * w[k]]
          = [k \in S |-> [j \in S |-> Prod(y, [i \in R |-> M[i][j]], R)][k] * w[k]]
    BY <1>4
  <2> QED BY <2>1 DEF Prod
<1>6. Ints(v, R)
  <2>1. \A i \in R : Prod(M[i], w, S) \in Int  BY <1>1, ProdInt
  <2> QED BY <2>1 DEF Times, Ints
<1>7. Ints(z, S)
  <2>1. \A k \in S : Prod(T[k], y, R) \in Int  BY <1>4, ProdInt
  <2> QED BY <2>1 DEF Times, Ints
<1> QED BY <1>2, <1>3, <1>5, <1>6, <1>7

(* The product with a unit vector is an entry.                             *)
LEMMA ProdOfUnit ==
  ASSUME NEW R, IsFiniteSet(R), NEW u, NEW v, NEW p \in R, Ints(u, R),
         \A r \in R : v[r] = (IF r = p THEN 1 ELSE 0)
  PROVE  Prod(u, v, R) = u[p] /\ Prod(v, u, R) = u[p]
<1> DEFINE f == [r \in R |-> u[r] * v[r]]
<1>1. u[p] \in Int /\ f[p] = u[p] /\ \A r \in R \ {p} : f[r] = 0  BY DEF Ints
<1> HIDE DEF f
<1>2. Total(f, R) = u[p]  BY <1>1, TotalOfOne
<1>3. Prod(u, v, R) = u[p]  BY <1>2 DEF f, Prod
<1>4. Ints(v, R)  BY DEF Ints
<1> QED BY <1>3, <1>4, ProdSwaps

(* The entries of the identity.                                            *)
Delta(i, r) == IF i = r THEN 1 ELSE 0

(* B[t] is the column in slot t of a basis and G its factors: G B = I.     *)
IsLeftInverse(G, B, R) == \A i, t \in R : Prod(G[i], B[t], R) = Delta(i, t)

(* B G = I.                                                                *)
IsRightInverse(G, B, R) ==
  \A i, r \in R : Prod([t \in R |-> B[t][i]], [t \in R |-> G[t][r]], R) = Delta(i, r)

(* A square integer matrix.                                                *)
Matrix(G, R) == \A i \in R : Ints(G[i], R)

(* A row of the identity, times v.                                         *)
LEMMA DeltaTimes ==
  ASSUME NEW R, IsFiniteSet(R), NEW v, Ints(v, R), NEW i \in R, NEW q,
         \A r \in R : q[r] = Delta(i, r)
  PROVE  Prod(q, v, R) = v[i]
<1>1. \A r \in R : q[r] = (IF r = i THEN 1 ELSE 0)  BY DEF Delta
<1> QED BY <1>1, ProdOfUnit

(* B (G v) = v.                                                            *)
LEMMA SolvesSystem ==
  ASSUME NEW R, IsFiniteSet(R), NEW G, NEW B, Matrix(G, R), Matrix(B, R), IsRightInverse(G, B, R),
         NEW v, Ints(v, R), NEW d, \A t \in R : d[t] = Prod(G[t], v, R), NEW i \in R,
         NEW row, \A t \in R : row[t] = B[t][i]
  PROVE  Prod(row, d, R) = v[i]
<1> DEFINE q == [r \in R |-> Prod(row, [t \in R |-> G[t][r]], R)]
<1>1. Ints(row, R)  BY DEF Ints, Matrix
<1>2. \A t \in R : Ints(G[t], R)  BY DEF Matrix
<1>3. \A r \in R : q[r] = Delta(i, r)
  <2> SUFFICES ASSUME NEW r \in R PROVE Prod(row, [t \in R |-> G[t][r]], R) = Delta(i, r)
    OBVIOUS
  <2>1. Prod([t \in R |-> B[t][i]], [t \in R |-> G[t][r]], R) = Delta(i, r)
    BY DEF IsRightInverse
  <2>2. [t \in R |-> row[t] * [k \in R |-> G[k][r]][t]]
          = [t \in R |-> [k \in R |-> B[k][i]][t] * [k \in R |-> G[k][r]][t]]
    OBVIOUS
  <2> QED BY <2>1, <2>2 DEF Prod
<1>4. Prod(row, [t \in R |-> Prod(G[t], v, R)], R) = Prod(q, v, R)
  BY <1>1, <1>2, ProdAssociates
<1>5. Prod(row, d, R) = Prod(row, [t \in R |-> Prod(G[t], v, R)], R)
  <2>1. [t \in R |-> row[t] * d[t]]
          = [t \in R |-> row[t] * [r \in R |-> Prod(G[r], v, R)][t]]
    OBVIOUS
  <2> QED BY <2>1 DEF Prod
<1> HIDE DEF q
<1>6. Prod(q, v, R) = v[i]  BY <1>3, DeltaTimes
<1> QED BY <1>4, <1>5, <1>6

(* (c G) B = c.                                                            *)
Prices(y, c, G, R) == \A r \in R : y[r] = Prod(c, [i \in R |-> G[i][r]], R)

(* Prices taken from the factors give every basic column its cost (btran). *)
LEMMA PricesBasis ==
  ASSUME NEW R, IsFiniteSet(R), NEW G, NEW B, Matrix(G, R), Matrix(B, R), IsLeftInverse(G, B, R),
         NEW c, Ints(c, R), NEW t \in R,
         NEW y, Prices(y, c, G, R)
  PROVE  Prod(y, B[t], R) = c[t]
<1> DEFINE w == B[t]
           q == [i \in R |-> Prod(G[i], w, R)]
<1>1. Ints(w, R)  BY DEF Matrix
<1>2. \A i \in R : Ints(G[i], R)  BY DEF Matrix
<1>3. \A i \in R : q[i] = (IF i = t THEN 1 ELSE 0)
  BY DEF IsLeftInverse, Delta
<1>4. Prod(c, q, R) = Prod([r \in R |-> Prod(c, [i \in R |-> G[i][r]], R)], w, R)
  <2> HIDE DEF w
  <2> QED BY <1>1, <1>2, ProdAssociates
<1> HIDE DEF q
<1>5. Prod(c, q, R) = c[t]  BY <1>3, ProdOfUnit
<1>6. Prod(y, w, R) = Prod([r \in R |-> Prod(c, [i \in R |-> G[i][r]], R)], w, R)
  <2>1. [r \in R |-> y[r] * w[r]]
          = [r \in R |-> [k \in R |-> Prod(c, [i \in R |-> G[i][k]], R)][r] * w[r]]
    BY DEF Prices
  <2> QED BY <2>1 DEF Prod
<1> QED BY <1>4, <1>5, <1>6

(* One pivot: slot p takes column a, d == G a, and the factors follow.     *)
Pivoted(G, d, p, R) ==
  [i \in R |-> [r \in R |-> IF i = p THEN d[p] * G[p][r] ELSE G[i][r] - d[i] * d[p] * G[p][r]]]

(* A pivot of the eta file replaces one column of the basis by the         *)
(* entering one: the new factors are a left inverse of the new basis,      *)
LEMMA PivotKeepsLeft ==
  ASSUME NEW R, IsFiniteSet(R), NEW G, NEW B, Matrix(G, R), Matrix(B, R), IsLeftInverse(G, B, R),
         NEW p \in R, NEW a, Ints(a, R), NEW d, \A i \in R : d[i] = Prod(G[i], a, R),
         d[p] \in {-1, 1}, NEW C, C = [t \in R |-> IF t = p THEN a ELSE B[t]]
  PROVE  IsLeftInverse(Pivoted(G, d, p, R), C, R)
<1> DEFINE H == Pivoted(G, d, p, R)
<1> SUFFICES ASSUME NEW i \in R, NEW t \in R PROVE Prod(H[i], C[t], R) = Delta(i, t)
  BY DEF IsLeftInverse
<1>1. Ints(G[i], R) /\ Ints(G[p], R) /\ Ints(C[t], R)  BY DEF Matrix
<1>2. Prod(G[i], C[t], R) = (IF t = p THEN d[i] ELSE Delta(i, t))
  BY DEF IsLeftInverse
<1>3. Prod(G[p], C[t], R) = (IF t = p THEN d[p] ELSE Delta(p, t))
  BY DEF IsLeftInverse
<1>4. d[i] \in Int  BY <1>1, ProdInt
<1>5. d[p] \in Int /\ d[p] * d[p] = 1  OBVIOUS
<1>6. CASE i = p
  <2>1. \A r \in R : H[i][r] = d[p] * G[p][r]  BY <1>6 DEF Pivoted
  <2> HIDE DEF H
  <2>2. Prod(H[i], C[t], R) = d[p] * Prod(G[p], C[t], R)  BY <1>1, <1>5, <2>1, ProdScales
  <2>3. CASE t = p
    BY <1>3, <1>5, <1>6, <2>2, <2>3 DEF Delta
  <2>4. CASE t # p
    <3>1. Prod(G[p], C[t], R) = 0  BY <1>3, <2>4 DEF Delta
    <3> QED BY <1>5, <1>6, <2>2, <2>4, <3>1 DEF Delta
  <2> QED BY <2>3, <2>4
<1>7. CASE i # p
  <2> DEFINE m == d[i] * d[p]
  <2>0. m \in Int  BY <1>4, <1>5
  <2>1. \A r \in R : H[i][r] = G[i][r] - m * G[p][r]  BY <1>7 DEF Pivoted
  <2>2. m * d[p] = d[i]
    <3>1. d[p] = 1 \/ d[p] = -1  OBVIOUS
    <3> QED BY <1>4, <3>1
  <2> HIDE DEF H, m
  <2>3. Prod(H[i], C[t], R) = Prod(G[i], C[t], R) - m * Prod(G[p], C[t], R)
    BY <1>1, <2>0, <2>1, ProdSubtracts
  <2>4. CASE t = p
    <3>1. Prod(H[i], C[t], R) = d[i] - m * d[p]  BY <1>2, <1>3, <2>3, <2>4
    <3> QED BY <1>4, <1>7, <2>2, <2>4, <3>1 DEF Delta
  <2>5. CASE t # p
    <3>1. Prod(G[p], C[t], R) = 0 /\ Prod(G[i], C[t], R) = Delta(i, t)
      BY <1>2, <1>3, <2>5 DEF Delta
    <3> QED BY <2>0, <2>3, <3>1 DEF Delta
  <2> QED BY <2>4, <2>5
<1> QED BY <1>6, <1>7

(* and a right inverse.                                                    *)
LEMMA PivotKeepsRight ==
  ASSUME NEW R, IsFiniteSet(R), NEW G, NEW B, Matrix(G, R), Matrix(B, R), IsRightInverse(G, B, R),
         NEW p \in R, NEW a, Ints(a, R), NEW d, \A i \in R : d[i] = Prod(G[i], a, R),
         d[p] \in {-1, 1}, NEW C, C = [t \in R |-> IF t = p THEN a ELSE B[t]]
  PROVE  IsRightInverse(Pivoted(G, d, p, R), C, R)
<1> DEFINE H == Pivoted(G, d, p, R)
<1> SUFFICES ASSUME NEW i \in R, NEW r \in R
             PROVE Prod([t \in R |-> C[t][i]], [t \in R |-> H[t][r]], R) = Delta(i, r)
  BY DEF IsRightInverse
<1> DEFINE u == [t \in R |-> B[t][i]]
           v == [t \in R |-> G[t][r]]
           f == [t \in R |-> C[t][i] * H[t][r]]
           m == d[p] * G[p][r]
           g == [t \in R |-> u[t] * v[t] - m * (u[t] * d[t])]
           h == [t \in R |-> u[t] * v[t]]
           k == [t \in R |-> m * (u[t] * d[t])]
           l == [t \in R |-> u[t] * d[t]]
<1>1. \A t \in R : d[t] \in Int
  <2> SUFFICES ASSUME NEW t \in R PROVE d[t] \in Int  OBVIOUS
  <2>1. Ints(G[t], R)  BY DEF Matrix
  <2> QED BY <2>1, ProdInt
<1>2. \A t \in R : u[t] \in Int /\ v[t] \in Int  BY DEF Matrix, Ints
<1>3. a[i] \in Int /\ G[p][r] \in Int /\ d[p] \in Int  BY <1>1 DEF Matrix, Ints
<1>4. m \in Int  BY <1>3
<1>5. Total(h, R) = Delta(i, r)
  <2>1. Prod(u, v, R) = Delta(i, r)  BY DEF IsRightInverse
  <2> QED BY <2>1 DEF Prod
<1>6. Total(l, R) = a[i]
  <2>1. \A t \in R : u[t] = B[t][i]  OBVIOUS
  <2> HIDE DEF u, v, f, m, g, h, k, l, H
  <2>2. Prod(u, d, R) = a[i]  BY <2>1, SolvesSystem
  <2> QED BY <2>2 DEF Prod, l
<1>7. Total(g, R) = Delta(i, r) - m * a[i]
  <2>1. \A t \in R : h[t] \in Int /\ l[t] \in Int
    <3> SUFFICES ASSUME NEW t \in R PROVE u[t] * v[t] \in Int /\ u[t] * d[t] \in Int  OBVIOUS
    <3>1. u[t] \in Int /\ v[t] \in Int /\ d[t] \in Int  BY <1>1, <1>2
    <3> HIDE DEF u, v
    <3> QED BY <3>1
  <2>2. \A t \in R : k[t] = m * l[t] /\ g[t] = h[t] - k[t]  OBVIOUS
  <2> HIDE DEF g, h, k, l, m
  <2>3. \A t \in R : k[t] \in Int  BY <1>4, <2>1, <2>2
  <2>4. Total(k, R) = m * Total(l, R)  BY <1>4, <2>1, <2>2, TotalScales
  <2>5. Total(g, R) = Total(h, R) - Total(k, R)  BY <2>1, <2>2, <2>3, TotalSubtracts
  <2> QED BY <1>5, <1>6, <2>4, <2>5
<1>8. \A t \in R \ {p} : f[t] = g[t]
  <2> SUFFICES ASSUME NEW t \in R \ {p}
               PROVE u[t] * (v[t] - d[t] * d[p] * G[p][r]) = u[t] * v[t] - m * (u[t] * d[t])
    BY DEF Pivoted
  <2>1. u[t] \in Int /\ v[t] \in Int /\ d[t] \in Int  BY <1>1, <1>2
  <2>2. \A x, y, z, c, e \in Int : x * (y - z * c * e) = x * y - (c * e) * (x * z)  OBVIOUS
  <2> DEFINE ut == u[t]
             vt == v[t]
             dt == d[t]
             dp == d[p]
             gp == G[p][r]
  <2>3. ut \in Int /\ vt \in Int /\ dt \in Int /\ dp \in Int /\ gp \in Int  BY <1>3, <2>1
  <2> HIDE DEF u, v, ut, vt, dt, dp, gp
  <2>4. ut * (vt - dt * dp * gp) = ut * vt - (dp * gp) * (ut * dt)  BY <2>2, <2>3
  <2> QED BY <2>4 DEF ut, vt, dt, dp, gp, m
<1>9. f[p] = a[i] * m  BY DEF Pivoted
<1>10. g[p] = 0
  <2>1. g[p] = u[p] * G[p][r] - (d[p] * G[p][r]) * (u[p] * d[p])  OBVIOUS
  <2>2. u[p] \in Int  BY <1>2
  <2>3. \A x, y \in Int : x * y - (1 * y) * (x * 1) = 0 /\ x * y - ((-1) * y) * (x * (-1)) = 0
    OBVIOUS
  <2> HIDE DEF u, g
  <2> QED BY <1>3, <2>1, <2>2, <2>3
<1>11. \A t \in R : g[t] \in Int
  <2> SUFFICES ASSUME NEW t \in R PROVE u[t] * v[t] - m * (u[t] * d[t]) \in Int  OBVIOUS
  <2>1. u[t] \in Int /\ v[t] \in Int /\ d[t] \in Int  BY <1>1, <1>2
  <2>2. \A x, y, z, c \in Int : x * y - c * (x * z) \in Int  OBVIOUS
  <2> HIDE DEF u, v, m
  <2> QED BY <1>4, <2>1, <2>2
<1>12. \A t \in R : f[t] \in Int
  <2>1. f[p] \in Int
    <3> HIDE DEF f, m
    <3> QED BY <1>3, <1>4, <1>9
  <2> HIDE DEF f, g
  <2> QED BY <1>8, <1>11, <2>1
<1>13. Prod([t \in R |-> C[t][i]], [t \in R |-> H[t][r]], R) = Total(f, R)
  <2>1. [t \in R |-> [q \in R |-> C[q][i]][t] * [q \in R |-> H[q][r]][t]] = f  OBVIOUS
  <2> HIDE DEF f, H
  <2> QED BY <2>1 DEF Prod
<1> HIDE DEF f, g, m, H
<1>14. Total(f, R) = f[p] + Total(f, R \ {p})  BY <1>12, TotalTakesOut
<1>15. Total(g, R) = g[p] + Total(g, R \ {p})  BY <1>11, TotalTakesOut
<1>16. IsFiniteSet(R \ {p})  BY FS_RemoveElement
<1>17. Total(f, R \ {p}) = Total(g, R \ {p})  BY <1>8, <1>16, TotalAgrees
<1>18. Total(g, R \ {p}) \in Int  BY <1>11, <1>16, TotalInt
<1> QED BY <1>3, <1>4, <1>7, <1>9, <1>10, <1>13, <1>14, <1>15, <1>17, <1>18 DEF Delta

(* The rows and the box of the program the struct describes are among      *)
(* those the assumptions speak of.                                         *)
Described(lp) ==
  /\ LinearProgram(lp)
  /\ \E p \in Problems :
       /\ Len(lp.c) = Len(p.c) /\ lp.rows \in RowLists(p)
       /\ \E b \in {BoxOf(p)} \cup Boxes : Len(b.l) = Len(p.c) /\ BoxOf(lp) = BoxOf(b)

(* The fields of the struct.                                               *)
Fields ==
  {"lp", "split", "rebuild_pending", "artSign", "l", "u", "c0", "cobj", "basis", "inv", "status",
   "x", "iters", "carried", "local", "restarted", "lane", "status_out", "farkas_ok", "dfarkas_ok",
   "dfarkas_ray", "unb_ray", "objval", "duals"}

(* e has the fields of the struct and no others.                           *)
IsStruct(e) == e = [f \in Fields |-> e[f]]

(* A bounded column of the caller: one that has bounds of its own.         *)
Own(e, k) == k[1] = "x" /\ k[2] \notin e.split

(* The equality form.                                                      *)
FormInv(e) ==
  /\ LinearProgram(e.lp) /\ e.split \subseteq DOMAIN e.lp.c
  /\ e.artSign \in [Rows(e) -> {-1, 1}]

(* The column in each slot of the basis.                                   *)
BasisMatrix(e) == [t \in Rows(e) |-> Column(e, e.basis[t])]

(* The basis, its factors and the statuses.                                *)
BasisInv(e) ==
  /\ e.basis \in [Rows(e) -> Columns(e)]
  /\ \A i, r \in Rows(e) : e.basis[i] = e.basis[r] => i = r
  /\ e.inv \in [Rows(e) -> [Rows(e) -> {-1, 0, 1}]]
  /\ e.status \in [Columns(e) -> {"BASIC", "NBL", "NBU", "REMOVED"}]
  /\ \A k \in Columns(e) : e.status[k] = "BASIC" <=> k \in Basic(e)
  /\ \A k \in Columns(e) : e.status[k] = "REMOVED" => k[1] = "a"
  /\ IsLeftInverse(e.inv, BasisMatrix(e), Rows(e))
  /\ IsRightInverse(e.inv, BasisMatrix(e), Rows(e))

(* The bounds in the columns, which are the caller's unless the struct     *)
(* waits to be rebuilt.                                                    *)
BoxInv(e) ==
  /\ e.l \in [Columns(e) -> Int] /\ e.u \in [Columns(e) -> Int]
  /\ \A k \in Columns(e) :
       IF Own(e, k)
       THEN /\ e.l[k] <= -LP_INF \/ Small(e.l[k])
            /\ e.u[k] >= LP_INF \/ Small(e.u[k])
       ELSE e.l[k] = 0 /\ (e.u[k] = LP_INF \/ (k[1] = "a" /\ e.u[k] = 0))
  /\ ~e.rebuild_pending =>
       /\ e.split = Split(e.lp)
       /\ \A k \in Columns(e) : Own(e, k) => e.l[k] = e.lp.l[k[2]] /\ e.u[k] = e.lp.u[k[2]]

(* Parked values are at bounds the caller gave once.                       *)
ValuesInv(e) ==
  /\ e.x \in [Columns(e) -> Int]
  /\ \A k \in Parked(e) : IF Own(e, k) THEN Small(e.x[k]) ELSE e.x[k] = 0

(* The costs are those of the program, or of Phase I.                      *)
CostInv(e) ==
  /\ e.c0 = TrueCost(e) /\ e.cobj \in {TrueCost(e), PhaseOneCost(e)}

(* The values of the columns that take part in the rows.                   *)
Present(e) == [k \in Columns(e) |-> IF e.status[k] = "REMOVED" THEN 0 ELSE e.x[k]]

(* Row i of the equality form at w.                                        *)
RowSum(e, w, i) == Total([k \in Columns(e) |-> A(e, k, i) * w[k]], Columns(e))

(* The rows of the equality form hold.                                     *)
RowsHold(e) == \A i \in Rows(e) : RowSum(e, Present(e), i) = Abs(e.lp.rows[i].b)

(* Every parked column at the bound its status names, and the rows hold.   *)
AtBounds(e) ==
  \A k \in Parked(e) : IF e.status[k] = "NBL" THEN e.x[k] = e.l[k] /\ e.l[k] > -LP_INF
                                              ELSE e.x[k] = e.u[k] /\ e.u[k] < LP_INF

(* A basic solution.                                                       *)
Stands(e) == AtBounds(e) /\ RowsHold(e)

(* No artificial can take a value.                                         *)
Harmless(e) == \A k \in Artificials(e) : e.status[k] = "REMOVED" \/ (e.l[k] = 0 /\ e.u[k] = 0)

(* A struct between two pivots, and a struct at any time.                  *)
RunningInv(e) ==
  /\ Stands(e) /\ ~EmptyBox(e) /\ ~e.rebuild_pending
  /\ ~e.farkas_ok /\ ~e.dfarkas_ok /\ e.unb_ray = NoRay
  /\ IF e.lane = "phase1" THEN e.cobj = PhaseOneCost(e) ELSE e.cobj = TrueCost(e) /\ Harmless(e)

StructInv(e) ==
  IsStruct(e) /\ FormInv(e) /\ BasisInv(e) /\ BoxInv(e) /\ ValuesInv(e) /\ CostInv(e)

-----------------------------------------------------------------------------
(* The columns of the equality form.                                       *)

(* The data of a linear program.                                           *)
LEMMA ProgramFacts ==
  ASSUME NEW lp, LinearProgram(lp)
  PROVE  /\ IsFiniteSet(DOMAIN lp.rows) /\ IsFiniteSet(DOMAIN lp.c)
         /\ DOMAIN lp.rows = 1 .. Len(lp.rows) /\ DOMAIN lp.c = 1 .. Len(lp.c)
         /\ Len(lp.rows) \in Nat /\ Len(lp.c) \in Nat \ {0}
         /\ \A i \in DOMAIN lp.rows : /\ lp.rows[i].a \in [DOMAIN lp.c -> Int]
                               /\ lp.rows[i].rel \in {"<", ">", "="} /\ lp.rows[i].b \in Int
         /\ lp.c \in [DOMAIN lp.c -> Int] /\ lp.maximize \in BOOLEAN
         /\ lp.l \in [DOMAIN lp.c -> Int] /\ lp.u \in [DOMAIN lp.c -> Int]
<1>1. /\ lp.rows \in Seq([a : Seq(Int), rel : {"<", ">", "="}, b : Int])
      /\ lp.c \in Seq(Int) /\ lp.l \in Seq(Int) /\ lp.u \in Seq(Int)
      /\ Len(lp.l) = Len(lp.c) /\ Len(lp.u) = Len(lp.c) /\ Len(lp.c) > 0
      /\ lp.maximize \in BOOLEAN
  BY DEF LinearProgram, LinearRow, Box
<1>2. \A i \in DOMAIN lp.rows : Constraint(lp.rows[i], Len(lp.c))
  BY DEF LinearProgram
<1>3. \A n \in Nat : IsFiniteSet(1 .. n)
  BY FS_Interval
<1>4. /\ Len(lp.rows) \in Nat /\ DOMAIN lp.rows = 1 .. Len(lp.rows)
      /\ Len(lp.c) \in Nat \ {0} /\ DOMAIN lp.c = 1 .. Len(lp.c)
      /\ lp.c \in [1 .. Len(lp.c) -> Int]
  BY <1>1
<1>5. lp.l \in [1 .. Len(lp.c) -> Int] /\ lp.u \in [1 .. Len(lp.c) -> Int]
  BY <1>1
<1>6. ASSUME NEW i \in DOMAIN lp.rows
      PROVE  /\ lp.rows[i].a \in [DOMAIN lp.c -> Int]
             /\ lp.rows[i].rel \in {"<", ">", "="} /\ lp.rows[i].b \in Int
  <2>1. Constraint(lp.rows[i], Len(lp.c))  BY <1>2
  <2> QED BY <1>4, <2>1 DEF Constraint, LinearRow
<1> QED BY <1>1, <1>3, <1>4, <1>5, <1>6

(* The same of the program in the struct.                                  *)
LEMMA FormIsFinite ==
  ASSUME NEW e, FormInv(e)
  PROVE  /\ IsFiniteSet(Rows(e)) /\ IsFiniteSet(DOMAIN e.lp.c)
         /\ Rows(e) = 1 .. Len(e.lp.rows) /\ DOMAIN e.lp.c = 1 .. Len(e.lp.c)
         /\ Len(e.lp.rows) \in Nat /\ Len(e.lp.c) \in Nat \ {0}
         /\ \A i \in Rows(e) : /\ e.lp.rows[i].a \in [DOMAIN e.lp.c -> Int]
                               /\ e.lp.rows[i].rel \in {"<", ">", "="} /\ e.lp.rows[i].b \in Int
         /\ e.lp.c \in [DOMAIN e.lp.c -> Int] /\ e.lp.maximize \in BOOLEAN
         /\ e.lp.l \in [DOMAIN e.lp.c -> Int] /\ e.lp.u \in [DOMAIN e.lp.c -> Int]
<1>1. LinearProgram(e.lp)  BY DEF FormInv
<1> QED BY <1>1, ProgramFacts DEF Rows

(* Which tuples are columns.                                               *)
LEMMA ColumnKinds ==
  ASSUME NEW e, FormInv(e)
  PROVE  /\ \A k \in Columns(e) : \/ \E j \in DOMAIN e.lp.c : k = <<"x", j>>
                                  \/ \E j \in e.split : k = <<"n", j>>
                                  \/ \E i \in Rows(e) : k = <<"s", i>> /\ e.lp.rows[i].rel # "="
                                  \/ \E i \in Rows(e) : k = <<"a", i>>
         /\ \A j \in DOMAIN e.lp.c : <<"x", j>> \in Columns(e) /\ <<"x", j>> \in Core(e)
         /\ \A j \in e.split : <<"n", j>> \in Columns(e) /\ <<"n", j>> \in Core(e)
         /\ \A i \in Rows(e) : e.lp.rows[i].rel # "=" => <<"s", i>> \in Columns(e)
         /\ \A i \in Rows(e) : <<"a", i>> \in Columns(e) /\ <<"a", i>> \in Artificials(e)
         /\ \A k \in Columns(e) : k \in Artificials(e) <=> k[1] = "a"
         /\ \A k \in Columns(e) : k \in Core(e) <=> k[1] \in {"x", "n"}
BY DEF Columns, Core, Slacks, Artificials

(* The coefficients of the equality form are integers,                     *)
LEMMA CoefficientInt ==
  ASSUME NEW e, FormInv(e), NEW k \in Columns(e), NEW i \in Rows(e)
  PROVE  A(e, k, i) \in Int
<1>1. Mlt(e.lp.rows[i]) \in {-1, 1} /\ SlackSign(e.lp.rows[i]) \in {-1, 1}
  BY DEF Mlt, SlackSign
<1>2. e.artSign[i] \in {-1, 1}
  BY DEF FormInv
<1>3. \A j \in DOMAIN e.lp.c : e.lp.rows[i].a[j] \in Int
  BY FormIsFinite
<1>4. \A j \in DOMAIN e.lp.c : Mlt(e.lp.rows[i]) * e.lp.rows[i].a[j] \in Int
  BY <1>1, <1>3
<1>5. CASE \E j \in DOMAIN e.lp.c : k = <<"x", j>>
  BY <1>4, <1>5 DEF A
<1>6. CASE \E j \in e.split : k = <<"n", j>>
  BY <1>4, <1>6 DEF A, FormInv
<1>7. CASE \E r \in Rows(e) : k = <<"s", r>>
  BY <1>1, <1>7 DEF A
<1>8. CASE \E r \in Rows(e) : k = <<"a", r>>
  BY <1>2, <1>8 DEF A
<1> QED BY <1>5, <1>6, <1>7, <1>8, ColumnKinds

(* its columns integer vectors,                                            *)
LEMMA ColumnInts ==
  ASSUME NEW e, FormInv(e), NEW k \in Columns(e)
  PROVE  Ints(Column(e, k), Rows(e))
BY CoefficientInt DEF Ints, Column

(* and there are finitely many of them.                                    *)
LEMMA ColumnsFinite ==
  ASSUME NEW e, FormInv(e)
  PROVE  /\ IsFiniteSet(Columns(e)) /\ IsFiniteSet(Core(e))
         /\ IsFiniteSet(Slacks(e)) /\ IsFiniteSet(Artificials(e))
<1> DEFINE X == {<<"x", j>> : j \in DOMAIN e.lp.c}
           N == {<<"n", j>> : j \in e.split}
           R == {r \in Rows(e) : e.lp.rows[r].rel # "="}
<1>1. IsFiniteSet(DOMAIN e.lp.c) /\ IsFiniteSet(Rows(e))  BY FormIsFinite
<1>2. IsFiniteSet(e.split) /\ IsFiniteSet(R)
  BY <1>1, FS_Subset DEF FormInv
<1>3. IsFiniteSet(X)
  <2> DEFINE h == [j \in DOMAIN e.lp.c |-> <<"x", j>>]
  <2>1. h \in Surjection(DOMAIN e.lp.c, X)  BY DEF Surjection
  <2> QED BY <1>1, <2>1, FS_Surjection
<1>4. IsFiniteSet(N)
  <2> DEFINE h == [j \in e.split |-> <<"n", j>>]
  <2>1. h \in Surjection(e.split, N)  BY DEF Surjection
  <2> QED BY <1>2, <2>1, FS_Surjection
<1>5. IsFiniteSet(Slacks(e))
  <2> DEFINE h == [i \in R |-> <<"s", i>>]
  <2>1. h \in Surjection(R, Slacks(e))  BY DEF Surjection, Slacks
  <2> QED BY <1>2, <2>1, FS_Surjection
<1>6. IsFiniteSet(Artificials(e))
  <2> DEFINE h == [i \in Rows(e) |-> <<"a", i>>]
  <2>1. h \in Surjection(Rows(e), Artificials(e))  BY DEF Surjection, Artificials
  <2> QED BY <1>1, <2>1, FS_Surjection
<1>7. IsFiniteSet(Core(e))  BY <1>3, <1>4, FS_Union DEF Core
<1> QED BY <1>5, <1>6, <1>7, FS_Union DEF Columns

(* A term of each variable of the caller, from the terms of its columns.   *)
Joined(e, f) == [j \in DOMAIN e.lp.c |->
                   f[<<"x", j>>] + (IF j \in e.split THEN f[<<"n", j>>] ELSE 0)]

(* A sum over the core columns, column by column of the caller.            *)
LEMMA CoreSum ==
  ASSUME NEW e, FormInv(e), NEW f, \A k \in Core(e) : f[k] \in Int
  PROVE  Total(f, Core(e)) = Total(Joined(e, f), DOMAIN e.lp.c)
<1> DEFINE J == DOMAIN e.lp.c
           X == {<<"x", j>> : j \in J}
           N == {<<"n", j>> : j \in e.split}
           x == [j \in J |-> f[<<"x", j>>]]
           n == [j \in J |-> IF j \in e.split THEN f[<<"n", j>>] ELSE 0]
<1>1. IsFiniteSet(J) /\ e.split \in SUBSET J /\ IsFiniteSet(e.split)
  BY FormIsFinite, FS_Subset DEF FormInv
<1>2. Core(e) = X \cup N /\ X \cap N = {}
  BY DEF Core
<1>3. \A j \in J : x[j] \in Int /\ n[j] \in Int
  BY <1>2
<1>4. IsFiniteSet(X) /\ Total(f, X) = Total(x, J)
  <2> DEFINE b == [j \in J |-> <<"x", j>>]
  <2>1. \A i, r \in J : b[i] = b[r] => i = r  OBVIOUS
  <2>2. \A i \in J : x[i] \in Int /\ f[b[i]] = x[i]  BY <1>3, Zenon
  <2>3. X = {b[j] : j \in J}  OBVIOUS
  <2> HIDE DEF b, x, X, J
  <2>4. IsFiniteSet({b[j] : j \in J}) /\ Total(f, {b[j] : j \in J}) = Total(x, J)
    BY <1>1, <2>1, <2>2, TotalReindexed
  <2> QED BY <2>3, <2>4
<1>5. IsFiniteSet(N) /\ Total(f, N) = Total(n, e.split)
  <2> DEFINE b == [j \in e.split |-> <<"n", j>>]
             S == e.split
  <2>1. \A i, r \in S : b[i] = b[r] => i = r  OBVIOUS
  <2>2. \A i \in S : n[i] \in Int /\ f[b[i]] = n[i]  BY <1>1, <1>3, Zenon
  <2>3. N = {b[j] : j \in S}  OBVIOUS
  <2>4. IsFiniteSet(S)  BY <1>1
  <2> HIDE DEF b, n, N, S
  <2>5. IsFiniteSet({b[j] : j \in S}) /\ Total(f, {b[j] : j \in S}) = Total(n, S)
    BY <2>1, <2>2, <2>4, TotalReindexed
  <2> QED BY <2>3, <2>5 DEF S
<1>6. Total(n, J) = Total(n, e.split)
  <2>1. \A j \in J \ e.split : n[j] = 0  OBVIOUS
  <2> HIDE DEF n, J
  <2> QED BY <1>1, <1>3, <2>1, TotalSkipsZeros
<1>7. Total(f, X \cup N) = Total(f, X) + Total(f, N)
  <2>1. \A k \in X \cup N : f[k] \in Int  BY <1>2
  <2> HIDE DEF X, N
  <2> QED BY <1>2, <1>4, <1>5, <2>1, TotalOfUnion
<1>8. Total(Joined(e, f), J) = Total(x, J) + Total(n, J)
  <2>1. \A j \in J : Joined(e, f)[j] = x[j] + n[j]  BY DEF Joined
  <2> HIDE DEF x, n, J
  <2> QED BY <1>1, <1>3, <2>1, TotalAdds
<1> QED BY <1>2, <1>4, <1>5, <1>6, <1>7, <1>8

(* Row i over all columns: those of the caller, its slack, its artificial. *)
LEMMA RowDecomposes ==
  ASSUME NEW e, FormInv(e), NEW f, \A k \in Columns(e) : f[k] \in Int, NEW i \in Rows(e),
         \A k \in Columns(e) : k[1] \in {"s", "a"} /\ k[2] # i => f[k] = 0
  PROVE  Total(f, Columns(e)) = Total(Joined(e, f), DOMAIN e.lp.c)
           + (IF e.lp.rows[i].rel = "=" THEN 0 ELSE f[<<"s", i>>]) + f[<<"a", i>>]
<1>1. /\ IsFiniteSet(Columns(e)) /\ IsFiniteSet(Core(e))
      /\ IsFiniteSet(Slacks(e)) /\ IsFiniteSet(Artificials(e))
  BY ColumnsFinite
<1>2. Total(f, Artificials(e)) = f[<<"a", i>>]
  <2>1. <<"a", i>> \in Artificials(e) /\ f[<<"a", i>>] \in Int  BY ColumnKinds
  <2>2. \A k \in Artificials(e) \ {<<"a", i>>} : f[k] = 0  BY DEF Artificials, Columns
  <2> QED BY <1>1, <2>1, <2>2, TotalOfOne
<1>3. Total(f, Slacks(e)) = (IF e.lp.rows[i].rel = "=" THEN 0 ELSE f[<<"s", i>>])
  <2>1. CASE e.lp.rows[i].rel = "="
    <3>1. \A k \in Slacks(e) : f[k] = 0  BY <2>1 DEF Slacks, Columns
    <3> QED BY <1>1, <2>1, <3>1, TotalOfZeros
  <2>2. CASE e.lp.rows[i].rel # "="
    <3>1. <<"s", i>> \in Slacks(e)  BY <2>2 DEF Slacks
    <3>2. f[<<"s", i>>] \in Int  BY <2>2, ColumnKinds
    <3>3. \A k \in Slacks(e) \ {<<"s", i>>} : f[k] = 0  BY DEF Slacks, Columns
    <3>4. Total(f, Slacks(e)) = f[<<"s", i>>]  BY <1>1, <3>1, <3>2, <3>3, TotalOfOne
    <3> QED BY <2>2, <3>4
  <2> QED BY <2>1, <2>2
<1>4. Total(f, Columns(e)) = Total(f, Core(e) \cup Slacks(e)) + Total(f, Artificials(e))
  <2>1. (Core(e) \cup Slacks(e)) \cap Artificials(e) = {}  BY DEF Core, Slacks, Artificials
  <2>2. IsFiniteSet(Core(e) \cup Slacks(e))  BY <1>1, FS_Union
  <2>3. \A k \in (Core(e) \cup Slacks(e)) \cup Artificials(e) : f[k] \in Int  BY DEF Columns
  <2>4. Columns(e) = (Core(e) \cup Slacks(e)) \cup Artificials(e)  BY DEF Columns
  <2> QED BY <1>1, <2>1, <2>2, <2>3, <2>4, TotalOfUnion
<1>5. Total(f, Core(e) \cup Slacks(e)) = Total(f, Core(e)) + Total(f, Slacks(e))
  <2>1. Core(e) \cap Slacks(e) = {}  BY DEF Core, Slacks
  <2>2. \A k \in Core(e) \cup Slacks(e) : f[k] \in Int  BY DEF Columns
  <2> QED BY <1>1, <2>1, <2>2, TotalOfUnion
<1>6. Total(f, Core(e)) = Total(Joined(e, f), DOMAIN e.lp.c)
  BY CoreSum DEF Columns
<1>7. Total(f, Core(e)) \in Int
  BY <1>1, TotalInt DEF Columns
<1>8. f[<<"a", i>>] \in Int /\ (e.lp.rows[i].rel # "=" => f[<<"s", i>>] \in Int)
  BY ColumnKinds
<1> QED BY <1>2, <1>3, <1>4, <1>5, <1>6, <1>7, <1>8

(* The factors and the products with columns, as scalar products.          *)
LEMMA ModelProducts ==
  ASSUME NEW e
  PROVE  /\ \A v : Ftran(e, v) = [i \in Rows(e) |-> Prod(e.inv[i], v, Rows(e))]
         /\ \A y, k : Dot(e, y, k) = Prod(y, Column(e, k), Rows(e))
         /\ \A y : Btran(e, y) = [r \in Rows(e) |-> Prod(y, [i \in Rows(e) |-> e.inv[i][r]], Rows(e))]
<1>1. ASSUME NEW v
      PROVE  Ftran(e, v) = [i \in Rows(e) |-> Prod(e.inv[i], v, Rows(e))]
  <2>1. ASSUME NEW i \in Rows(e)
        PROVE  MapThenSumSet(LAMBDA r : e.inv[i][r] * v[r], Rows(e)) = Prod(e.inv[i], v, Rows(e))
    BY DEF Prod, Total, MapThenSumSet, MapThenFoldSet
  <2> QED BY <2>1, Zenon DEF Ftran
<1>2. ASSUME NEW y, NEW k
      PROVE  Dot(e, y, k) = Prod(y, Column(e, k), Rows(e))
  <2>1. [i \in Rows(e) |-> y[i] * Column(e, k)[i]] = [i \in Rows(e) |-> y[i] * A(e, k, i)]
    BY DEF Column
  <2>2. Dot(e, y, k) = Total([i \in Rows(e) |-> y[i] * A(e, k, i)], Rows(e))
    BY DEF Dot, Total, MapThenSumSet, MapThenFoldSet
  <2> QED BY <2>1, <2>2 DEF Prod
<1>3. ASSUME NEW y
      PROVE  Btran(e, y) = [r \in Rows(e) |-> Prod(y, [i \in Rows(e) |-> e.inv[i][r]], Rows(e))]
  <2>1. ASSUME NEW r \in Rows(e)
        PROVE  MapThenSumSet(LAMBDA i : y[i] * e.inv[i][r], Rows(e))
                 = Prod(y, [i \in Rows(e) |-> e.inv[i][r]], Rows(e))
    <3>1. [i \in Rows(e) |-> y[i] * [t \in Rows(e) |-> e.inv[t][r]][i]]
            = [i \in Rows(e) |-> y[i] * e.inv[i][r]]
      OBVIOUS
    <3>2. MapThenSumSet(LAMBDA i : y[i] * e.inv[i][r], Rows(e))
            = Total([i \in Rows(e) |-> y[i] * e.inv[i][r]], Rows(e))
      BY DEF Total, MapThenSumSet, MapThenFoldSet
    <3> QED BY <3>1, <3>2, Zenon DEF Prod
  <2> QED BY <2>1, Zenon DEF Btran
<1> QED BY <1>1, <1>2, <1>3

(* The sums of the model are products of vectors.                          *)
LEMMA ProductIs ==
  ASSUME NEW y, NEW v, NEW S
  PROVE  MapThenSumSet(LAMBDA r : y[r] * v[r], S) = Prod(y, v, S)
<1>1. MapThenSumSet(LAMBDA r : y[r] * v[r], S) = Total([r \in S |-> y[r] * v[r]], S)
  BY DEF Total, MapThenSumSet, MapThenFoldSet
<1> QED BY <1>1, Zenon DEF Prod

(* So are a row at a point, and the objective.                             *)
LEMMA ModelSums ==
  /\ \A row, p : RowAt(row, p) = Prod(row.a, p, DOMAIN row.a)
  /\ \A lp, p : Value(lp, p) = Prod(lp.c, p, DOMAIN lp.c)
<1>1. ASSUME NEW row, NEW p PROVE RowAt(row, p) = Prod(row.a, p, DOMAIN row.a)
  BY ProductIs, Zenon DEF RowAt
<1>2. ASSUME NEW lp, NEW p PROVE Value(lp, p) = Prod(lp.c, p, DOMAIN lp.c)
  BY ProductIs, Zenon DEF Value
<1> QED BY <1>1, <1>2

(* The signs of a row of the equality form: that of its right-hand side,   *)
(* of its slack and of its artificial.                                     *)
LEMMA Signs ==
  ASSUME NEW e, FormInv(e), NEW i \in Rows(e)
  PROVE  /\ Mlt(e.lp.rows[i]) \in {-1, 1} /\ SlackSign(e.lp.rows[i]) \in {-1, 1}
         /\ e.artSign[i] \in {-1, 1}
         /\ Mlt(e.lp.rows[i]) * e.lp.rows[i].b = Abs(e.lp.rows[i].b)
         /\ e.lp.rows[i].rel = "<" => SlackSign(e.lp.rows[i]) = Mlt(e.lp.rows[i])
         /\ e.lp.rows[i].rel = ">" => SlackSign(e.lp.rows[i]) = -Mlt(e.lp.rows[i])
<1>1. e.lp.rows[i].b \in Int  BY FormIsFinite
<1> QED BY <1>1 DEF Mlt, SlackSign, FormInv, Abs

(* Values of the equality form come back as values of the caller's         *)
(* columns.                                                                *)
LEMMA UnsplitInt ==
  ASSUME NEW e, FormInv(e), NEW w, \A k \in Columns(e) : w[k] \in Int
  PROVE  /\ Unsplit(e, w) \in [DOMAIN e.lp.c -> Int]
         /\ Ints(Unsplit(e, w), DOMAIN e.lp.c)
<1>1. ASSUME NEW j \in DOMAIN e.lp.c PROVE Unsplit(e, w)[j] \in Int
  <2>1. w[<<"x", j>>] \in Int /\ (j \in e.split => w[<<"n", j>>] \in Int)  BY ColumnKinds
  <2> QED BY <2>1 DEF Unsplit
<1> QED BY <1>1 DEF Ints, Unsplit

(* Row i over values of all columns, in the caller's words.                *)
LEMMA RowOfColumns ==
  ASSUME NEW e, FormInv(e), NEW w, \A k \in Columns(e) : w[k] \in Int, NEW i \in Rows(e)
  PROVE  Total([k \in Columns(e) |-> A(e, k, i) * w[k]], Columns(e))
           = Mlt(e.lp.rows[i]) * RowAt(e.lp.rows[i], Unsplit(e, w))
             + (IF e.lp.rows[i].rel = "=" THEN 0 ELSE SlackSign(e.lp.rows[i]) * w[<<"s", i>>])
             + e.artSign[i] * w[<<"a", i>>]
<1> DEFINE J == DOMAIN e.lp.c
           f == [k \in Columns(e) |-> A(e, k, i) * w[k]]
           x == Unsplit(e, w)
           a == e.lp.rows[i].a
           g == [j \in J |-> a[j] * x[j]]
           m == Mlt(e.lp.rows[i])
<1>1. \A k \in Columns(e) : f[k] \in Int
  <2> SUFFICES ASSUME NEW k \in Columns(e) PROVE A(e, k, i) * w[k] \in Int  OBVIOUS
  <2>1. A(e, k, i) \in Int /\ w[k] \in Int  BY CoefficientInt
  <2> QED BY <2>1
<1>2. \A k \in Columns(e) : k[1] \in {"s", "a"} /\ k[2] # i => f[k] = 0
  <2> SUFFICES ASSUME NEW k \in Columns(e), k[1] \in {"s", "a"}, k[2] # i
               PROVE  A(e, k, i) * w[k] = 0
    OBVIOUS
  <2>1. A(e, k, i) = 0  BY DEF A
  <2> QED BY <2>1
<1>3. f[<<"a", i>>] = e.artSign[i] * w[<<"a", i>>]
  BY ColumnKinds DEF A
<1>4. e.lp.rows[i].rel # "=" => f[<<"s", i>>] = SlackSign(e.lp.rows[i]) * w[<<"s", i>>]
  BY ColumnKinds DEF A
<1>5. m \in Int /\ IsFiniteSet(J) /\ DOMAIN a = J /\ \A j \in J : a[j] \in Int /\ x[j] \in Int
  <2>1. m \in Int  BY Signs
  <2>2. a \in [J -> Int] /\ IsFiniteSet(J)  BY FormIsFinite
  <2>3. \A j \in J : x[j] \in Int  BY UnsplitInt DEF Ints
  <2> QED BY <2>1, <2>2, <2>3
<1>6. \A j \in J : g[j] \in Int
  <2> HIDE DEF a, x, J
  <2> QED BY <1>5
<1>7. ASSUME NEW j \in J PROVE Joined(e, f)[j] = m * g[j]
  <2>1. <<"x", j>> \in Columns(e) /\ w[<<"x", j>>] \in Int /\ a[j] \in Int  BY <1>5, ColumnKinds
  <2>2. f[<<"x", j>>] = (m * a[j]) * w[<<"x", j>>]  BY <2>1 DEF A
  <2>3. CASE j \in e.split
    <3>1. <<"n", j>> \in Columns(e) /\ w[<<"n", j>>] \in Int  BY <2>3, ColumnKinds
    <3>2. f[<<"n", j>>] = (-(m * a[j])) * w[<<"n", j>>]  BY <3>1 DEF A
    <3>3. Joined(e, f)[j] = f[<<"x", j>>] + f[<<"n", j>>]  BY <2>3 DEF Joined
    <3>4. g[j] = a[j] * (w[<<"x", j>>] - w[<<"n", j>>])  BY <2>3 DEF Unsplit
    <3>5. \A b, c, u, v \in Int : (b * c) * u + (-(b * c)) * v = b * (c * (u - v))  OBVIOUS
    <3> HIDE DEF f, g, m, a
    <3> QED BY <1>5, <2>1, <2>2, <3>1, <3>2, <3>3, <3>4, <3>5
  <2>4. CASE j \notin e.split
    <3>3. Joined(e, f)[j] = f[<<"x", j>>] + 0  BY <2>4 DEF Joined
    <3>4. g[j] = a[j] * (w[<<"x", j>>] - 0)  BY <2>4 DEF Unsplit
    <3>5. \A b, c, u \in Int : (b * c) * u + 0 = b * (c * (u - 0))  OBVIOUS
    <3> HIDE DEF f, g, m, a
    <3> QED BY <1>5, <2>1, <2>2, <3>3, <3>4, <3>5
  <2> QED BY <2>3, <2>4
<1>8. Total(Joined(e, f), J) = m * Total(g, J)
  <2> HIDE DEF f, g, m, a, x, J
  <2> QED BY <1>5, <1>6, <1>7, TotalScales
<1>9. Total(g, J) = RowAt(e.lp.rows[i], x)
  <2>1. RowAt(e.lp.rows[i], x) = Prod(a, x, J)  BY <1>5, ModelSums
  <2> QED BY <2>1 DEF Prod
<1>10. Total(f, Columns(e)) = Total(Joined(e, f), DOMAIN e.lp.c)
           + (IF e.lp.rows[i].rel = "=" THEN 0 ELSE f[<<"s", i>>]) + f[<<"a", i>>]
  <2> HIDE DEF f
  <2> QED BY <1>1, <1>2, RowDecomposes
<1> HIDE DEF f, g, m, x
<1> QED BY <1>3, <1>4, <1>8, <1>9, <1>10 DEF f, m, x

(* Multipliers times columns, in the caller's words.                       *)
LEMMA DotOfColumn ==
  ASSUME NEW e, FormInv(e), NEW y, Ints(y, Rows(e))
  PROVE  /\ Ints(Signed(e, y), Rows(e))
         /\ \A j \in DOMAIN e.lp.c :
              Dot(e, y, <<"x", j>>)
                = Prod(Signed(e, y), [i \in Rows(e) |-> e.lp.rows[i].a[j]], Rows(e))
         /\ \A j \in e.split : Dot(e, y, <<"n", j>>) = -Dot(e, y, <<"x", j>>)
         /\ \A i \in Rows(e) : Dot(e, y, <<"s", i>>) = y[i] * SlackSign(e.lp.rows[i])
         /\ \A i \in Rows(e) : Dot(e, y, <<"a", i>>) = y[i] * e.artSign[i]
<1>0. IsFiniteSet(Rows(e)) /\ \A i \in Rows(e) : y[i] \in Int  BY FormIsFinite DEF Ints
<1>1. \A i \in Rows(e) : Signed(e, y)[i] \in Int
  BY <1>0, Signs DEF Signed
<1>2. \A k : Dot(e, y, k) = Prod(y, Column(e, k), Rows(e))  BY ModelProducts
<1>3. ASSUME NEW j \in DOMAIN e.lp.c
      PROVE  Prod(y, Column(e, <<"x", j>>), Rows(e))
               = Prod(Signed(e, y), [i \in Rows(e) |-> e.lp.rows[i].a[j]], Rows(e))
  <2>1. ASSUME NEW i \in Rows(e)
        PROVE  y[i] * Column(e, <<"x", j>>)[i]
                 = Signed(e, y)[i] * [r \in Rows(e) |-> e.lp.rows[r].a[j]][i]
    <3>1. Column(e, <<"x", j>>)[i] = Mlt(e.lp.rows[i]) * e.lp.rows[i].a[j]  BY DEF Column, A
    <3>2. Signed(e, y)[i] = Mlt(e.lp.rows[i]) * y[i]  BY DEF Signed
    <3>3. Mlt(e.lp.rows[i]) \in Int /\ e.lp.rows[i].a[j] \in Int /\ y[i] \in Int
      BY <1>0, Signs, FormIsFinite
    <3>4. \A a, b, c \in Int : a * (b * c) = (b * a) * c  OBVIOUS
    <3> QED BY <3>1, <3>2, <3>3, <3>4
  <2> QED BY <1>0, <2>1, ProdAgrees
<1>4. ASSUME NEW j \in e.split
      PROVE  Prod(y, Column(e, <<"n", j>>), Rows(e)) = -Prod(y, Column(e, <<"x", j>>), Rows(e))
  <2> DEFINE u == Column(e, <<"x", j>>)
             v == Column(e, <<"n", j>>)
  <2>1. Ints(u, Rows(e)) /\ Ints(v, Rows(e))  BY ColumnInts, ColumnKinds DEF FormInv
  <2>2. \A i \in Rows(e) : v[i] = (-1) * u[i]
    <3> SUFFICES ASSUME NEW i \in Rows(e) PROVE v[i] = (-1) * u[i]  OBVIOUS
    <3>1. u[i] = Mlt(e.lp.rows[i]) * e.lp.rows[i].a[j] /\ v[i] = -(Mlt(e.lp.rows[i]) * e.lp.rows[i].a[j])
      BY DEF Column, A
    <3>2. u[i] \in Int  BY <2>1 DEF Ints
    <3> HIDE DEF u, v
    <3> QED BY <3>1, <3>2
  <2> HIDE DEF u, v
  <2>3. Prod(v, y, Rows(e)) = (-1) * Prod(u, y, Rows(e))
    BY <1>0, <2>1, <2>2, ProdScales
  <2>4. Prod(v, y, Rows(e)) = Prod(y, v, Rows(e)) /\ Prod(u, y, Rows(e)) = Prod(y, u, Rows(e))
    BY <1>0, <2>1, ProdSwaps
  <2>5. Prod(u, y, Rows(e)) \in Int  BY <1>0, <2>1, ProdInt
  <2> QED BY <2>3, <2>4, <2>5 DEF u, v
<1>5. ASSUME NEW i \in Rows(e)
      PROVE  /\ Prod(y, Column(e, <<"s", i>>), Rows(e)) = y[i] * SlackSign(e.lp.rows[i])
             /\ Prod(y, Column(e, <<"a", i>>), Rows(e)) = y[i] * e.artSign[i]
  <2> DEFINE f == [r \in Rows(e) |-> y[r] * Column(e, <<"s", i>>)[r]]
             g == [r \in Rows(e) |-> y[r] * Column(e, <<"a", i>>)[r]]
  <2>1. f[i] = y[i] * SlackSign(e.lp.rows[i]) /\ g[i] = y[i] * e.artSign[i]
    BY DEF Column, A
  <2>2. f[i] \in Int /\ g[i] \in Int
    <3>1. y[i] \in Int /\ SlackSign(e.lp.rows[i]) \in Int /\ e.artSign[i] \in Int  BY <1>0, Signs
    <3> HIDE DEF f, g
    <3> QED BY <2>1, <3>1
  <2>3. \A r \in Rows(e) \ {i} : f[r] = 0 /\ g[r] = 0
    BY <1>0 DEF Column, A
  <2> HIDE DEF f, g
  <2>4. Total(f, Rows(e)) = f[i] /\ Total(g, Rows(e)) = g[i]
    BY <1>0, <2>2, <2>3, TotalOfOne
  <2> QED BY <2>1, <2>4 DEF f, g, Prod
<1> QED BY <1>1, <1>2, <1>3, <1>4, <1>5 DEF Ints, FormInv

(* The objective over all columns is the caller's.                         *)
LEMMA CostOfColumns ==
  ASSUME NEW e, FormInv(e), NEW w, \A k \in Columns(e) : w[k] \in Int
  PROVE  Total([k \in Columns(e) |-> TrueCost(e)[k] * w[k]], Columns(e))
           = Gain(e.lp, Value(e.lp, Unsplit(e, w)))
<1> DEFINE J == DOMAIN e.lp.c
           f == [k \in Columns(e) |-> TrueCost(e)[k] * w[k]]
           x == Unsplit(e, w)
           g == [j \in J |-> e.lp.c[j] * x[j]]
           m == IF e.lp.maximize THEN 1 ELSE -1
<1>1. IsFiniteSet(J) /\ \A j \in J : e.lp.c[j] \in Int /\ x[j] \in Int
  BY FormIsFinite, UnsplitInt DEF Ints
<1>2. \A k \in Columns(e) \ Core(e) : f[k] = 0
  <2> SUFFICES ASSUME NEW k \in Columns(e) \ Core(e) PROVE TrueCost(e)[k] * w[k] = 0  OBVIOUS
  <2>1. k[1] # "x" /\ k[1] # "n"  BY ColumnKinds
  <2>2. TrueCost(e)[k] = 0  BY <2>1 DEF TrueCost
  <2> QED BY <2>2
<1>3. ASSUME NEW j \in J
      PROVE  /\ f[<<"x", j>>] = (m * e.lp.c[j]) * w[<<"x", j>>]
             /\ j \in e.split => f[<<"n", j>>] = (-(m * e.lp.c[j])) * w[<<"n", j>>]
  <2>1. <<"x", j>> \in Columns(e) /\ (j \in e.split => <<"n", j>> \in Columns(e))  BY ColumnKinds
  <2>2. m * e.lp.c[j] = (IF e.lp.maximize THEN e.lp.c[j] ELSE -e.lp.c[j])  BY <1>1
  <2> QED BY <2>1, <2>2 DEF TrueCost
<1>4. ASSUME NEW j \in J PROVE Joined(e, f)[j] = m * g[j]
  <2>1. w[<<"x", j>>] \in Int /\ e.lp.c[j] \in Int /\ m \in Int  BY <1>1, ColumnKinds
  <2>3. CASE j \in e.split
    <3>1. w[<<"n", j>>] \in Int  BY <2>3, ColumnKinds
    <3>3. Joined(e, f)[j] = f[<<"x", j>>] + f[<<"n", j>>]  BY <2>3 DEF Joined
    <3>4. g[j] = e.lp.c[j] * (w[<<"x", j>>] - w[<<"n", j>>])  BY <2>3 DEF Unsplit
    <3>5. \A b, c, u, v \in Int : (b * c) * u + (-(b * c)) * v = b * (c * (u - v))  OBVIOUS
    <3> HIDE DEF f, g, m
    <3> DEFINE c == e.lp.c[j]
               u == w[<<"x", j>>]
               v == w[<<"n", j>>]
    <3>6. Joined(e, f)[j] = (m * c) * u + (-(m * c)) * v  BY <1>3, <2>1, <2>3, <3>1, <3>3
    <3>7. c \in Int /\ u \in Int /\ v \in Int /\ m \in Int  BY <2>1, <3>1
    <3> HIDE DEF c, u, v
    <3>8. Joined(e, f)[j] = m * (c * (u - v))  BY <3>5, <3>6, <3>7
    <3> QED BY <3>4, <3>8 DEF c, u, v
  <2>4. CASE j \notin e.split
    <3>3. Joined(e, f)[j] = f[<<"x", j>>] + 0  BY <2>4 DEF Joined
    <3>4. g[j] = e.lp.c[j] * (w[<<"x", j>>] - 0)  BY <2>4 DEF Unsplit
    <3>5. \A b, c, u \in Int : (b * c) * u + 0 = b * (c * (u - 0))  OBVIOUS
    <3> DEFINE c == e.lp.c[j]
               u == w[<<"x", j>>]
    <3> HIDE DEF f, g, m
    <3>6. Joined(e, f)[j] = (m * c) * u + 0  BY <1>3, <3>3
    <3>7. c \in Int /\ u \in Int /\ m \in Int  BY <2>1
    <3> HIDE DEF c, u
    <3>8. Joined(e, f)[j] = m * (c * (u - 0))  BY <3>5, <3>6, <3>7
    <3> QED BY <3>4, <3>8 DEF c, u
  <2> QED BY <2>3, <2>4
<1>5. \A j \in J : g[j] \in Int
  <2> HIDE DEF x, J
  <2> QED BY <1>1
<1>6. Total(Joined(e, f), J) = m * Total(g, J)
  <2>1. m \in Int  OBVIOUS
  <2> HIDE DEF f, g, m, x, J
  <2> QED BY <1>1, <1>4, <1>5, <2>1, TotalScales
<1>7. Total(g, J) = Value(e.lp, x) /\ Total(g, J) \in Int
  <2>1. Value(e.lp, x) = Prod(e.lp.c, x, J)  BY ModelSums
  <2>2. Value(e.lp, x) = Total(g, J)  BY <2>1 DEF Prod
  <2> HIDE DEF g, J
  <2> QED BY <1>1, <1>5, <2>2, TotalInt
<1>8. \A k \in Columns(e) : f[k] \in Int
  <2> SUFFICES ASSUME NEW k \in Columns(e) PROVE TrueCost(e)[k] * w[k] \in Int  OBVIOUS
  <2>0. \A j \in J : e.lp.c[j] \in Int /\ -e.lp.c[j] \in Int  BY <1>1
  <2>1. TrueCost(e)[k] \in Int /\ w[k] \in Int  BY <2>0, ColumnKinds DEF TrueCost, FormInv
  <2> QED BY <2>1
<1>9. Total(f, Columns(e)) = Total(Joined(e, f), J)
  <2>1. IsFiniteSet(Columns(e)) /\ Core(e) \in SUBSET Columns(e)
    BY ColumnsFinite DEF Columns
  <2> HIDE DEF f
  <2>2. Total(f, Columns(e)) = Total(f, Core(e))  BY <1>2, <1>8, <2>1, TotalSkipsZeros
  <2> QED BY <1>8, <2>1, <2>2, CoreSum
<1> HIDE DEF f, g, x
<1> QED BY <1>6, <1>7, <1>9 DEF f, x, Gain

-----------------------------------------------------------------------------
(* What the certificates prove, in the caller's variables.                 *)

(* The combination of the rows with multipliers y.                         *)
Zrow(lp, y) == [j \in DOMAIN lp.c |-> Prod(y, [i \in DOMAIN lp.rows |-> lp.rows[i].a[j]], DOMAIN lp.rows)]

(* y^T (A p) = (y^T A) p.                                                  *)
LEMMA RowsTimesDuals ==
  ASSUME NEW lp, LinearProgram(lp), NEW y, Ints(y, DOMAIN lp.rows), NEW p \in [DOMAIN lp.c -> Int]
  PROVE  /\ Ints(Zrow(lp, y), DOMAIN lp.c)
         /\ \A i \in DOMAIN lp.rows : RowAt(lp.rows[i], p) \in Int
         /\ Prod(Zrow(lp, y), p, DOMAIN lp.c)
              = Total([i \in DOMAIN lp.rows |-> y[i] * RowAt(lp.rows[i], p)], DOMAIN lp.rows)
<1> DEFINE R == DOMAIN lp.rows
           J == DOMAIN lp.c
           M == [i \in R |-> lp.rows[i].a]
           T == [j \in J |-> [i \in R |-> lp.rows[i].a[j]]]
           v == [i \in R |-> RowAt(lp.rows[i], p)]
           z == Zrow(lp, y)
<1>1. IsFiniteSet(R) /\ IsFiniteSet(J) /\ \A i \in R : M[i] \in [J -> Int]
  BY ProgramFacts
<1>2. IntMatrix(M, R, J)  BY <1>1 DEF Ints, IntMatrix
<1>3. Ints(p, J) /\ Ints(y, R)  BY DEF Ints
<1>4. Transposes(T, M, R, J)  BY DEF Transposes
<1>5. Times(v, M, p, R, J)
  <2>1. \A i \in R : RowAt(lp.rows[i], p) = Prod(M[i], p, J)  BY <1>1, ModelSums
  <2> QED BY <2>1 DEF Times
<1>6. Times(z, T, y, J, R)
  <2> SUFFICES ASSUME NEW j \in J PROVE z[j] = Prod(T[j], y, R)  BY DEF Times
  <2>1. z[j] = Prod(y, T[j], R)  BY DEF Zrow
  <2>2. Ints(T[j], R)  BY <1>1 DEF Ints
  <2> HIDE DEF T, z, R
  <2> QED BY <1>1, <1>3, <2>1, <2>2, ProdSwaps
<1>7. Prod(y, v, R) = Prod(z, p, J) /\ Ints(v, R) /\ Ints(z, J)
  <2>1. IsFiniteSet(R) /\ IsFiniteSet(J)  BY <1>1
  <2> HIDE DEF M, T, v, z, R, J
  <2> QED BY <1>2, <1>3, <1>4, <1>5, <1>6, <2>1, ProdTransposed
<1>8. Prod(y, v, R) = Total([i \in R |-> y[i] * RowAt(lp.rows[i], p)], R)
  <2>1. [i \in R |-> y[i] * v[i]] = [i \in R |-> y[i] * RowAt(lp.rows[i], p)]  OBVIOUS
  <2> QED BY <2>1 DEF Prod
<1>9. \A i \in R : RowAt(lp.rows[i], p) \in Int
  BY <1>7 DEF Ints
<1> QED BY <1>7, <1>8, <1>9

(* Multipliers of the signs that the relations of the rows ask for.        *)
RowSigns(lp, y) ==
  \A i \in DOMAIN lp.rows : /\ lp.rows[i].rel = "<" => y[i] >= 0
                            /\ lp.rows[i].rel = ">" => y[i] <= 0

(* Multipliers of the signs of the rows, on values that meet them.         *)
LEMMA SignedRowsBound ==
  ASSUME NEW lp, LinearProgram(lp), NEW y, Ints(y, DOMAIN lp.rows), RowSigns(lp, y),
         NEW p \in [DOMAIN lp.c -> Int], NEW h, Ints(h, DOMAIN lp.rows),
         \A i \in DOMAIN lp.rows : Meets(lp.rows[i].rel, RowAt(lp.rows[i], p), h[i])
  PROVE  Prod(Zrow(lp, y), p, DOMAIN lp.c) <= Prod(y, h, DOMAIN lp.rows)
<1> DEFINE R == DOMAIN lp.rows
           f == [i \in R |-> y[i] * RowAt(lp.rows[i], p)]
           g == [i \in R |-> y[i] * h[i]]
<1>1. IsFiniteSet(R) /\ \A i \in R : lp.rows[i].rel \in {"<", ">", "="}  BY ProgramFacts
<1>2. \A i \in R : RowAt(lp.rows[i], p) \in Int  BY RowsTimesDuals
<1>3. \A i \in R : f[i] \in Int /\ g[i] \in Int /\ f[i] <= g[i]
  <2> SUFFICES ASSUME NEW i \in R
               PROVE  /\ y[i] * RowAt(lp.rows[i], p) \in Int /\ y[i] * h[i] \in Int
                      /\ y[i] * RowAt(lp.rows[i], p) <= y[i] * h[i]
    OBVIOUS
  <2> DEFINE v == RowAt(lp.rows[i], p)
  <2>1. y[i] \in Int /\ v \in Int /\ h[i] \in Int  BY <1>2 DEF Ints
  <2>2. \/ v = h[i] \/ (v <= h[i] /\ y[i] >= 0) \/ (v >= h[i] /\ y[i] <= 0)
    BY <1>1 DEF Meets, RowSigns
  <2>3. \A a, b, c \in Int : b = c \/ (b <= c /\ a >= 0) \/ (b >= c /\ a <= 0)
                               => a * b \in Int /\ a * c \in Int /\ a * b <= a * c
    <3> SUFFICES ASSUME NEW a \in Int, NEW b \in Int, NEW c \in Int,
                        b = c \/ (b <= c /\ a >= 0) \/ (b >= c /\ a <= 0)
                 PROVE  a * b <= a * c
      OBVIOUS
    <3>1. CASE b = c  BY <3>1
    <3>2. CASE b <= c /\ a >= 0
      <4>1. a * (c - b) >= 0 /\ a * (c - b) = a * c - a * b  BY <3>2
      <4> QED BY <4>1
    <3>3. CASE b >= c /\ a <= 0
      <4>1. (-a) * (b - c) >= 0 /\ (-a) * (b - c) = a * c - a * b  BY <3>3
      <4> QED BY <4>1
    <3> QED BY <3>1, <3>2, <3>3
  <2> HIDE DEF v
  <2>4. y[i] * v \in Int /\ y[i] * h[i] \in Int /\ y[i] * v <= y[i] * h[i]
    BY <2>1, <2>2, <2>3
  <2> QED BY <2>4 DEF v
<1> HIDE DEF f, g
<1>4. Total(f, R) <= Total(g, R)  BY <1>1, <1>3, TotalGrows
<1> QED BY <1>4, RowsTimesDuals DEF f, g, Prod

(* Multipliers that refute a program: it has no point.                     *)
LEMMA RefutedHasNoPoint ==
  ASSUME NEW lp, LinearProgram(lp), NEW y, Ints(y, DOMAIN lp.rows), Refutes(lp, y),
         NEW p \in [DOMAIN lp.c -> Int]
  PROVE  ~Feasible(lp, p)
<1> SUFFICES ASSUME Feasible(lp, p) PROVE FALSE  OBVIOUS
<1> DEFINE R == DOMAIN lp.rows
           J == DOMAIN lp.c
           z == Zrow(lp, y)
           h == [i \in R |-> lp.rows[i].b]
           used == {j \in J : z[j] # 0}
           corner == [j \in J |-> z[j] * (IF z[j] > 0 THEN lp.l[j] ELSE lp.u[j])]
           at == [j \in J |-> z[j] * p[j]]
<1>1. /\ IsFiniteSet(R) /\ IsFiniteSet(J)
      /\ \A j \in J : lp.l[j] \in Int /\ lp.u[j] \in Int /\ p[j] \in Int
      /\ \A i \in R : h[i] \in Int
  BY ProgramFacts
<1>2. \A j \in J : z[j] \in Int  BY RowsTimesDuals DEF Ints
<1>3. ASSUME NEW j \in J
      PROVE  z[j] = MapThenSumSet(LAMBDA i : y[i] * lp.rows[i].a[j], R)
  <2> DEFINE v == [i \in R |-> lp.rows[i].a[j]]
  <2>1. [i \in R |-> y[i] * v[i]] = [i \in R |-> y[i] * lp.rows[i].a[j]]  OBVIOUS
  <2>2. z[j] = Total([i \in R |-> y[i] * lp.rows[i].a[j]], R)  BY <2>1 DEF Zrow, Prod
  <2>3. MapThenSumSet(LAMBDA i : y[i] * lp.rows[i].a[j], R)
          = Total([i \in R |-> y[i] * lp.rows[i].a[j]], R)
    BY Zenon DEF Total, MapThenSumSet, MapThenFoldSet
  <2> QED BY <2>2, <2>3, Zenon
<1> DEFINE zz(j) == MapThenSumSet(LAMBDA i : y[i] * lp.rows[i].a[j], R)
           set == {j \in J : zz(j) # 0}
           term == [j \in set |-> zz(j) * (IF zz(j) > 0 THEN lp.l[j] ELSE lp.u[j])]
           rhs == MapThenSumSet(LAMBDA i : y[i] * lp.rows[i].b, R)
<1>r. /\ RowSigns(lp, y)
      /\ \A j \in set : IF zz(j) > 0 THEN lp.l[j] > -LP_INF ELSE lp.u[j] < LP_INF
      /\ MapThenSumSet(LAMBDA j : zz(j) * (IF zz(j) > 0 THEN lp.l[j] ELSE lp.u[j]), set) > rhs
  BY Zenon DEF Refutes, RowSigns
<1>t. MapThenSumSet(LAMBDA j : zz(j) * (IF zz(j) > 0 THEN lp.l[j] ELSE lp.u[j]), set)
        = Total(term, set)
  <2> HIDE DEF zz
  <2> QED BY Zenon DEF Total, MapThenSumSet, MapThenFoldSet
<1>4. /\ RowSigns(lp, y)
      /\ \A j \in used : IF z[j] > 0 THEN lp.l[j] > -LP_INF ELSE lp.u[j] < LP_INF
  <2>1. \A j \in J : zz(j) = z[j]  BY <1>3, Zenon
  <2> HIDE DEF zz, z
  <2> QED BY <1>r, <2>1, Zenon
<1>5. Total(corner, used) > Prod(y, h, R)
  <2>1. rhs = Prod(y, h, R)
    <3>1. [i \in R |-> y[i] * h[i]] = [i \in R |-> y[i] * lp.rows[i].b]  OBVIOUS
    <3>2. MapThenSumSet(LAMBDA i : y[i] * lp.rows[i].b, R)
            = Total([i \in R |-> y[i] * lp.rows[i].b], R)
      BY Zenon DEF Total, MapThenSumSet, MapThenFoldSet
    <3> QED BY <3>1, <3>2, Zenon DEF Prod
  <2>2. \A j \in J : zz(j) = z[j]  BY <1>3, Zenon
  <2> HIDE DEF zz, z, rhs
  <2>3. set = used /\ IsFiniteSet(set) /\ \A j \in set : term[j] = corner[j]
    BY <1>1, <2>2, FS_Subset
  <2> HIDE DEF term, set, corner, used
  <2>4. Total(term, set) = Total(corner, set)
    BY <2>3, TotalAgrees
  <2> QED BY <1>r, <1>t, <2>1, <2>3, <2>4, Zenon
<1>6. Prod(z, p, J) <= Prod(y, h, R)
  <2>1. Ints(h, R)  BY <1>1 DEF Ints
  <2>2. \A i \in R : Meets(lp.rows[i].rel, RowAt(lp.rows[i], p), h[i])  BY DEF Feasible
  <2> HIDE DEF h
  <2> QED BY <1>4, <2>1, <2>2, SignedRowsBound
<1>7. \A j \in used : corner[j] \in Int /\ at[j] \in Int /\ corner[j] <= at[j]
  <2> SUFFICES ASSUME NEW j \in used
               PROVE  corner[j] \in Int /\ at[j] \in Int /\ corner[j] <= at[j]
    OBVIOUS
  <2>1. /\ z[j] \in Int /\ p[j] \in Int /\ lp.l[j] \in Int /\ lp.u[j] \in Int /\ z[j] # 0
        /\ at[j] = z[j] * p[j]
    BY <1>1, <1>2
  <2>2. (lp.l[j] <= -LP_INF \/ p[j] >= lp.l[j]) /\ (lp.u[j] >= LP_INF \/ p[j] <= lp.u[j])
    BY DEF Feasible
  <2>3. LP_INF \in Int  BY SimplexAssumption
  <2>4. CASE z[j] > 0
    <3>1. corner[j] = z[j] * lp.l[j] /\ p[j] >= lp.l[j]
      BY <1>4, <2>1, <2>2, <2>3, <2>4
    <3>2. \A a, b, c \in Int : a > 0 /\ b <= c => a * b \in Int /\ a * c \in Int /\ a * b <= a * c
      <4> SUFFICES ASSUME NEW a \in Int, NEW b \in Int, NEW c \in Int, a > 0, b <= c
                   PROVE a * b <= a * c
        OBVIOUS
      <4>1. a * (c - b) >= 0 /\ a * (c - b) = a * c - a * b  OBVIOUS
      <4> QED BY <4>1
    <3> HIDE DEF z, corner, at
    <3> QED BY <2>1, <2>4, <3>1, <3>2
  <2>5. CASE ~(z[j] > 0)
    <3>1. corner[j] = z[j] * lp.u[j] /\ p[j] <= lp.u[j]
      BY <1>4, <2>1, <2>2, <2>3, <2>5
    <3>2. \A a, b, c \in Int : a < 0 /\ c <= b => a * b \in Int /\ a * c \in Int /\ a * b <= a * c
      <4> SUFFICES ASSUME NEW a \in Int, NEW b \in Int, NEW c \in Int, a < 0, c <= b
                   PROVE a * b <= a * c
        OBVIOUS
      <4>1. (-a) * (b - c) >= 0 /\ (-a) * (b - c) = a * c - a * b  OBVIOUS
      <4> QED BY <4>1
    <3> HIDE DEF z, corner, at
    <3> QED BY <2>1, <2>5, <3>1, <3>2
  <2> QED BY <2>4, <2>5
<1>8. Total(at, used) = Prod(z, p, J)
  <2>1. used \in SUBSET J /\ \A j \in J \ used : at[j] = 0  BY <1>1, <1>2
  <2>2. \A j \in J : at[j] \in Int
    <3> SUFFICES ASSUME NEW j \in J PROVE z[j] * p[j] \in Int  OBVIOUS
    <3>1. z[j] \in Int /\ p[j] \in Int  BY <1>1, <1>2
    <3> HIDE DEF z
    <3> QED BY <3>1
  <2>3. Prod(z, p, J) = Total(at, J)  BY DEF Prod
  <2> HIDE DEF at, used, J
  <2> QED BY <1>1, <2>1, <2>2, <2>3, TotalSkipsZeros
<1>9. IsFiniteSet(used)  BY <1>1, FS_Subset
<1>10. Total(corner, used) <= Total(at, used)
  <2> HIDE DEF corner, at, used
  <2> QED BY <1>7, <1>9, TotalGrows
<1>11. Prod(y, h, R) \in Int /\ Total(corner, used) \in Int /\ Total(at, used) \in Int
  <2>1. Ints(h, R)  BY <1>1 DEF Ints
  <2> HIDE DEF corner, at, used, h
  <2> QED BY <1>1, <1>7, <1>9, <2>1, TotalInt, ProdInt
<1> HIDE DEF corner, at, used, h, z
<1> QED BY <1>5, <1>6, <1>8, <1>10, <1>11

(* What column j gains beyond what y pays for it.                          *)
ReducedCost(lp, y, j) == Gain(lp, lp.c[j]) - Zrow(lp, y)[j]

(* Prices y support the point x.                                           *)
Supports(lp, x, y) ==
  /\ RowSigns(lp, y)
  /\ \A i \in DOMAIN lp.rows : y[i] # 0 => RowAt(lp.rows[i], x) = lp.rows[i].b
  /\ \A j \in DOMAIN lp.c :
       /\ ReducedCost(lp, y, j) > 0 => x[j] = lp.u[j] /\ lp.u[j] < LP_INF
       /\ ReducedCost(lp, y, j) < 0 => x[j] = lp.l[j] /\ lp.l[j] > -LP_INF

(* The gain at a point is what the reduced costs and what the rows make of *)
(* it.                                                                     *)
LEMMA GainSplits ==
  ASSUME NEW lp, LinearProgram(lp), NEW y, Ints(y, DOMAIN lp.rows), NEW v \in [DOMAIN lp.c -> Int]
  PROVE  /\ \A j \in DOMAIN lp.c : ReducedCost(lp, y, j) \in Int
         /\ Gain(lp, Value(lp, v))
              = Total([j \in DOMAIN lp.c |-> ReducedCost(lp, y, j) * v[j]], DOMAIN lp.c)
                + Prod(Zrow(lp, y), v, DOMAIN lp.c)
         /\ Total([j \in DOMAIN lp.c |-> ReducedCost(lp, y, j) * v[j]], DOMAIN lp.c) \in Int
         /\ Prod(Zrow(lp, y), v, DOMAIN lp.c) \in Int
         /\ Gain(lp, Value(lp, v)) \in Int
<1> DEFINE J == DOMAIN lp.c
           z == Zrow(lp, y)
           g == [j \in J |-> Gain(lp, lp.c[j])]
           d == [j \in J |-> ReducedCost(lp, y, j)]
           m == IF lp.maximize THEN 1 ELSE -1
<1>1. IsFiniteSet(J) /\ lp.c \in [J -> Int] /\ m \in Int  BY ProgramFacts
<1>2. Ints(z, J) /\ Ints(v, J) /\ Ints(lp.c, J)  BY <1>1, RowsTimesDuals DEF Ints
<1>3. \A j \in J : g[j] = m * lp.c[j] /\ g[j] \in Int /\ d[j] = g[j] - 1 * z[j] /\ g[j] = d[j] + z[j]
                   /\ d[j] \in Int
  BY <1>1, <1>2 DEF Ints, Gain, ReducedCost
<1>4. Ints(g, J) /\ Ints(d, J)  BY <1>3 DEF Ints
<1>5. Prod(g, v, J) = Prod(d, v, J) + Prod(z, v, J)
  <2> HIDE DEF g, d, z, J
  <2> QED BY <1>1, <1>2, <1>3, <1>4, ProdAdds
<1>6. Prod(g, v, J) = m * Prod(lp.c, v, J)
  <2> HIDE DEF g, m, J
  <2> QED BY <1>1, <1>2, <1>3, ProdScales
<1>7. Prod(d, v, J) \in Int /\ Prod(z, v, J) \in Int /\ Prod(lp.c, v, J) \in Int
  <2> HIDE DEF d, z, J
  <2> QED BY <1>1, <1>2, <1>4, ProdInt
<1>8. Gain(lp, Value(lp, v)) = m * Prod(lp.c, v, J)
  <2>1. Value(lp, v) = Prod(lp.c, v, J)  BY ModelSums
  <2> QED BY <1>7, <2>1 DEF Gain
<1>9. Prod(d, v, J) = Total([j \in J |-> ReducedCost(lp, y, j) * v[j]], J)
  <2>1. [j \in J |-> d[j] * v[j]] = [j \in J |-> ReducedCost(lp, y, j) * v[j]]  OBVIOUS
  <2> QED BY <2>1 DEF Prod
<1>10. \A j \in J : ReducedCost(lp, y, j) \in Int  BY <1>3
<1> HIDE DEF g, d, z, m, J
<1> QED BY <1>5, <1>6, <1>7, <1>8, <1>9, <1>10 DEF z, J

(* Weak duality: a point that prices support is best, and no direction     *)
(* improves.                                                               *)
LEMMA SupportedIsOptimal ==
  ASSUME NEW lp, LinearProgram(lp), NEW y, Ints(y, DOMAIN lp.rows), NEW x \in [DOMAIN lp.c -> Int],
         Supports(lp, x, y)
  PROVE  /\ \A p \in [DOMAIN lp.c -> Int] :
              Feasible(lp, p) => Gain(lp, Value(lp, p)) <= Gain(lp, Value(lp, x))
         /\ \A d \in [DOMAIN lp.c -> Int] : ~Improving(lp, d)
<1> DEFINE R == DOMAIN lp.rows
           J == DOMAIN lp.c
           z == Zrow(lp, y)
           b == [i \in R |-> lp.rows[i].b]
           rc(v) == [j \in J |-> ReducedCost(lp, y, j) * v[j]]
<1>1. /\ IsFiniteSet(R) /\ IsFiniteSet(J) /\ lp.l \in [J -> Int] /\ lp.u \in [J -> Int]
      /\ Ints(b, R) /\ LP_INF \in Int
  BY ProgramFacts, SimplexAssumption DEF Ints
<1>2. \A j \in J : ReducedCost(lp, y, j) \in Int  BY GainSplits
<1>3. ASSUME NEW v \in [J -> Int]
      PROVE  /\ Gain(lp, Value(lp, v)) = Total(rc(v), J) + Prod(z, v, J)
             /\ Total(rc(v), J) \in Int /\ Prod(z, v, J) \in Int
             /\ \A j \in J : rc(v)[j] \in Int
  <2>1. /\ Gain(lp, Value(lp, v)) = Total(rc(v), J) + Prod(z, v, J)
        /\ Total(rc(v), J) \in Int /\ Prod(z, v, J) \in Int
    BY GainSplits
  <2>2. \A j \in J : ReducedCost(lp, y, j) * v[j] \in Int
    <3> SUFFICES ASSUME NEW j \in J PROVE ReducedCost(lp, y, j) * v[j] \in Int  OBVIOUS
    <3>1. ReducedCost(lp, y, j) \in Int /\ v[j] \in Int  BY <1>2
    <3> QED BY <3>1
  <2> QED BY <2>1, <2>2
<1>4. Prod(z, x, J) = Prod(y, b, R)
  <2>1. Prod(z, x, J) = Total([i \in R |-> y[i] * RowAt(lp.rows[i], x)], R)  BY RowsTimesDuals
  <2>2. \A i \in R : y[i] * RowAt(lp.rows[i], x) = y[i] * b[i]
    <3> SUFFICES ASSUME NEW i \in R PROVE y[i] * RowAt(lp.rows[i], x) = y[i] * b[i]  OBVIOUS
    <3>1. y[i] \in Int /\ RowAt(lp.rows[i], x) \in Int /\ b[i] \in Int
      BY <1>1, RowsTimesDuals DEF Ints
    <3>2. y[i] = 0 \/ RowAt(lp.rows[i], x) = b[i]  BY DEF Supports
    <3> QED BY <3>1, <3>2
  <2>3. [i \in R |-> y[i] * RowAt(lp.rows[i], x)] = [i \in R |-> y[i] * b[i]]  BY <2>2
  <2> QED BY <2>1, <2>3 DEF Prod
<1>5. ASSUME NEW p \in [J -> Int], Feasible(lp, p)
      PROVE  Gain(lp, Value(lp, p)) <= Gain(lp, Value(lp, x))
  <2>1. Prod(z, p, J) <= Prod(y, b, R)
    <3>1. \A i \in R : Meets(lp.rows[i].rel, RowAt(lp.rows[i], p), b[i])  BY <1>5 DEF Feasible
    <3>2. RowSigns(lp, y)  BY DEF Supports
    <3> HIDE DEF b
    <3> QED BY <1>1, <3>1, <3>2, SignedRowsBound
  <2>2. \A j \in J : rc(p)[j] <= rc(x)[j]
    <3> SUFFICES ASSUME NEW j \in J
                 PROVE ReducedCost(lp, y, j) * p[j] <= ReducedCost(lp, y, j) * x[j]
      OBVIOUS
    <3> DEFINE c == ReducedCost(lp, y, j)
    <3>1. /\ c \in Int /\ p[j] \in Int /\ x[j] \in Int /\ lp.l[j] \in Int /\ lp.u[j] \in Int
      BY <1>1, <1>2
    <3>2. /\ c > 0 => x[j] = lp.u[j] /\ lp.u[j] < LP_INF
          /\ c < 0 => x[j] = lp.l[j] /\ lp.l[j] > -LP_INF
      BY DEF Supports
    <3>3. /\ lp.l[j] <= -LP_INF \/ p[j] >= lp.l[j]
          /\ lp.u[j] >= LP_INF \/ p[j] <= lp.u[j]
      BY <1>5 DEF Feasible
    <3> HIDE DEF c
    <3>4. c = 0 \/ (c > 0 /\ p[j] <= x[j]) \/ (c < 0 /\ p[j] >= x[j])
      BY <1>1, <3>1, <3>2, <3>3
    <3>5. c * p[j] <= c * x[j]
      <4>1. CASE c = 0  BY <3>1, <4>1
      <4>2. CASE c > 0 /\ p[j] <= x[j]
        <5>1. c * (x[j] - p[j]) >= 0 /\ c * (x[j] - p[j]) = c * x[j] - c * p[j]  BY <3>1, <4>2
        <5>2. c * x[j] \in Int /\ c * p[j] \in Int  BY <3>1
        <5> QED BY <5>1, <5>2
      <4>3. CASE c < 0 /\ p[j] >= x[j]
        <5>1. (-c) * (p[j] - x[j]) >= 0 /\ (-c) * (p[j] - x[j]) = c * x[j] - c * p[j]
          BY <3>1, <4>3
        <5>2. c * x[j] \in Int /\ c * p[j] \in Int  BY <3>1
        <5> QED BY <5>1, <5>2
      <4> QED BY <3>4, <4>1, <4>2, <4>3
    <3> QED BY <3>5 DEF c
  <2>3. Total(rc(p), J) <= Total(rc(x), J)
    <3>1. \A j \in J : rc(p)[j] \in Int /\ rc(x)[j] \in Int  BY <1>3
    <3> HIDE DEF rc, J
    <3> QED BY <1>1, <2>2, <3>1, TotalGrows
  <2> HIDE DEF rc, z, b
  <2> QED BY <1>3, <1>4, <2>1, <2>3
<1>6. ASSUME NEW d \in [J -> Int], Improving(lp, d) PROVE FALSE
  <2> DEFINE o == [i \in R |-> 0]
  <2>1. Prod(z, d, J) <= Prod(y, o, R)
    <3>1. \A i \in R : Meets(lp.rows[i].rel, RowAt(lp.rows[i], d), o[i])  BY <1>6 DEF Improving
    <3>2. RowSigns(lp, y)  BY DEF Supports
    <3>3. Ints(o, R)  BY DEF Ints
    <3> HIDE DEF o
    <3> QED BY <3>1, <3>2, <3>3, SignedRowsBound
  <2>2. Prod(y, o, R) = 0
    <3>1. \A i \in R : [r \in R |-> y[r] * o[r]][i] = 0  BY DEF Ints
    <3> QED BY <1>1, <3>1, TotalOfZeros DEF Prod
  <2>3. \A j \in J : rc(d)[j] <= 0
    <3> SUFFICES ASSUME NEW j \in J PROVE ReducedCost(lp, y, j) * d[j] <= 0
      OBVIOUS
    <3> DEFINE c == ReducedCost(lp, y, j)
    <3>1. c \in Int /\ d[j] \in Int /\ lp.l[j] \in Int /\ lp.u[j] \in Int
      BY <1>1, <1>2
    <3>2. (c > 0 => lp.u[j] < LP_INF) /\ (c < 0 => lp.l[j] > -LP_INF)
      BY DEF Supports
    <3>3. (d[j] > 0 => lp.u[j] >= LP_INF) /\ (d[j] < 0 => lp.l[j] <= -LP_INF)
      BY <1>6 DEF Improving
    <3> HIDE DEF c
    <3>4. c = 0 \/ (c > 0 /\ d[j] <= 0) \/ (c < 0 /\ d[j] >= 0)
      BY <1>1, <3>1, <3>2, <3>3
    <3>5. c * d[j] <= 0  BY <3>1, <3>4
    <3> QED BY <3>5 DEF c
  <2>4. Total(rc(d), J) <= 0
    <3> DEFINE n == [j \in J |-> 0]
    <3>0. \A j \in J : rc(d)[j] \in Int  BY <1>3
    <3>2. \A j \in J : n[j] = 0  OBVIOUS
    <3>1. \A j \in J : rc(d)[j] \in Int /\ n[j] \in Int /\ rc(d)[j] <= n[j]
      <4> HIDE DEF rc, n, J
      <4> QED BY <3>0, <3>2, <2>3
    <3> HIDE DEF rc, n, J
    <3>3. Total(n, J) = 0  BY <1>1, <3>2, TotalOfZeros
    <3>4. Total(rc(d), J) <= Total(n, J)  BY <1>1, <3>1, TotalGrows
    <3> QED BY <3>3, <3>4
  <2>5. Gain(lp, Value(lp, d)) > 0  BY <1>6 DEF Improving
  <2> HIDE DEF rc, z, o
  <2> QED BY <1>3, <2>1, <2>2, <2>4, <2>5
<1> QED BY <1>5, <1>6

(* r has the fields of e, but for those of S.                              *)
Keeps(r, e, S) == \A f \in Fields \ S : r[f] = e[f]

(* What the operators on the equality form depend on.                      *)
LEMMA SameShape ==
  ASSUME NEW e, NEW f, f.lp.rows = e.lp.rows, DOMAIN f.lp.c = DOMAIN e.lp.c,
         f.split = e.split, f.artSign = e.artSign
  PROVE  /\ Rows(f) = Rows(e) /\ Core(f) = Core(e) /\ Slacks(f) = Slacks(e)
         /\ Artificials(f) = Artificials(e) /\ Columns(f) = Columns(e)
         /\ \A k, i : A(f, k, i) = A(e, k, i)
         /\ \A k : Column(f, k) = Column(e, k)
         /\ \A w, i : RowSum(f, w, i) = RowSum(e, w, i)
<1>1. /\ Rows(f) = Rows(e) /\ Core(f) = Core(e) /\ Slacks(f) = Slacks(e)
      /\ Artificials(f) = Artificials(e) /\ Columns(f) = Columns(e)
  BY DEF Rows, Core, Slacks, Artificials, Columns
<1>2. \A k, i : A(f, k, i) = A(e, k, i)  BY DEF A
<1>3. \A k : Column(f, k) = Column(e, k)  BY <1>1, <1>2 DEF Column
<1>4. \A w, i : RowSum(f, w, i) = RowSum(e, w, i)
  <2> TAKE w, i
  <2>1. [k \in Columns(f) |-> A(f, k, i) * w[k]] = [k \in Columns(e) |-> A(e, k, i) * w[k]]
    BY <1>1, <1>2
  <2> QED BY <1>1, <2>1 DEF RowSum
<1> QED BY <1>1, <1>2, <1>3, <1>4

(* A sum over the columns: the basic ones slot by slot, then the others.   *)
LEMMA SplitByBasis ==
  ASSUME NEW e, FormInv(e), BasisInv(e), NEW f, \A k \in Columns(e) : f[k] \in Int
  PROVE  /\ IsFiniteSet(Basic(e)) /\ IsFiniteSet(Columns(e) \ Basic(e))
         /\ Basic(e) \subseteq Columns(e)
         /\ Total([t \in Rows(e) |-> f[e.basis[t]]], Rows(e)) \in Int
         /\ Total(f, Columns(e) \ Basic(e)) \in Int
         /\ Total(f, Columns(e))
              = Total([t \in Rows(e) |-> f[e.basis[t]]], Rows(e)) + Total(f, Columns(e) \ Basic(e))
<1> DEFINE R == Rows(e)
           C == Columns(e)
           b == e.basis
           g == [t \in R |-> f[b[t]]]
           N == C \ Basic(e)
<1>1. IsFiniteSet(R) /\ IsFiniteSet(C)  BY FormIsFinite, ColumnsFinite
<1>2. \A i \in R : b[i] \in C  BY DEF BasisInv
<1>3. \A i, r \in R : b[i] = b[r] => i = r  BY DEF BasisInv
<1>4. Basic(e) \subseteq C  BY <1>2 DEF Basic
<1>5. IsFiniteSet(Basic(e)) /\ IsFiniteSet(N)  BY <1>1, <1>4, FS_Subset
<1>6. \A i \in R : g[i] \in Int /\ f[b[i]] = g[i]  BY <1>2
<1>7. Total(f, Basic(e)) = Total(g, R)
  <2>1. Basic(e) = {b[i] : i \in R}  BY DEF Basic
  <2> HIDE DEF g, b, R
  <2> QED BY <1>1, <1>3, <1>6, <2>1, TotalReindexed
<1>8. C = Basic(e) \cup N /\ Basic(e) \cap N = {}  BY <1>4
<1>9. Total(f, C) = Total(f, Basic(e)) + Total(f, N)
  <2>1. \A k \in Basic(e) \cup N : f[k] \in Int  BY <1>8
  <2> HIDE DEF N, C
  <2> QED BY <1>5, <1>8, <2>1, TotalOfUnion
<1>10. Total(f, N) \in Int  
  <2>1. \A k \in N : f[k] \in Int  OBVIOUS
  <2> HIDE DEF N
  <2> QED BY <1>5, <2>1, TotalInt
<1>11. Total(g, R) \in Int
  <2> HIDE DEF g, R
  <2> QED BY <1>1, <1>6, TotalInt
<1> QED BY <1>4, <1>5, <1>7, <1>9, <1>10, <1>11

(* Columns taken out of the problem do not count.                          *)
LEMMA SplitParked ==
  ASSUME NEW e, FormInv(e), BasisInv(e), NEW f, \A k \in Columns(e) : f[k] \in Int,
         \A k \in Columns(e) : e.status[k] = "REMOVED" => f[k] = 0
  PROVE  Total(f, Columns(e) \ Basic(e)) = Total(f, Parked(e))
<1> DEFINE N == Columns(e) \ Basic(e)
           P == Parked(e)
<1>1. IsFiniteSet(N)  BY SplitByBasis
<1>2. P \subseteq N /\ \A k \in N \ P : e.status[k] = "REMOVED"
  BY DEF BasisInv, Parked
<1>3. \A k \in N : f[k] \in Int  OBVIOUS
<1>4. \A k \in N \ P : f[k] = 0  BY <1>2
<1> HIDE DEF N, P
<1>5. Total(f, N) = Total(f, P)  BY <1>1, <1>2, <1>3, <1>4, TotalSkipsZeros
<1> QED BY <1>5 DEF N, P

(* Basis and factors as matrices.                                          *)
LEMMA BasisMatrixFacts ==
  ASSUME NEW e, FormInv(e), BasisInv(e)
  PROVE  /\ Matrix(BasisMatrix(e), Rows(e)) /\ Matrix(e.inv, Rows(e))
         /\ \A t \in Rows(e) : e.basis[t] \in Columns(e) /\ e.basis[t] \in Basic(e)
                               /\ BasisMatrix(e)[t] = Column(e, e.basis[t])
<1>1. \A t \in Rows(e) : e.basis[t] \in Columns(e) /\ e.basis[t] \in Basic(e)
  BY DEF BasisInv, Basic
<1>2. Matrix(BasisMatrix(e), Rows(e))
  BY <1>1, ColumnInts DEF Matrix, BasisMatrix
<1>3. Matrix(e.inv, Rows(e))  BY DEF Matrix, BasisInv, Ints
<1> QED BY <1>1, <1>2, <1>3 DEF BasisMatrix

(* A row at w: the basis times the basic values, and what the others add.  *)
LEMMA RowOfBasis ==
  ASSUME NEW e, FormInv(e), BasisInv(e), NEW w, \A k \in Columns(e) : w[k] \in Int,
         NEW i \in Rows(e), NEW row, \A t \in Rows(e) : row[t] = BasisMatrix(e)[t][i],
         NEW v, \A t \in Rows(e) : v[t] = w[e.basis[t]]
  PROVE  /\ RowSum(e, w, i) = Prod(row, v, Rows(e))
              + Total([k \in Columns(e) |-> A(e, k, i) * w[k]], Columns(e) \ Basic(e))
         /\ Prod(row, v, Rows(e)) \in Int
         /\ Total([k \in Columns(e) |-> A(e, k, i) * w[k]], Columns(e) \ Basic(e)) \in Int
<1> DEFINE f == [k \in Columns(e) |-> A(e, k, i) * w[k]]
<1>1. \A k \in Columns(e) : f[k] \in Int  BY CoefficientInt
<1>2. [t \in Rows(e) |-> f[e.basis[t]]] = [t \in Rows(e) |-> row[t] * v[t]]
  <2> SUFFICES ASSUME NEW t \in Rows(e) PROVE f[e.basis[t]] = row[t] * v[t]  OBVIOUS
  <2>1. e.basis[t] \in Columns(e) /\ BasisMatrix(e)[t] = Column(e, e.basis[t])  BY BasisMatrixFacts
  <2>2. row[t] = A(e, e.basis[t], i)  BY <2>1 DEF Column
  <2> QED BY <2>1, <2>2
<1> HIDE DEF f
<1>3. /\ Total(f, Columns(e)) = Total([t \in Rows(e) |-> f[e.basis[t]]], Rows(e))
                                + Total(f, Columns(e) \ Basic(e))
      /\ Total([t \in Rows(e) |-> f[e.basis[t]]], Rows(e)) \in Int
      /\ Total(f, Columns(e) \ Basic(e)) \in Int
  BY <1>1, SplitByBasis
<1> QED BY <1>2, <1>3 DEF f, RowSum, Prod

(* A basic column is in one slot.                                          *)
LEMMA SlotOf ==
  ASSUME NEW e, BasisInv(e), NEW t \in Rows(e)
  PROVE  (CHOOSE i \in Rows(e) : e.basis[i] = e.basis[t]) = t
BY DEF BasisInv

(* recompute_basic: only values of basic columns change, and the rows hold *)
(* whatever the parked ones are.                                           *)
LEMMA RecomputeFacts ==
  ASSUME NEW e, IsStruct(e), FormInv(e), BasisInv(e), e.x \in [Columns(e) -> Int],
         NEW r, r = recompute_basic(e)
  PROVE  /\ IsStruct(r) /\ Keeps(r, e, {"x"})
         /\ r.x \in [Columns(e) -> Int]
         /\ \A k \in Columns(e) \ Basic(e) : r.x[k] = e.x[k]
         /\ RowsHold(r)
<1> DEFINE R == Rows(e)
           P == Parked(e)
           rest == [i \in R |-> Abs(e.lp.rows[i].b)
                       - MapThenSumSet(LAMBDA k : A(e, k, i) * e.x[k], P)]
           xB == Ftran(e, rest)
           X == [k \in Columns(e) |->
                   IF k \in Basic(e) THEN xB[CHOOSE i \in R : e.basis[i] = k] ELSE e.x[k]]
<1>1. r = [e EXCEPT !.x = X]  BY Zenon DEF recompute_basic
<1>2. IsStruct(r) /\ Keeps(r, e, {"x"}) /\ r.x = X
  <2> HIDE DEF X
  <2> QED BY <1>1 DEF IsStruct, Fields, Keeps
<1>3. /\ r.lp = e.lp /\ r.split = e.split /\ r.artSign = e.artSign /\ r.basis = e.basis
      /\ r.status = e.status
  BY <1>2, Zenon DEF Keeps, Fields
<1>4. /\ Rows(r) = R /\ Columns(r) = Columns(e)
      /\ \A w, i : RowSum(r, w, i) = RowSum(e, w, i)
  BY <1>3, SameShape
<1>5. ASSUME NEW i \in R
      PROVE  /\ MapThenSumSet(LAMBDA k : A(e, k, i) * e.x[k], P)
                  = Total([k \in P |-> A(e, k, i) * e.x[k]], P)
             /\ Total([k \in P |-> A(e, k, i) * e.x[k]], P) \in Int
             /\ Abs(e.lp.rows[i].b) \in Int
  <2>1. MapThenSumSet(LAMBDA k : A(e, k, i) * e.x[k], P) = Total([k \in P |-> A(e, k, i) * e.x[k]], P)
    BY DEF Total, MapThenSumSet, MapThenFoldSet
  <2>2. IsFiniteSet(P) /\ P \subseteq Columns(e)  BY ColumnsFinite, FS_Subset DEF Parked
  <2>3. \A k \in P : [c \in P |-> A(e, c, i) * e.x[c]][k] \in Int  BY <2>2, CoefficientInt
  <2>4. Total([k \in P |-> A(e, k, i) * e.x[k]], P) \in Int
    <3> HIDE DEF P
    <3> QED BY <2>2, <2>3, TotalInt
  <2>5. Abs(e.lp.rows[i].b) \in Int  BY FormIsFinite DEF Abs
  <2> QED BY <2>1, <2>4, <2>5, Zenon
<1> DEFINE out(i) == Total([k \in P |-> A(e, k, i) * e.x[k]], P)
<1>6a. \A i \in R : rest[i] = Abs(e.lp.rows[i].b) - out(i)
  <2> SUFFICES ASSUME NEW i \in R PROVE rest[i] = Abs(e.lp.rows[i].b) - out(i)  BY Zenon
  <2>1. MapThenSumSet(LAMBDA k : A(e, k, i) * e.x[k], P) = out(i)  BY <1>5, Zenon
  <2> HIDE DEF out
  <2> QED BY <2>1, Zenon
<1>6b. \A i \in R : Abs(e.lp.rows[i].b) \in Int /\ out(i) \in Int  BY <1>5, Zenon
<1>6. Ints(rest, R)
  <2> HIDE DEF rest, out
  <2> QED BY <1>6a, <1>6b DEF Ints
<1>7. \A t \in R : xB[t] = Prod(e.inv[t], rest, R) /\ xB[t] \in Int
  <2> SUFFICES ASSUME NEW t \in R PROVE Prod(e.inv[t], rest, R) \in Int
    <3>1. xB = [i \in R |-> Prod(e.inv[i], rest, R)]  BY ModelProducts, Zenon
    <3> HIDE DEF xB, rest
    <3> QED BY <3>1
  <2>1. IsFiniteSet(R) /\ Ints(e.inv[t], R)  BY FormIsFinite, BasisMatrixFacts DEF Matrix
  <2> HIDE DEF rest, R
  <2> QED BY <1>6, <2>1, ProdInt
<1>8. \A t \in R : X[e.basis[t]] = xB[t]
  <2> HIDE DEF xB
  <2> QED BY SlotOf, BasisMatrixFacts
<1>9. \A k \in Columns(e) : k \in Basic(e) => \E t \in R : k = e.basis[t]  BY DEF Basic
<1>10. X \in [Columns(e) -> Int]
  <2>1. \A k \in Columns(e) : X[k] \in Int
    <3> SUFFICES ASSUME NEW k \in Columns(e) PROVE X[k] \in Int  BY Zenon
    <3>1. CASE k \in Basic(e)
      <4> HIDE DEF X, xB
      <4> QED BY <1>7, <1>8, <1>9, <3>1, Zenon
    <3>2. CASE k \notin Basic(e)  BY <3>2, Zenon
    <3> QED BY <3>1, <3>2, Zenon
  <2> QED BY <2>1, Zenon
<1>11. \A k \in Columns(e) \ Basic(e) : X[k] = e.x[k]  BY Zenon
<1>12. RowsHold(r)
  <2> SUFFICES ASSUME NEW i \in R PROVE RowSum(e, Present(r), i) = Abs(e.lp.rows[i].b)
    BY <1>3, <1>4 DEF RowsHold
  <2> DEFINE w == Present(r)
             f == [k \in Columns(e) |-> A(e, k, i) * w[k]]
             row == [t \in R |-> BasisMatrix(e)[t][i]]
  <2>1. \A k \in Columns(e) : w[k] = IF e.status[k] = "REMOVED" THEN 0 ELSE X[k]
    BY <1>2, <1>3, <1>4, Zenon DEF Present
  <2>2. \A k \in Columns(e) : w[k] \in Int
    <3> HIDE DEF w, X
    <3> QED BY <1>10, <2>1
  <2>3. \A t \in R : xB[t] = w[e.basis[t]]
    <3> SUFFICES ASSUME NEW t \in R PROVE xB[t] = w[e.basis[t]]  BY Zenon
    <3>1. e.basis[t] \in Columns(e) /\ e.basis[t] \in Basic(e)  BY BasisMatrixFacts
    <3>2. e.status[e.basis[t]] # "REMOVED"  BY <3>1 DEF BasisInv
    <3> HIDE DEF w, X, xB
    <3> QED BY <1>8, <2>1, <3>1, <3>2
  <2>4. RowSum(e, w, i) = Prod(row, xB, R) + Total(f, Columns(e) \ Basic(e))
    <3> HIDE DEF w, xB
    <3> QED BY <2>2, <2>3, RowOfBasis
  <2>5. \A k \in Columns(e) : f[k] \in Int
    <3> HIDE DEF w
    <3> QED BY <2>2, CoefficientInt
  <2>6. \A k \in Columns(e) : e.status[k] = "REMOVED" => f[k] = 0
    <3> SUFFICES ASSUME NEW k \in Columns(e), e.status[k] = "REMOVED" PROVE f[k] = 0  OBVIOUS
    <3>1. w[k] = 0  BY <2>1, Zenon
    <3>2. A(e, k, i) \in Int  BY CoefficientInt
    <3> HIDE DEF w
    <3> QED BY <3>1, <3>2
  <2>7. Total(f, Columns(e) \ Basic(e)) = Total(f, P)
    <3> HIDE DEF f
    <3> QED BY <2>5, <2>6, SplitParked
  <2>8. Total(f, P) = Total([k \in P |-> A(e, k, i) * e.x[k]], P)
    <3>1. IsFiniteSet(P)  BY ColumnsFinite, FS_Subset DEF Parked
    <3>2. \A k \in P : k \in Columns(e) /\ k \notin Basic(e) /\ e.status[k] # "REMOVED"
      BY DEF Parked, BasisInv
    <3>3. \A k \in P : w[k] = e.x[k]
      <4> HIDE DEF w, X
      <4> QED BY <1>11, <2>1, <3>2
    <3>4. \A k \in P : f[k] = [c \in P |-> A(e, c, i) * e.x[c]][k]
      <4> HIDE DEF w
      <4> QED BY <3>2, <3>3
    <3> HIDE DEF f, P
    <3> QED BY <3>1, <3>4, TotalAgrees
  <2>9. Prod(row, xB, R) = rest[i]
    <3>1. \A t \in R : row[t] = BasisMatrix(e)[t][i]  OBVIOUS
    <3>2. IsFiniteSet(R) /\ Matrix(BasisMatrix(e), R) /\ Matrix(e.inv, R)
          /\ IsRightInverse(e.inv, BasisMatrix(e), R)
      BY FormIsFinite, BasisMatrixFacts DEF BasisInv
    <3>3. \A t \in R : xB[t] = Prod(e.inv[t], rest, R)  BY <1>7, Zenon
    <3> HIDE DEF row, xB, rest, R
    <3> QED BY <1>6, <3>1, <3>2, <3>3, SolvesSystem DEF R
  <2> HIDE DEF w, f, row, xB, rest, P, out
  <2>10. Total(f, P) = out(i)  BY <2>8 DEF out
  <2>11. RowSum(e, w, i) = Abs(e.lp.rows[i].b)  BY <1>6a, <1>6b, <2>4, <2>7, <2>9, <2>10
  <2> QED BY <2>11 DEF w
<1> QED BY <1>2, <1>10, <1>11, <1>12, Zenon

(* Column k of [A | I] for the rows as the caller gave them.               *)
Plain(rows, n, k) ==
  [r \in DOMAIN rows |-> IF k \in 1 .. n THEN rows[r].a[k] ELSE IF k = n + r THEN 1 ELSE 0]

(* What total unimodularity says of one entry of a tableau.                *)
LEMMA UnimodularGives ==
  ASSUME NEW rows, NEW n, Unimodular(rows, n),
         NEW basis \in [DOMAIN rows -> 1 .. n + Len(rows)],
         NEW inv \in [DOMAIN rows -> [DOMAIN rows -> -2 .. 2]],
         \A i, t \in DOMAIN rows :
           Prod(inv[i], Plain(rows, n, basis[t]), DOMAIN rows) = (IF i = t THEN 1 ELSE 0),
         NEW i \in DOMAIN rows, NEW k \in 1 .. n + Len(rows)
  PROVE  Prod(inv[i], Plain(rows, n, k), DOMAIN rows) \in {-1, 0, 1}
<1> DEFINE M == DOMAIN rows
           times(y, v) == MapThenSumSet(LAMBDA r : y[r] * v[r], M)
<1>1. \A y, v : times(y, v) = Prod(y, v, M)
  BY ProductIs, Zenon
<1>2. \A bs \in [M -> 1 .. n + Len(rows)], iv \in [M -> [M -> -2 .. 2]] :
        (\A j, t \in M : times(iv[j], Plain(rows, n, bs[t])) = (IF j = t THEN 1 ELSE 0))
          => \A j \in M, c \in 1 .. n + Len(rows) : times(iv[j], Plain(rows, n, c)) \in {-1, 0, 1}
  BY Zenon DEF Unimodular, Plain
<1> HIDE DEF times, M
<1>3. \A j, t \in M : times(inv[j], Plain(rows, n, basis[t])) = (IF j = t THEN 1 ELSE 0)
  BY <1>1 DEF M
<1>4. times(inv[i], Plain(rows, n, k)) \in {-1, 0, 1}  BY <1>2, <1>3 DEF M
<1> QED BY <1>1, <1>4 DEF M

(* The column of [A | I] that column k of the equality form is, and the    *)
(* sign it has there.                                                      *)
PlainIndex(e, k) == IF k[1] \in {"x", "n"} THEN k[2] ELSE Len(e.lp.c) + k[2]

PlainSign(e, k) ==
  CASE k[1] = "x" -> 1
    [] k[1] = "n" -> -1
    [] k[1] = "s" -> Mlt(e.lp.rows[k[2]]) * SlackSign(e.lp.rows[k[2]])
    [] k[1] = "a" -> Mlt(e.lp.rows[k[2]]) * e.artSign[k[2]]

(* Column k of the equality form is, up to signs, that column of [A | I].  *)
LEMMA PlainFacts ==
  ASSUME NEW e, FormInv(e), NEW k \in Columns(e)
  PROVE  /\ PlainIndex(e, k) \in 1 .. Len(e.lp.c) + Len(e.lp.rows)
         /\ PlainSign(e, k) \in {-1, 1}
         /\ Ints(Plain(e.lp.rows, Len(e.lp.c), PlainIndex(e, k)), Rows(e))
         /\ \A r \in Rows(e) :
              Mlt(e.lp.rows[r]) * Plain(e.lp.rows, Len(e.lp.c), PlainIndex(e, k))[r]
                = PlainSign(e, k) * A(e, k, r)
<1> DEFINE n == Len(e.lp.c)
           P(j) == Plain(e.lp.rows, n, j)
<1>1. /\ Rows(e) = 1 .. Len(e.lp.rows) /\ DOMAIN e.lp.c = 1 .. n
      /\ Len(e.lp.rows) \in Nat /\ n \in Nat
      /\ \A i \in Rows(e) : e.lp.rows[i].a \in [1 .. n -> Int]
      /\ e.split \subseteq 1 .. n
  BY FormIsFinite DEF FormInv
<1>2. \A i \in Rows(e) : /\ Mlt(e.lp.rows[i]) \in {-1, 1} /\ SlackSign(e.lp.rows[i]) \in {-1, 1}
                         /\ e.artSign[i] \in {-1, 1}
  BY Signs
<1>3. \A j, r : r \in Rows(e) =>
        P(j)[r] = IF j \in 1 .. n THEN e.lp.rows[r].a[j] ELSE IF j = n + r THEN 1 ELSE 0
  BY DEF Plain, Rows
<1>4. \A j : Ints(P(j), Rows(e))  BY <1>1, <1>3 DEF Ints
<1> DEFINE N == n + Len(e.lp.rows)
<1>4a. \A a, b \in Nat : /\ \A j \in 1 .. a : j \in 1 .. a + b
                          /\ \A i \in 1 .. b : a + i \in 1 .. a + b /\ a + i \notin 1 .. a
  OBVIOUS
<1>4b. \A a \in Nat : \A i, r \in Int : a + i = a + r => i = r  OBVIOUS
<1>4c. \A j \in 1 .. n : j \in 1 .. N
  <2> HIDE DEF n
  <2> QED BY <1>1, <1>4a
<1>4d. \A i \in Rows(e) : n + i \in 1 .. N /\ n + i \notin 1 .. n
  <2> HIDE DEF n
  <2> QED BY <1>1, <1>4a
<1>4e. \A i, r \in Rows(e) : n + i = n + r => i = r
  <2>1. \A i \in Rows(e) : i \in Int  BY <1>1
  <2> HIDE DEF n
  <2> QED BY <1>1, <1>4b, <2>1
<1> HIDE DEF P
<1>5. CASE \E j \in 1 .. n : k = <<"x", j>>
  <2> PICK j \in 1 .. n : k = <<"x", j>>  BY <1>5
  <2>1. PlainIndex(e, k) = j /\ PlainSign(e, k) = 1  BY DEF PlainIndex, PlainSign
  <2>2. j \in 1 .. N  BY <1>4c
  <2>3. \A r \in Rows(e) : Mlt(e.lp.rows[r]) * P(j)[r] = 1 * A(e, k, r)
    BY <1>1, <1>2, <1>3 DEF A
  <2> QED BY <1>4, <2>1, <2>2, <2>3 DEF P
<1>6. CASE \E j \in 1 .. n : k = <<"n", j>>
  <2> PICK j \in 1 .. n : k = <<"n", j>>  BY <1>6
  <2>1. PlainIndex(e, k) = j /\ PlainSign(e, k) = -1  BY DEF PlainIndex, PlainSign
  <2>2. j \in 1 .. N  BY <1>4c
  <2>3. \A r \in Rows(e) : Mlt(e.lp.rows[r]) * P(j)[r] = (-1) * A(e, k, r)
    <3> SUFFICES ASSUME NEW r \in Rows(e)
                 PROVE Mlt(e.lp.rows[r]) * P(j)[r] = (-1) * A(e, k, r)
      OBVIOUS
    <3>1. /\ P(j)[r] = e.lp.rows[r].a[j] /\ e.lp.rows[r].a[j] \in Int
          /\ Mlt(e.lp.rows[r]) \in Int
      BY <1>1, <1>2, <1>3
    <3>2. A(e, k, r) = -(Mlt(e.lp.rows[r]) * e.lp.rows[r].a[j])  BY DEF A
    <3> DEFINE v == Mlt(e.lp.rows[r]) * e.lp.rows[r].a[j]
    <3>3. v \in Int  BY <3>1
    <3> HIDE DEF v
    <3>4. v = (-1) * (-v)  BY <3>3
    <3> QED BY <3>1, <3>2, <3>4 DEF v
  <2> QED BY <1>4, <2>1, <2>2, <2>3 DEF P
<1>7. CASE \E i \in Rows(e) : k = <<"s", i>>
  <2> PICK i \in Rows(e) : k = <<"s", i>>  BY <1>7
  <2>1. /\ PlainIndex(e, k) = n + i
        /\ PlainSign(e, k) = Mlt(e.lp.rows[i]) * SlackSign(e.lp.rows[i])
    BY DEF PlainIndex, PlainSign
  <2>2. n + i \in 1 .. N /\ n + i \notin 1 .. n
        /\ \A r \in Rows(e) : n + i = n + r => i = r
    BY <1>4d, <1>4e
  <2>3. \A r \in Rows(e) : Mlt(e.lp.rows[r]) * P(n + i)[r]
                             = (Mlt(e.lp.rows[i]) * SlackSign(e.lp.rows[i])) * A(e, k, r)
    BY <1>2, <1>3, <2>2 DEF A
  <2>4. Mlt(e.lp.rows[i]) * SlackSign(e.lp.rows[i]) \in {-1, 1}  BY <1>2
  <2> QED BY <1>4, <2>1, <2>2, <2>3, <2>4 DEF P
<1>8. CASE \E i \in Rows(e) : k = <<"a", i>>
  <2> PICK i \in Rows(e) : k = <<"a", i>>  BY <1>8
  <2>1. /\ PlainIndex(e, k) = n + i
        /\ PlainSign(e, k) = Mlt(e.lp.rows[i]) * e.artSign[i]
    BY DEF PlainIndex, PlainSign
  <2>2. n + i \in 1 .. N /\ n + i \notin 1 .. n
        /\ \A r \in Rows(e) : n + i = n + r => i = r
    BY <1>4d, <1>4e
  <2>3. \A r \in Rows(e) : Mlt(e.lp.rows[r]) * P(n + i)[r]
                             = (Mlt(e.lp.rows[i]) * e.artSign[i]) * A(e, k, r)
    BY <1>2, <1>3, <2>2 DEF A
  <2>4. Mlt(e.lp.rows[i]) * e.artSign[i] \in {-1, 1}  BY <1>2
  <2> QED BY <1>4, <2>1, <2>2, <2>3, <2>4 DEF P
<1>9. \/ \E j \in 1 .. n : k = <<"x", j>>
      \/ \E j \in 1 .. n : k = <<"n", j>>
      \/ \E i \in Rows(e) : k = <<"s", i>>
      \/ \E i \in Rows(e) : k = <<"a", i>>
  <2> HIDE DEF n
  <2> QED BY <1>1, ColumnKinds
<1> QED BY <1>5, <1>6, <1>7, <1>8, <1>9

(* Every factor and every tableau entry is -1, 0 or 1.                     *)
LEMMA TableauIsUnit ==
  ASSUME NEW e, FormInv(e), Unimodular(e.lp.rows, Len(e.lp.c)),
         e.basis \in [Rows(e) -> Columns(e)], e.inv \in [Rows(e) -> [Rows(e) -> -2 .. 2]],
         IsLeftInverse(e.inv, BasisMatrix(e), Rows(e))
  PROVE  /\ e.inv \in [Rows(e) -> [Rows(e) -> {-1, 0, 1}]]
         /\ \A i \in Rows(e), k \in Columns(e) :
              Prod(e.inv[i], Column(e, k), Rows(e)) \in {-1, 0, 1}
<1> DEFINE R == Rows(e)
           n == Len(e.lp.c)
           P(k) == Plain(e.lp.rows, n, PlainIndex(e, k))
           sg(k) == PlainSign(e, k)
           m(r) == Mlt(e.lp.rows[r])
           basis == [t \in R |-> PlainIndex(e, e.basis[t])]
           inv == [i \in R |-> [r \in R |-> sg(e.basis[i]) * e.inv[i][r] * m(r)]]
<1>1. /\ IsFiniteSet(R) /\ R = DOMAIN e.lp.rows /\ n \in Nat /\ Len(e.lp.rows) \in Nat
      /\ \A r \in R : m(r) \in {-1, 1}
  BY FormIsFinite, Signs DEF Rows
<1>2. \A k \in Columns(e) : /\ PlainIndex(e, k) \in 1 .. n + Len(e.lp.rows)
                            /\ sg(k) \in {-1, 1} /\ Ints(P(k), R)
                            /\ \A r \in R : m(r) * P(k)[r] = sg(k) * A(e, k, r)
  BY PlainFacts
<1>3. \A i, r \in R : e.inv[i][r] \in -2 .. 2  OBVIOUS
<1>4. basis \in [R -> 1 .. n + Len(e.lp.rows)]  BY <1>2
<1>5. inv \in [R -> [R -> -2 .. 2]]
  <2> SUFFICES ASSUME NEW i \in R, NEW r \in R
               PROVE  sg(e.basis[i]) * e.inv[i][r] * m(r) \in -2 .. 2
    OBVIOUS
  <2>1. sg(e.basis[i]) \in {-1, 1} /\ m(r) \in {-1, 1}  BY <1>1, <1>2
  <2> HIDE DEF sg, m
  <2> QED BY <1>3, <2>1
<1>6. ASSUME NEW i \in R, NEW k \in Columns(e)
      PROVE  /\ Prod(inv[i], P(k), R)
                  = (sg(e.basis[i]) * sg(k)) * Prod(e.inv[i], Column(e, k), R)
             /\ Prod(e.inv[i], Column(e, k), R) \in Int
             /\ sg(e.basis[i]) * sg(k) \in {-1, 1}
  <2> DEFINE a == sg(e.basis[i]) * sg(k)
             w == [r \in R |-> a * e.inv[i][r]]
             c == Column(e, k)
  <2>1. sg(e.basis[i]) \in {-1, 1} /\ sg(k) \in {-1, 1}  BY <1>2
  <2>2. a \in {-1, 1} /\ a \in Int  BY <2>1
  <2>3. Ints(e.inv[i], R) /\ Ints(c, R)
    <3>1. Ints(c, R)  BY ColumnInts
    <3>2. \A r \in R : e.inv[i][r] \in Int  BY <1>3
    <3> QED BY <3>1, <3>2 DEF Ints
  <2>4. \A r \in R : inv[i][r] * P(k)[r] = w[r] * c[r]
    <3> SUFFICES ASSUME NEW r \in R
                 PROVE (sg(e.basis[i]) * e.inv[i][r] * m(r)) * P(k)[r]
                         = (sg(e.basis[i]) * sg(k)) * e.inv[i][r] * A(e, k, r)
      BY DEF Column
    <3>1. /\ m(r) * P(k)[r] = sg(k) * A(e, k, r) /\ m(r) \in {-1, 1}
          /\ P(k)[r] \in Int /\ A(e, k, r) \in Int /\ e.inv[i][r] \in Int
      <4>1. m(r) * P(k)[r] = sg(k) * A(e, k, r) /\ m(r) \in {-1, 1}  BY <1>1, <1>2
      <4>2. P(k)[r] \in Int  BY <1>2 DEF Ints
      <4>3. A(e, k, r) \in Int  BY CoefficientInt
      <4> QED BY <1>3, <4>1, <4>2, <4>3
    <3> DEFINE v == e.inv[i][r]
               x == sg(e.basis[i])
               s2 == sg(k)
               mm == m(r)
               pp == P(k)[r]
               aa == A(e, k, r)
    <3>2. x \in Int /\ s2 \in Int /\ mm \in Int /\ pp \in Int /\ aa \in Int /\ v \in Int
          /\ mm * pp = s2 * aa
      <4> HIDE DEF m, P, sg
      <4> QED BY <2>1, <3>1
    <3> SUFFICES (x * v * mm) * pp = (x * s2) * v * aa  OBVIOUS
    <3> HIDE DEF x, v, s2, mm, pp, aa
    <3>3. (x * v * mm) * pp = (x * v) * (mm * pp)  BY <3>2
    <3>4. (x * v) * (s2 * aa) = (x * s2) * v * aa  BY <3>2
    <3> QED BY <3>2, <3>3, <3>4
  <2>5. Prod(inv[i], P(k), R) = Prod(w, c, R)
    <3> HIDE DEF inv, P, w, c, R
    <3> QED BY <1>1, <2>4, ProdAgrees
  <2>6. Prod(w, c, R) = a * Prod(e.inv[i], c, R)
    <3>1. \A r \in R : w[r] = a * e.inv[i][r]  OBVIOUS
    <3> HIDE DEF w, a, c, R
    <3> QED BY <1>1, <2>2, <2>3, <3>1, ProdScales
  <2>7. Prod(e.inv[i], c, R) \in Int
    <3> HIDE DEF c, R
    <3> QED BY <1>1, <2>3, ProdInt
  <2> QED BY <2>2, <2>5, <2>6, <2>7
<1>7. \A i, t \in R : Prod(inv[i], Plain(e.lp.rows, n, basis[t]), R) = (IF i = t THEN 1 ELSE 0)
  <2> SUFFICES ASSUME NEW i \in R, NEW t \in R
               PROVE  Prod(inv[i], P(e.basis[t]), R) = (IF i = t THEN 1 ELSE 0)
    OBVIOUS
  <2>1. Prod(e.inv[i], Column(e, e.basis[t]), R) = Delta(i, t)
    BY DEF IsLeftInverse, BasisMatrix
  <2>2. /\ Prod(inv[i], P(e.basis[t]), R) = (sg(e.basis[i]) * sg(e.basis[t])) * Delta(i, t)
        /\ sg(e.basis[i]) \in {-1, 1}
    <3>1. e.basis[t] \in Columns(e) /\ e.basis[i] \in Columns(e)  OBVIOUS
    <3> HIDE DEF inv, P, sg
    <3> QED BY <1>2, <1>6, <2>1, <3>1
  <2> HIDE DEF inv, P, sg
  <2>3. CASE i = t  BY <2>2, <2>3 DEF Delta
  <2>4. CASE i # t  
    <3>1. sg(e.basis[i]) * sg(e.basis[t]) \in {-1, 1}  BY <1>6
    <3> QED BY <2>2, <2>4, <3>1 DEF Delta
  <2> QED BY <2>3, <2>4
<1>8. \A i \in R, k \in 1 .. n + Len(e.lp.rows) :
        Prod(inv[i], Plain(e.lp.rows, n, k), R) \in {-1, 0, 1}
  <2> SUFFICES ASSUME NEW i \in R, NEW k \in 1 .. n + Len(e.lp.rows)
               PROVE  Prod(inv[i], Plain(e.lp.rows, n, k), R) \in {-1, 0, 1}
    OBVIOUS
  <2> DEFINE rows == e.lp.rows
             M == DOMAIN rows
  <2>1. R = M  BY <1>1
  <2> HIDE DEF inv, basis, R, n
  <2>2. /\ basis \in [M -> 1 .. n + Len(rows)] /\ inv \in [M -> [M -> -2 .. 2]]
        /\ i \in M /\ k \in 1 .. n + Len(rows)
    BY <1>4, <1>5, <2>1
  <2>3. \A j, t \in M : Prod(inv[j], Plain(rows, n, basis[t]), M) = (IF j = t THEN 1 ELSE 0)
    BY <1>7, <2>1
  <2>4. Unimodular(rows, n)  BY DEF n
  <2> HIDE DEF rows
  <2>5. Prod(inv[i], Plain(rows, n, k), M) \in {-1, 0, 1}
    BY <2>2, <2>3, <2>4, UnimodularGives
  <2> QED BY <2>1, <2>5 DEF rows
<1>9. ASSUME NEW i \in R, NEW k \in Columns(e)
      PROVE Prod(e.inv[i], Column(e, k), R) \in {-1, 0, 1}
  <2>1. Prod(inv[i], P(k), R) \in {-1, 0, 1}  BY <1>2, <1>8
  <2>2. /\ Prod(inv[i], P(k), R) = (sg(e.basis[i]) * sg(k)) * Prod(e.inv[i], Column(e, k), R)
        /\ Prod(e.inv[i], Column(e, k), R) \in Int
        /\ sg(e.basis[i]) * sg(k) \in {-1, 1}
    BY <1>6
  <2> HIDE DEF inv, P, sg
  <2>3. \A g, x \in Int : g \in {-1, 1} /\ g * x \in {-1, 0, 1} => x \in {-1, 0, 1}  OBVIOUS
  <2> QED BY <2>1, <2>2, <2>3
<1>10. ASSUME NEW i \in R, NEW r \in R PROVE e.inv[i][r] \in {-1, 0, 1}
  <2> DEFINE k == <<"a", r>>
  <2>1. k \in Columns(e) /\ e.artSign[r] \in {-1, 1} /\ Ints(e.inv[i], R)
    BY ColumnKinds, Signs DEF Ints
  <2>2. Prod(e.inv[i], Column(e, k), R) = e.inv[i][r] * e.artSign[r]
    <3>1. Dot(e, e.inv[i], <<"a", r>>) = e.inv[i][r] * e.artSign[r]  BY <2>1, DotOfColumn
    <3> QED BY <3>1, ModelProducts
  <2>3. e.inv[i][r] * e.artSign[r] \in {-1, 0, 1}  BY <1>9, <2>1, <2>2
  <2> QED BY <1>3, <2>1, <2>3
<1> QED BY <1>9, <1>10

(* The size of a bound that is present.                                    *)
Magnitude(v) == IF Abs(v) < LP_INF THEN Abs(v) ELSE 0

(* What the assumptions say of a program the caller can have described.    *)
LEMMA DescribedFacts ==
  ASSUME NEW lp, Described(lp)
  PROVE  /\ LinearProgram(lp) /\ Unimodular(lp.rows, Len(lp.c))
         /\ Total([i \in DOMAIN lp.rows |-> Abs(lp.rows[i].b)], DOMAIN lp.rows)
              + Total([j \in DOMAIN lp.l |-> Magnitude(lp.l[j]) + Magnitude(lp.u[j])], DOMAIN lp.l)
              < LP_INF
<1> PICK p \in Problems : /\ Len(lp.c) = Len(p.c) /\ lp.rows \in RowLists(p)
                          /\ \E b \in {BoxOf(p)} \cup Boxes : Len(b.l) = Len(p.c) /\ BoxOf(lp) = BoxOf(b)
  BY DEF Described
<1> PICK b \in {BoxOf(p)} \cup Boxes : Len(b.l) = Len(p.c) /\ BoxOf(lp) = BoxOf(b)  OBVIOUS
<1>1. Unimodular(lp.rows, Len(lp.c)) /\ Modest(lp.rows, b)  BY SimplexAssumption
<1>2. b.l = lp.l /\ b.u = lp.u  BY DEF BoxOf
<1> DEFINE finite(v) == IF Abs(v) < LP_INF THEN Abs(v) ELSE 0
<1>3. MapThenSumSet(LAMBDA i : Abs(lp.rows[i].b), DOMAIN lp.rows)
        = Total([i \in DOMAIN lp.rows |-> Abs(lp.rows[i].b)], DOMAIN lp.rows)
  BY DEF Total, MapThenSumSet, MapThenFoldSet
<1>4. MapThenSumSet(LAMBDA j : finite(b.l[j]) + finite(b.u[j]), DOMAIN b.l)
        = Total([j \in DOMAIN b.l |-> finite(b.l[j]) + finite(b.u[j])], DOMAIN b.l)
  BY Zenon DEF Total, MapThenSumSet, MapThenFoldSet
<1>5. MapThenSumSet(LAMBDA i : Abs(lp.rows[i].b), DOMAIN lp.rows)
        + MapThenSumSet(LAMBDA j : finite(b.l[j]) + finite(b.u[j]), DOMAIN b.l) < LP_INF
  BY <1>1, Zenon DEF Modest
<1>6. Total([i \in DOMAIN lp.rows |-> Abs(lp.rows[i].b)], DOMAIN lp.rows)
        + Total([j \in DOMAIN b.l |-> finite(b.l[j]) + finite(b.u[j])], DOMAIN b.l) < LP_INF
  BY <1>3, <1>4, <1>5, Zenon
<1>7. [j \in DOMAIN b.l |-> finite(b.l[j]) + finite(b.u[j])]
        = [j \in DOMAIN lp.l |-> Magnitude(lp.l[j]) + Magnitude(lp.u[j])]
  BY <1>2 DEF Magnitude
<1>8. Total([j \in DOMAIN b.l |-> finite(b.l[j]) + finite(b.u[j])], DOMAIN b.l)
        = Total([j \in DOMAIN lp.l |-> Magnitude(lp.l[j]) + Magnitude(lp.u[j])], DOMAIN lp.l)
  BY <1>2, <1>7
<1> HIDE DEF finite
<1> QED BY <1>1, <1>6, <1>8 DEF Described

(* Column q has taken slot p of the basis, whose column went to bound at.  *)
Swapped(e, q, r, p, at) ==
  /\ p \in Rows(e) /\ at \in {"NBL", "NBU"} /\ Ftran(e, Column(e, q))[p] # 0
  /\ r.inv = Eta(e, Ftran(e, Column(e, q)), p)
  /\ r.basis = [e.basis EXCEPT ![p] = q]
  /\ r.status = [[e.status EXCEPT ![e.basis[p]] = at] EXCEPT ![q] = "BASIC"]

(* The tableau entry is 1 or -1, and the new basis has its inverse.        *)
LEMMA PivotFacts ==
  ASSUME NEW e, FormInv(e), BasisInv(e), Unimodular(e.lp.rows, Len(e.lp.c)),
         NEW q \in Parked(e), NEW p, NEW d, d = Ftran(e, Column(e, q)), NEW at, NEW r,
         r.lp = e.lp, r.split = e.split, r.artSign = e.artSign, Swapped(e, q, r, p, at)
  PROVE  /\ d[p] \in {-1, 1} /\ \A i \in Rows(e) : d[i] \in {-1, 0, 1}
         /\ BasisInv(r)
         /\ \A k \in Columns(e) : r.status[k] = IF k = q THEN "BASIC"
                                                ELSE IF k = e.basis[p] THEN at ELSE e.status[k]
         /\ q # e.basis[p]
         /\ \A k \in Columns(e) : r.status[k] = "REMOVED" <=> e.status[k] = "REMOVED"
<1> DEFINE R == Rows(e)
           C == Columns(e)
           a == Column(e, q)
           l == e.basis[p]
<1>0. /\ p \in R /\ at \in {"NBL", "NBU"} /\ d[p] # 0 /\ r.inv = Eta(e, d, p)
      /\ r.basis = [e.basis EXCEPT ![p] = q]
      /\ r.status = [[e.status EXCEPT ![l] = at] EXCEPT ![q] = "BASIC"]
  BY DEF Swapped
<1>1. /\ Rows(r) = R /\ Columns(r) = C /\ \A k : Column(r, k) = Column(e, k)
      /\ FormInv(r)
  <2>1. /\ Rows(r) = R /\ Columns(r) = C /\ \A k : Column(r, k) = Column(e, k)  BY SameShape
  <2> QED BY <2>1 DEF FormInv
<1>2. q \in C /\ q \notin Basic(e) /\ e.status[q] # "REMOVED"  BY DEF Parked, BasisInv
<1>3. /\ IsFiniteSet(R) /\ Matrix(BasisMatrix(e), R) /\ Matrix(e.inv, R)
      /\ IsLeftInverse(e.inv, BasisMatrix(e), R) /\ IsRightInverse(e.inv, BasisMatrix(e), R)
  BY FormIsFinite, BasisMatrixFacts DEF BasisInv
<1>4. Ints(a, R)  BY <1>2, ColumnInts
<1>5. \A i \in R : d[i] = Prod(e.inv[i], a, R)
  <2>1. d = [i \in R |-> Prod(e.inv[i], a, R)]  BY ModelProducts
  <2> HIDE DEF a
  <2> QED BY <2>1
<1>6. \A i \in R : d[i] \in {-1, 0, 1}
  <2>1. e.inv \in [R -> [R -> -2 .. 2]]
    <3>1. e.inv \in [R -> [R -> {-1, 0, 1}]]  BY DEF BasisInv
    <3>2. \A i, k \in R : e.inv[i][k] \in -2 .. 2  BY <3>1
    <3> QED BY <3>1, <3>2
  <2>2. e.basis \in [R -> C]  BY DEF BasisInv
  <2>3. \A i \in R, k \in C : Prod(e.inv[i], Column(e, k), R) \in {-1, 0, 1}
    BY <1>3, <2>1, <2>2, TableauIsUnit
  <2> QED BY <1>2, <1>5, <2>3
<1>7. d[p] \in {-1, 1}  BY <1>0, <1>6
<1>8. /\ l \in C /\ l \in Basic(e) /\ e.status[l] = "BASIC" /\ q # l
  <2>1. l \in C /\ l \in Basic(e)  BY <1>0, BasisMatrixFacts
  <2> QED BY <1>2, <2>1 DEF BasisInv
<1>9. /\ e.basis \in [R -> C] /\ e.status \in [C -> {"BASIC", "NBL", "NBU", "REMOVED"}]
      /\ e.inv \in [R -> [R -> {-1, 0, 1}]]
      /\ \A i, t \in R : e.basis[i] = e.basis[t] => i = t
      /\ \A k \in C : e.status[k] = "BASIC" <=> k \in Basic(e)
      /\ \A k \in C : e.status[k] = "REMOVED" => k[1] = "a"
  BY DEF BasisInv
<1>10. /\ r.basis \in [R -> C]
       /\ \A t \in R : r.basis[t] = IF t = p THEN q ELSE e.basis[t]
  BY <1>0, <1>2, <1>9
<1>11. /\ r.status \in [C -> {"BASIC", "NBL", "NBU", "REMOVED"}]
       /\ \A k \in C : r.status[k] = IF k = q THEN "BASIC" ELSE IF k = l THEN at ELSE e.status[k]
  <2> DEFINE S == {"BASIC", "NBL", "NBU", "REMOVED"}
             st == [e.status EXCEPT ![l] = at]
  <2>1. at \in S  BY <1>0
  <2>2. st \in [C -> S] /\ \A k \in C : st[k] = IF k = l THEN at ELSE e.status[k]
    BY <1>8, <1>9, <2>1
  <2>3. r.status = [st EXCEPT ![q] = "BASIC"]  BY <1>0
  <2> HIDE DEF st, C, l
  <2>4. r.status \in [C -> S] /\ \A k \in C : r.status[k] = IF k = q THEN "BASIC" ELSE st[k]
    BY <1>2, <2>2, <2>3
  <2> QED BY <2>2, <2>4
<1>12. \A i, t \in R : r.basis[i] = r.basis[t] => i = t
  <2>1. \A i \in R : e.basis[i] # q  BY <1>2 DEF Basic
  <2> QED BY <1>9, <1>10, <2>1
<1>13. \A k \in C : r.status[k] = "BASIC" <=> k \in Basic(r)
  <2> SUFFICES ASSUME NEW k \in C PROVE r.status[k] = "BASIC" <=> k \in Basic(r)  OBVIOUS
  <2>1. CASE k = q
    <3>1. k \in Basic(r)  BY <1>0, <1>1, <1>10, <2>1 DEF Basic
    <3> QED BY <1>11, <2>1, <3>1
  <2>2. CASE k = l
    <3>1. k \notin Basic(r)
      <4> SUFFICES ASSUME NEW t \in R, r.basis[t] = l PROVE FALSE  BY <1>1, <2>2 DEF Basic
      <4>1. t # p  BY <1>8, <1>10
      <4> QED BY <1>0, <1>9, <1>10, <4>1
    <3> QED BY <1>0, <1>8, <1>11, <2>2, <3>1
  <2>3. CASE k # q /\ k # l
    <3>1. k \in Basic(e) => k \in Basic(r)
      <4> SUFFICES ASSUME NEW t \in R, e.basis[t] = k PROVE k \in Basic(r)  BY DEF Basic
      <4>1. t # p  BY <2>3
      <4> QED BY <1>1, <1>10, <4>1 DEF Basic
    <3>2. k \in Basic(r) => k \in Basic(e)
      <4> SUFFICES ASSUME NEW t \in R, r.basis[t] = k PROVE k \in Basic(e)  BY <1>1 DEF Basic
      <4>1. t # p  BY <1>10, <2>3
      <4> QED BY <1>10, <4>1 DEF Basic
    <3> QED BY <1>9, <1>11, <2>3, <3>1, <3>2
  <2> QED BY <2>1, <2>2, <2>3
<1>14. \A k \in C : r.status[k] = "REMOVED" <=> e.status[k] = "REMOVED"
  BY <1>0, <1>2, <1>8, <1>11
<1>15. BasisMatrix(r) = [t \in R |-> IF t = p THEN a ELSE BasisMatrix(e)[t]]
  <2>1. BasisMatrix(r) = [t \in R |-> Column(e, r.basis[t])]  BY <1>1 DEF BasisMatrix
  <2>2. \A t \in R : BasisMatrix(e)[t] = Column(e, e.basis[t])  BY DEF BasisMatrix
  <2> QED BY <1>10, <2>1, <2>2
<1>16. r.inv = Pivoted(e.inv, d, p, R)  BY <1>0 DEF Eta, Pivoted
<1>17. /\ IsLeftInverse(r.inv, BasisMatrix(r), R) /\ IsRightInverse(r.inv, BasisMatrix(r), R)
  <2> DEFINE G == e.inv
             B == BasisMatrix(e)
             D == BasisMatrix(r)
  <2>1. D = [t \in R |-> IF t = p THEN a ELSE B[t]]  BY <1>15
  <2> HIDE DEF G, B, D, R, a
  <2>2. p \in R  BY <1>0
  <2>3. IsLeftInverse(Pivoted(G, d, p, R), D, R)
    BY <1>3, <1>4, <1>5, <1>7, <2>1, <2>2, PivotKeepsLeft DEF G, B
  <2>4. IsRightInverse(Pivoted(G, d, p, R), D, R)
    BY <1>3, <1>4, <1>5, <1>7, <2>1, <2>2, PivotKeepsRight DEF G, B
  <2> QED BY <1>16, <2>3, <2>4 DEF G, D
<1>18. r.inv \in [R -> [R -> -2 .. 2]]
  <2> SUFFICES ASSUME NEW i \in R, NEW t \in R
               PROVE (IF i = p THEN d[p] * e.inv[p][t] ELSE e.inv[i][t] - d[i] * d[p] * e.inv[p][t])
                       \in -2 .. 2
    BY <1>0 DEF Eta
  <2>1. d[p] \in {-1, 1} /\ d[i] \in {-1, 0, 1} /\ e.inv[p][t] \in {-1, 0, 1} /\ e.inv[i][t] \in {-1, 0, 1}
    BY <1>0, <1>6, <1>7, <1>9
  <2> QED BY <2>1
<1>19. r.inv \in [R -> [R -> {-1, 0, 1}]]
  BY <1>1, <1>10, <1>17, <1>18, TableauIsUnit
<1>20. \A k \in C : r.status[k] = "REMOVED" => k[1] = "a"  BY <1>9, <1>14
<1>21. BasisInv(r)
  BY <1>1, <1>10, <1>11, <1>12, <1>13, <1>17, <1>19, <1>20 DEF BasisInv
<1> QED BY <1>6, <1>7, <1>8, <1>11, <1>14, <1>21

(* The direction a column that enters gives the basic ones.                *)
IsRay(e, q, g, w) ==
  /\ w[q] = g
  /\ \A t \in Rows(e) : w[e.basis[t]] = -g * Ftran(e, Column(e, q))[t]
  /\ \A k \in Columns(e) : k # q /\ k \notin Basic(e) => w[k] = 0

(* The entries of a tableau are products with the factors.                 *)
LEMMA TableauInt ==
  ASSUME NEW e, FormInv(e), BasisInv(e), NEW q \in Columns(e), NEW t \in Rows(e)
  PROVE  /\ Ftran(e, Column(e, q))[t] = Prod(e.inv[t], Column(e, q), Rows(e))
         /\ Ftran(e, Column(e, q))[t] \in Int
<1> DEFINE R == Rows(e)
           a == Column(e, q)
<1>1. Ftran(e, a) = [i \in R |-> Prod(e.inv[i], a, R)]  BY ModelProducts
<1>2. IsFiniteSet(R) /\ Ints(a, R) /\ Ints(e.inv[t], R)
  BY FormIsFinite, ColumnInts, BasisMatrixFacts DEF Matrix
<1> HIDE DEF a
<1>3. Ftran(e, a)[t] = Prod(e.inv[t], a, R)  BY <1>1
<1>4. Prod(e.inv[t], a, R) \in Int
  <2> HIDE DEF R
  <2> QED BY <1>2, ProdInt
<1> QED BY <1>3, <1>4 DEF a

(* Rows do not change along it.                                            *)
LEMMA RayIsFlat ==
  ASSUME NEW e, FormInv(e), BasisInv(e), NEW q \in Columns(e) \ Basic(e), NEW g \in Int,
         NEW w, IsRay(e, q, g, w)
  PROVE  /\ \A k \in Columns(e) : w[k] \in Int
         /\ \A i \in Rows(e) : RowSum(e, w, i) = 0
<1> DEFINE R == Rows(e)
           C == Columns(e)
           d == Ftran(e, Column(e, q))
           N == C \ Basic(e)
<1>1. \A t \in R : d[t] \in Int /\ d[t] = Prod(e.inv[t], Column(e, q), R)  BY TableauInt
<1>2. \A t \in R : w[e.basis[t]] = -g * d[t] /\ w[e.basis[t]] \in Int
  <2>1. \A t \in R : w[e.basis[t]] = -g * d[t]  BY DEF IsRay
  <2> HIDE DEF d
  <2> QED BY <1>1, <2>1
<1>3. \A k \in C : w[k] \in Int
  <2> SUFFICES ASSUME NEW k \in C PROVE w[k] \in Int  OBVIOUS
  <2>1. CASE k \in Basic(e)
    <3> PICK t \in R : k = e.basis[t]  BY <2>1 DEF Basic
    <3> QED BY <1>2
  <2>2. CASE k \notin Basic(e)  BY <2>2 DEF IsRay
  <2> QED BY <2>1, <2>2
<1>4. ASSUME NEW i \in R PROVE RowSum(e, w, i) = 0
  <2> DEFINE row == [t \in R |-> BasisMatrix(e)[t][i]]
             v == [t \in R |-> w[e.basis[t]]]
             f == [k \in C |-> A(e, k, i) * w[k]]
             nd == [t \in R |-> -g * d[t]]
             a == Column(e, q)
  <2>1. RowSum(e, w, i) = Prod(row, v, R) + Total(f, N)  BY <1>3, RowOfBasis
  <2>2. Total(f, N) = A(e, q, i) * g
    <3>1. IsFiniteSet(N) /\ q \in N  BY SplitByBasis, ColumnsFinite, FS_Subset
    <3>2. f[q] = A(e, q, i) * g /\ f[q] \in Int
      <4>1. f[q] = A(e, q, i) * w[q] /\ w[q] = g  BY DEF IsRay
      <4> QED BY <4>1, CoefficientInt
    <3>3. \A k \in N \ {q} : f[k] = 0
      <4> SUFFICES ASSUME NEW k \in N \ {q} PROVE A(e, k, i) * w[k] = 0  OBVIOUS
      <4>1. w[k] = 0 /\ A(e, k, i) \in Int  BY CoefficientInt DEF IsRay
      <4> QED BY <4>1
    <3> HIDE DEF N, f
    <3> QED BY <3>1, <3>2, <3>3, TotalOfOne
  <2>3. Prod(row, v, R) = -g * A(e, q, i)
    <3>1. IsFiniteSet(R) /\ Matrix(BasisMatrix(e), R) /\ Matrix(e.inv, R)
          /\ IsRightInverse(e.inv, BasisMatrix(e), R) /\ Ints(a, R)
      BY FormIsFinite, BasisMatrixFacts, ColumnInts DEF BasisInv
    <3>2. Prod(row, d, R) = a[i]
      <4>1. \A t \in R : row[t] = BasisMatrix(e)[t][i]  OBVIOUS
      <4>2. \A t \in R : d[t] = Prod(e.inv[t], a, R)  BY <1>1
      <4> HIDE DEF row, a, d, R
      <4> QED BY <1>4, <3>1, <4>1, <4>2, SolvesSystem
    <3>3. Ints(row, R) /\ Ints(d, R)
      <4>1. \A t \in R : row[t] \in Int  BY <3>1 DEF Matrix, Ints
      <4> HIDE DEF row, d
      <4> QED BY <1>1, <4>1 DEF Ints
    <3>4. Prod(row, v, R) = Prod(v, row, R)
      <4>1. Ints(v, R)
        <5> HIDE DEF d
        <5> QED BY <1>2 DEF Ints
      <4> HIDE DEF row, v, R
      <4> QED BY <3>1, <3>3, <4>1, ProdSwaps
    <3>5. Prod(v, row, R) = (-g) * Prod(d, row, R)
      <4> DEFINE m == -g
      <4>1. \A t \in R : v[t] = m * d[t]
        <5> SUFFICES ASSUME NEW t \in R PROVE v[t] = m * d[t]  OBVIOUS
        <5>1. v[t] = -g * d[t] /\ d[t] \in Int  BY <1>1, <1>2
        <5> HIDE DEF v, d
        <5> QED BY <5>1
      <4>2. m \in Int  OBVIOUS
      <4> HIDE DEF row, v, d, R, m
      <4>3. Prod(v, row, R) = m * Prod(d, row, R)  BY <3>1, <3>3, <4>1, <4>2, ProdScales
      <4> QED BY <4>3 DEF m
    <3>6. Prod(d, row, R) = Prod(row, d, R)
      <4> HIDE DEF row, d, R
      <4> QED BY <3>1, <3>3, ProdSwaps
    <3>7. a[i] = A(e, q, i)  BY DEF Column
    <3>8. A(e, q, i) \in Int  BY CoefficientInt
    <3> HIDE DEF row, v, d, a
    <3> QED BY <3>2, <3>4, <3>5, <3>6, <3>7, <3>8
  <2>4. A(e, q, i) \in Int  BY CoefficientInt
  <2> HIDE DEF row, v, f, N
  <2>5. -g * A(e, q, i) + A(e, q, i) * g = 0  BY <2>4
  <2> QED BY <2>1, <2>2, <2>3, <2>5
<1> QED BY <1>3, <1>4

(* A finite set of integers that has a member has a least and a greatest   *)
(* one (cp_dmin and cp_dmax answer with values of the domain).             *)
LEMMA ExtremesAre ==
  ASSUME NEW S, IsFiniteSet(S), S \subseteq Int, S # {}
  PROVE  /\ Min(S) \in S /\ \A x \in S : Min(S) <= x
         /\ Max(S) \in S /\ \A x \in S : x <= Max(S)
<1> DEFINE HasMin(T) == \E x \in T : \A y \in T : x =< y
           HasMax(T) == \E x \in T : \A y \in T : x >= y
           G == {T \in SUBSET S : T # {} => HasMin(T) /\ HasMax(T)}
<1>1. {} \in G
  OBVIOUS
<1>2. ASSUME NEW T \in SUBSET S, NEW x \in S \ T, T \in G PROVE T \cup {x} \in G
  <2>1. CASE T = {}
    BY <2>1
  <2>2. CASE T # {}
    <3>1. PICK a \in T : \A y \in T : a =< y
      BY <1>2, <2>2
    <3>2. PICK b \in T : \A y \in T : b >= y
      BY <1>2, <2>2
    <3>3. HasMin(T \cup {x})
      <4>1. CASE a =< x
        BY <4>1, <3>1
      <4>2. CASE ~(a =< x)
        <5>1. \A y \in T \cup {x} : x =< y
          BY <4>2, <3>1
        <5> QED BY <5>1
      <4> QED BY <4>1, <4>2
    <3>4. HasMax(T \cup {x})
      <4>1. CASE b >= x
        BY <4>1, <3>2
      <4>2. CASE ~(b >= x)
        <5>1. \A y \in T \cup {x} : x >= y
          BY <4>2, <3>2
        <5> QED BY <5>1
      <4> QED BY <4>1, <4>2
    <3> QED BY <3>3, <3>4
  <2> QED BY <2>1, <2>2
<1>3. S \in G
  <2> HIDE DEF G
  <2> QED BY <1>1, <1>2, SetInduction
<1>4. HasMin(S) /\ HasMax(S)
  BY <1>3
<1> QED BY <1>4 DEF Min, Max


(* The two cost vectors depend on program, splits and signs of artificials *)
(* only.                                                                   *)
LEMMA SameProgram ==
  ASSUME NEW e, NEW f, f.lp = e.lp, f.split = e.split, f.artSign = e.artSign
  PROVE  TrueCost(f) = TrueCost(e) /\ PhaseOneCost(f) = PhaseOneCost(e)
<1>1. Columns(f) = Columns(e)  BY SameShape
<1>2. TrueCost(f) = TrueCost(e)  BY <1>1 DEF TrueCost
<1>3. PhaseOneCost(f) = PhaseOneCost(e)  BY <1>1 DEF PhaseOneCost
<1> QED BY <1>2, <1>3

(* A parked value at a bound of a caller's column is small.                *)
LEMMA ParkedSmall ==
  ASSUME NEW e, BoxInv(e), AtBounds(e)
  PROVE  \A k \in Parked(e) : IF Own(e, k) THEN Small(e.x[k]) ELSE e.x[k] = 0
<1> SUFFICES ASSUME NEW k \in Parked(e)
             PROVE  IF Own(e, k) THEN Small(e.x[k]) ELSE e.x[k] = 0
  OBVIOUS
<1>1. LP_INF \in Int /\ LP_INF > 0  BY SimplexAssumption
<1>2. k \in Columns(e) /\ e.l[k] \in Int /\ e.u[k] \in Int  BY DEF Parked, BoxInv
<1>3. IF e.status[k] = "NBL" THEN e.x[k] = e.l[k] /\ e.l[k] > -LP_INF
                             ELSE e.x[k] = e.u[k] /\ e.u[k] < LP_INF
  BY DEF AtBounds
<1>4. IF Own(e, k)
      THEN /\ e.l[k] <= -LP_INF \/ Small(e.l[k])
           /\ e.u[k] >= LP_INF \/ Small(e.u[k])
      ELSE e.l[k] = 0 /\ (e.u[k] = LP_INF \/ (k[1] = "a" /\ e.u[k] = 0))
  BY <1>2 DEF BoxInv
<1>5. CASE e.status[k] = "NBL"  BY <1>1, <1>2, <1>3, <1>4, <1>5
<1>6. CASE e.status[k] # "NBL"  BY <1>1, <1>2, <1>3, <1>4, <1>6
<1> QED BY <1>5, <1>6

(* What an iteration may change.                                           *)
Moving == {"x", "iters", "status", "basis", "inv", "local"}

(* What a pivot does not touch.                                            *)
LEMMA MovingKeeps ==
  ASSUME NEW e, NEW r, Keeps(r, e, Moving)
  PROVE  /\ r.lp = e.lp /\ r.split = e.split /\ r.artSign = e.artSign /\ r.l = e.l /\ r.u = e.u
         /\ r.rebuild_pending = e.rebuild_pending /\ r.c0 = e.c0 /\ r.cobj = e.cobj
         /\ r.farkas_ok = e.farkas_ok /\ r.dfarkas_ok = e.dfarkas_ok /\ r.unb_ray = e.unb_ray
         /\ r.lane = e.lane
BY DEF Keeps, Moving, Fields

(* A change of values, statuses and basis alone keeps the invariant if     *)
(* basis and rows are kept.                                                *)
LEMMA KeptInv ==
  ASSUME NEW e, NEW r, StructInv(e), RunningInv(e), IsStruct(r), Keeps(r, e, Moving), BasisInv(r),
         r.x \in [Columns(e) -> Int], Stands(r),
         \A k \in Columns(e) : r.status[k] = "REMOVED" <=> e.status[k] = "REMOVED"
  PROVE  StructInv(r) /\ RunningInv(r)
<1>1. /\ r.lp = e.lp /\ r.split = e.split /\ r.artSign = e.artSign /\ r.l = e.l /\ r.u = e.u
      /\ r.rebuild_pending = e.rebuild_pending /\ r.c0 = e.c0 /\ r.cobj = e.cobj
      /\ r.farkas_ok = e.farkas_ok /\ r.dfarkas_ok = e.dfarkas_ok /\ r.unb_ray = e.unb_ray
      /\ r.lane = e.lane
  BY MovingKeeps
<1>2. /\ Rows(r) = Rows(e) /\ Columns(r) = Columns(e) /\ Artificials(r) = Artificials(e)
      /\ TrueCost(r) = TrueCost(e) /\ PhaseOneCost(r) = PhaseOneCost(e)
  BY <1>1, SameShape, SameProgram
<1>3. FormInv(e) /\ BoxInv(e) /\ CostInv(e)  BY DEF StructInv
<1>4. FormInv(r)  BY <1>1, <1>2, <1>3 DEF FormInv
<1>5. \A k : Own(r, k) <=> Own(e, k)  BY <1>1 DEF Own
<1>6. BoxInv(r)  BY <1>1, <1>2, <1>3, <1>5 DEF BoxInv
<1>7. CostInv(r)  BY <1>1, <1>2, <1>3 DEF CostInv
<1>8. ValuesInv(r)  BY <1>2, <1>6, ParkedSmall DEF ValuesInv, Stands
<1>9. StructInv(r)  BY <1>4, <1>6, <1>7, <1>8 DEF StructInv
<1>10. ~EmptyBox(r)  BY <1>1, <1>2 DEF RunningInv, EmptyBox
<1>11. Harmless(e) => Harmless(r)
  <2>1. Artificials(e) \subseteq Columns(e)  BY DEF Columns
  <2> QED BY <1>1, <1>2, <2>1 DEF Harmless
<1>12. RunningInv(r)  BY <1>1, <1>2, <1>10, <1>11 DEF RunningInv
<1> QED BY <1>9, <1>12

(* No row changes along w.                                                 *)
Flat(e, w) == \A i \in Rows(e) : RowSum(e, w, i) = 0

(* Along a direction on which the rows are zero they keep holding.         *)
LEMMA RowsAlongRay ==
  ASSUME NEW e, FormInv(e), e.x \in [Columns(e) -> Int], RowsHold(e),
         NEW w, \A k \in Columns(e) : w[k] \in Int, Flat(e, w),
         \A k \in Columns(e) : e.status[k] = "REMOVED" => w[k] = 0, NEW th \in Int,
         NEW r, r.lp = e.lp, r.split = e.split, r.artSign = e.artSign,
         \A k \in Columns(e) : r.status[k] = "REMOVED" <=> e.status[k] = "REMOVED",
         \A k \in Columns(e) : r.x[k] = e.x[k] + th * w[k]
  PROVE  RowsHold(r)
<1>1. /\ Rows(r) = Rows(e) /\ Columns(r) = Columns(e)
      /\ \A y, i : RowSum(r, y, i) = RowSum(e, y, i)
  BY SameShape
<1> SUFFICES ASSUME NEW i \in Rows(e)
             PROVE RowSum(e, Present(r), i) = Abs(e.lp.rows[i].b)
  BY <1>1 DEF RowsHold
<1> DEFINE C == Columns(e)
           f == [k \in C |-> A(e, k, i) * Present(e)[k]]
           g == [k \in C |-> A(e, k, i) * w[k]]
           m == [k \in C |-> th * g[k]]
           h == [k \in C |-> A(e, k, i) * Present(r)[k]]
<1>2. IsFiniteSet(C)  BY ColumnsFinite
<1>3. \A k \in C : A(e, k, i) \in Int  BY CoefficientInt
<1>4. \A k \in C : Present(e)[k] \in Int
                   /\ Present(r)[k] = Present(e)[k] + th * w[k]
  <2> SUFFICES ASSUME NEW k \in C
               PROVE  /\ Present(e)[k] \in Int
                      /\ Present(r)[k] = Present(e)[k] + th * w[k]
    OBVIOUS
  <2>1. /\ Present(e)[k] = IF e.status[k] = "REMOVED" THEN 0 ELSE e.x[k]
        /\ Present(r)[k] = IF r.status[k] = "REMOVED" THEN 0 ELSE r.x[k]
    BY <1>1 DEF Present
  <2>2. e.x[k] \in Int /\ w[k] \in Int  OBVIOUS
  <2>3. CASE e.status[k] = "REMOVED"  BY <2>1, <2>2, <2>3
  <2>4. CASE e.status[k] # "REMOVED"  BY <2>1, <2>2, <2>4
  <2> QED BY <2>3, <2>4
<1>5. \A k \in C : f[k] \in Int /\ g[k] \in Int /\ m[k] \in Int /\ h[k] = f[k] + m[k]
  <2> SUFFICES ASSUME NEW k \in C
               PROVE f[k] \in Int /\ g[k] \in Int /\ m[k] \in Int /\ h[k] = f[k] + m[k]
    OBVIOUS
  <2> DEFINE a == A(e, k, i)
             x == Present(e)[k]
             y == Present(r)[k]
  <2>1. a \in Int /\ x \in Int /\ w[k] \in Int /\ y = x + th * w[k]  BY <1>3, <1>4
  <2>2. f[k] = a * x /\ g[k] = a * w[k] /\ m[k] = th * (a * w[k]) /\ h[k] = a * y  OBVIOUS
  <2> HIDE DEF a, x, y, f, g, m, h
  <2>3. \A aa, xx, ww \in Int : aa * (xx + th * ww) = aa * xx + th * (aa * ww)  OBVIOUS
  <2>4. a * y = a * x + th * (a * w[k])  BY <2>1, <2>3
  <2> QED BY <2>1, <2>2, <2>4
<1>6. Total(m, C) = th * Total(g, C)
  <2>1. \A k \in C : g[k] \in Int /\ m[k] = th * g[k]  BY <1>5
  <2> HIDE DEF m, g, C
  <2> QED BY <1>2, <2>1, TotalScales
<1>7. Total(h, C) = Total(f, C) + Total(m, C)
  <2> HIDE DEF m, f, h, C
  <2> QED BY <1>2, <1>5, TotalAdds
<1>8. Total(g, C) = 0  BY DEF RowSum, Flat
<1>9. Total(f, C) = Abs(e.lp.rows[i].b)  BY DEF RowSum, RowsHold
<1>10. Abs(e.lp.rows[i].b) \in Int  BY FormIsFinite DEF Abs
<1>11. Total(h, C) = Abs(e.lp.rows[i].b)
  <2> HIDE DEF h, f, g, m, C
  <2> QED BY <1>6, <1>7, <1>8, <1>9, <1>10
<1> QED BY <1>11 DEF RowSum

(* The direction in which column q enters, and what it does to the basis.  *)
Dir(e, q) == IF e.status[q] = "NBL" THEN 1 ELSE -1

(* Column q in its direction, and what keeps the rows at zero.             *)
Ray(e, q) ==
  [k \in Columns(e) |->
     IF k = q THEN Dir(e, q)
     ELSE IF k \in Basic(e)
     THEN -Dir(e, q) * Ftran(e, Column(e, q))[CHOOSE i \in Rows(e) : e.basis[i] = k]
     ELSE 0]

(* The direction of an entering column is one.                             *)
LEMMA RayIs ==
  ASSUME NEW e, FormInv(e), BasisInv(e), NEW q \in Columns(e) \ Basic(e)
  PROVE  /\ IsRay(e, q, Dir(e, q), Ray(e, q)) /\ Dir(e, q) \in {-1, 1}
         /\ \A k \in Columns(e) : Ray(e, q)[k] \in Int
         /\ Flat(e, Ray(e, q))
<1>1. Dir(e, q) \in {-1, 1}  BY DEF Dir
<1>2. Ray(e, q)[q] = Dir(e, q)  BY DEF Ray
<1>3. ASSUME NEW t \in Rows(e)
      PROVE  Ray(e, q)[e.basis[t]] = -Dir(e, q) * Ftran(e, Column(e, q))[t]
  <2>1. e.basis[t] \in Columns(e) /\ e.basis[t] \in Basic(e)  BY BasisMatrixFacts
  <2>2. (CHOOSE i \in Rows(e) : e.basis[i] = e.basis[t]) = t  BY SlotOf
  <2> QED BY <2>1, <2>2 DEF Ray
<1>4. \A k \in Columns(e) : k # q /\ k \notin Basic(e) => Ray(e, q)[k] = 0  BY DEF Ray
<1>5. IsRay(e, q, Dir(e, q), Ray(e, q))  BY <1>2, <1>3, <1>4 DEF IsRay
<1>6. Dir(e, q) \in Int  BY <1>1
<1>7. /\ \A k \in Columns(e) : Ray(e, q)[k] \in Int
      /\ \A i \in Rows(e) : RowSum(e, Ray(e, q), i) = 0
  <2> DEFINE g == Dir(e, q)
             w == Ray(e, q)
  <2>1. IsRay(e, q, g, w) /\ g \in Int  BY <1>5, <1>6
  <2> HIDE DEF g, w
  <2>2. /\ \A k \in Columns(e) : w[k] \in Int
        /\ \A i \in Rows(e) : RowSum(e, w, i) = 0
    BY <2>1, RayIsFlat
  <2> QED BY <2>2 DEF w
<1> QED BY <1>1, <1>5, <1>7 DEF Flat

(* Nothing stops column q.                                                 *)
Unblocked(e, q) ==
  /\ \A t \in Rows(e) : /\ Ray(e, q)[e.basis[t]] > 0 => e.u[e.basis[t]] >= LP_INF
                        /\ Ray(e, q)[e.basis[t]] < 0 => e.l[e.basis[t]] <= -LP_INF
  /\ ~(e.l[q] > -LP_INF /\ e.u[q] < LP_INF)

(* r is e a step of length th along the ray of q.                          *)
Advanced(e, q, r, th) ==
  /\ th \in Int /\ IsStruct(r) /\ Keeps(r, e, Moving)
  /\ r.x \in [Columns(e) -> Int]
  /\ \A k \in Columns(e) : r.x[k] = e.x[k] + th * Ray(e, q)[k]

(* q goes to its other bound.                                              *)
Flipped(e, q, r, th) ==
  /\ Advanced(e, q, r, th) /\ r.basis = e.basis /\ r.inv = e.inv
  /\ r.status = [e.status EXCEPT ![q] = IF Dir(e, q) > 0 THEN "NBU" ELSE "NBL"]
  /\ e.l[q] > -LP_INF /\ e.u[q] < LP_INF /\ th = e.u[q] - e.l[q]

(* q takes slot p, whose column goes to the bound at.                      *)
Exchanged(e, q, r, th, p, at) ==
  Advanced(e, q, r, th) /\ Swapped(e, q, r, p, at)

(* The outcomes of primal_step for an entering column: no limit, a bound   *)
(* flip, or an exchange with a basic column that reaches one of its        *)
(* bounds.                                                                 *)
LEMMA MoveIs ==
  ASSUME NEW e, IsStruct(e), FormInv(e), BasisInv(e), BoxInv(e), e.x \in [Columns(e) -> Int],
         AtBounds(e), NEW q \in Parked(e), NEW o, o = Move(e, q)
  PROVE  \/ /\ o[1] = 2 /\ IsStruct(o[2]) /\ Keeps(o[2], e, {"unb_ray"})
            /\ o[2].unb_ray = Ray(e, q) /\ Unblocked(e, q)
         \/ o[1] = 1 /\ \E th \in Int : Flipped(e, q, o[2], th)
         \/ o[1] = 1 /\ \E th \in Int, p \in Rows(e) :
              \/ /\ Exchanged(e, q, o[2], th, p, "NBU") /\ Ray(e, q)[e.basis[p]] > 0
                 /\ e.u[e.basis[p]] < LP_INF /\ th = e.u[e.basis[p]] - e.x[e.basis[p]]
              \/ /\ Exchanged(e, q, o[2], th, p, "NBL") /\ Ray(e, q)[e.basis[p]] < 0
                 /\ e.l[e.basis[p]] > -LP_INF /\ th = e.x[e.basis[p]] - e.l[e.basis[p]]
<1> DEFINE R == Rows(e)
           C == Columns(e)
           dir == IF e.status[q] = "NBL" THEN 1 ELSE -1
           d == Ftran(e, Column(e, q))
           v == [i \in Rows(e) |-> -dir * d[i]]
           blocks(i) == LET k == e.basis[i] IN \/ v[i] > 0 /\ e.u[k] < LP_INF
                                               \/ v[i] < 0 /\ e.l[k] > -LP_INF
           room(i) == LET k == e.basis[i]
                      IN  IF v[i] > 0 THEN e.u[k] - e.x[k] ELSE e.x[k] - e.l[k]
           slots == {i \in Rows(e) : blocks(i)}
           least == Min({room(i) : i \in slots})
           own == e.u[q] - e.l[q]
           flips == /\ e.l[q] > -LP_INF /\ e.u[q] < LP_INF
                    /\ slots = {} \/ own <= least
           theta == IF flips THEN own ELSE least
           p == Min({i \in slots : room(i) = least})
           X == [k \in Columns(e) |->
                   IF k = q THEN (IF dir > 0 THEN e.l[q] + theta ELSE e.u[q] - theta)
                   ELSE IF k \in Basic(e)
                   THEN e.x[k] + theta * v[CHOOSE i \in Rows(e) : e.basis[i] = k]
                   ELSE e.x[k]]
           moved == [e EXCEPT !.x = X, !.iters = @ + 1]
           w == [k \in Columns(e) |->
                   IF k = q THEN dir
                   ELSE IF k \in Basic(e) THEN v[CHOOSE i \in Rows(e) : e.basis[i] = k]
                   ELSE 0]
<1>1. o = IF slots = {} /\ ~flips THEN <<2, [e EXCEPT !.unb_ray = w]>>
          ELSE IF flips THEN <<1, [moved EXCEPT !.status[q] = IF dir > 0 THEN "NBU" ELSE "NBL"]>>
          ELSE <<1, Exchange(moved, q, d, p, IF v[p] > 0 THEN "NBU" ELSE "NBL")>>
  BY Zenon DEF Move
<1>2. /\ q \in C /\ q \in C \ Basic(e) /\ e.status[q] \in {"NBL", "NBU"}
      /\ dir = Dir(e, q) /\ dir \in {-1, 1}
  BY DEF Parked, BasisInv, Dir
<1>3. /\ e.x \in [C -> Int] /\ e.l \in [C -> Int] /\ e.u \in [C -> Int] /\ LP_INF \in Int
      /\ IsFiniteSet(R) /\ R = 1 .. Len(e.lp.rows) /\ \A i \in R : e.basis[i] \in C
  BY FormIsFinite, BasisMatrixFacts, SimplexAssumption DEF BoxInv
<1>4. \A i \in R : d[i] \in Int /\ v[i] \in Int
  <2>1. \A i \in R : d[i] \in Int  BY <1>2, TableauInt
  <2> HIDE DEF d, dir
  <2> QED BY <1>2, <2>1
<1>5. w = Ray(e, q)
  <2>1. ASSUME NEW k \in C PROVE w[k] = Ray(e, q)[k]
    <3>1. CASE k \in Basic(e)
      <4> PICK t \in R : k = e.basis[t]  BY <3>1 DEF Basic
      <4>1. (CHOOSE i \in Rows(e) : e.basis[i] = k) = t  BY SlotOf
      <4> QED BY <1>2, <4>1 DEF Ray
    <3>2. CASE k \notin Basic(e)  BY <1>2, <3>2 DEF Ray
    <3> QED BY <3>1, <3>2
  <2> QED BY <2>1 DEF Ray
<1>6. \A t \in R : Ray(e, q)[e.basis[t]] = v[t]
  <2> SUFFICES ASSUME NEW t \in R PROVE Ray(e, q)[e.basis[t]] = v[t]  OBVIOUS
  <2>1. e.basis[t] \in C /\ e.basis[t] \in Basic(e) /\ e.basis[t] # q  BY <1>2, BasisMatrixFacts
  <2>2. (CHOOSE i \in Rows(e) : e.basis[i] = e.basis[t]) = t  BY SlotOf
  <2>3. w[e.basis[t]] = v[t]
    <3> HIDE DEF v
    <3> QED BY <2>1, <2>2
  <2> QED BY <1>5, <2>3
<1>7. \A k \in C : Ray(e, q)[k] \in Int  BY <1>2, RayIs
<1>8. e.x[q] = IF dir > 0 THEN e.l[q] ELSE e.u[q]
  <2>1. dir > 0 <=> e.status[q] = "NBL"  OBVIOUS
  <2> QED BY <1>2, <2>1 DEF AtBounds
<1>9. CASE slots = {} /\ ~flips
  <2>1. o = <<2, [e EXCEPT !.unb_ray = w]>>  BY <1>1, <1>9, Zenon
  <2>2. o[1] = 2 /\ o[2] = [e EXCEPT !.unb_ray = w]  BY <2>1
  <2>3. IsStruct(o[2]) /\ Keeps(o[2], e, {"unb_ray"}) /\ o[2].unb_ray = Ray(e, q)
    <3> HIDE DEF w
    <3> QED BY <1>5, <2>2 DEF IsStruct, Fields, Keeps
  <2>4. \A t \in R : ~blocks(t)  BY <1>9
  <2>5. ~(e.l[q] > -LP_INF /\ e.u[q] < LP_INF)  BY <1>9
  <2>6. Unblocked(e, q)
    <3> SUFFICES ASSUME NEW t \in R
                 PROVE  /\ Ray(e, q)[e.basis[t]] > 0 => e.u[e.basis[t]] >= LP_INF
                        /\ Ray(e, q)[e.basis[t]] < 0 => e.l[e.basis[t]] <= -LP_INF
      BY <2>5 DEF Unblocked
    <3>1. ~(v[t] > 0 /\ e.u[e.basis[t]] < LP_INF) /\ ~(v[t] < 0 /\ e.l[e.basis[t]] > -LP_INF)
      BY <2>4
    <3>2. /\ e.u[e.basis[t]] \in Int /\ e.l[e.basis[t]] \in Int /\ v[t] \in Int
          /\ Ray(e, q)[e.basis[t]] = v[t]
      BY <1>3, <1>4, <1>6
    <3> DEFINE ray == v[t]
               low == e.l[e.basis[t]]
               up == e.u[e.basis[t]]
    <3>3. LP_INF \in Int /\ ray \in Int /\ low \in Int /\ up \in Int  BY <1>3, <3>2
    <3>4. ~(ray > 0 /\ up < LP_INF) /\ ~(ray < 0 /\ low > -LP_INF)  BY <3>1
    <3> HIDE DEF v, ray, low, up
    <3>5. (ray > 0 => up >= LP_INF) /\ (ray < 0 => low <= -LP_INF)  BY <3>3, <3>4
    <3> QED BY <3>2, <3>5 DEF ray, low, up
  <2> QED BY <2>2, <2>3, <2>6, Zenon
<1>10. ASSUME theta \in Int
       PROVE  /\ \A k \in C : X[k] = e.x[k] + theta * Ray(e, q)[k]
              /\ X \in [C -> Int]
  <2>1. ASSUME NEW k \in C PROVE X[k] = e.x[k] + theta * Ray(e, q)[k] /\ X[k] \in Int
    <3>0. e.x[k] \in Int /\ Ray(e, q)[k] \in Int /\ theta * Ray(e, q)[k] \in Int
      <4>1. e.x[k] \in Int /\ Ray(e, q)[k] \in Int  BY <1>3, <1>7
      <4> HIDE DEF theta
      <4> QED BY <1>10, <4>1
    <3>1. CASE k = q
      <4>1. X[k] = IF dir > 0 THEN e.l[q] + theta ELSE e.u[q] - theta  BY <3>1
      <4>2. Ray(e, q)[k] = dir  BY <1>5, <3>1
      <4>3. e.l[q] \in Int /\ e.u[q] \in Int  BY <1>2, <1>3
      <4> HIDE DEF X, theta, dir
      <4>4. CASE dir = 1  BY <1>8, <1>10, <3>1, <4>1, <4>2, <4>3, <4>4
      <4>5. CASE dir = -1  BY <1>8, <1>10, <3>1, <4>1, <4>2, <4>3, <4>5
      <4> QED BY <1>2, <4>4, <4>5
    <3>2. CASE k # q /\ k \in Basic(e)
      <4>1. Ray(e, q)[k] = v[CHOOSE i \in Rows(e) : e.basis[i] = k]  BY <1>5, <3>2
      <4>2. X[k] = e.x[k] + theta * v[CHOOSE i \in Rows(e) : e.basis[i] = k]  BY <3>2
      <4> HIDE DEF X, theta, v
      <4> QED BY <3>0, <4>1, <4>2
    <3>3. CASE k # q /\ k \notin Basic(e)
      <4>1. Ray(e, q)[k] = 0  BY <1>5, <3>3
      <4>2. X[k] = e.x[k]  BY <3>3
      <4> HIDE DEF X, theta
      <4> QED BY <1>10, <3>0, <4>1, <4>2
    <3> QED BY <3>1, <3>2, <3>3, Zenon
  <2>2. X = [k \in C |-> X[k]]  OBVIOUS
  <2> HIDE DEF X
  <2> QED BY <2>1, <2>2
<1>11. CASE flips
  <2> DEFINE at == IF dir > 0 THEN "NBU" ELSE "NBL"
             r == [moved EXCEPT !.status[q] = at]
  <2>1. o = <<1, r>>  BY <1>1, <1>11, Zenon
  <2>2. o[1] = 1 /\ o[2] = r
    <3> HIDE DEF r
    <3> QED BY <2>1
  <2>3. theta = own /\ own \in Int
    <3>1. own \in Int  BY <1>2, <1>3
    <3>2. theta = own  BY <1>11
    <3> QED BY <3>1, <3>2, Zenon
  <2>4. /\ IsStruct(r) /\ Keeps(r, e, Moving) /\ r.x = X /\ r.basis = e.basis /\ r.inv = e.inv
        /\ r.status = [e.status EXCEPT ![q] = at]
    <3> HIDE DEF X, at
    <3> QED BY Zenon DEF IsStruct, Fields, Keeps, Moving
  <2>5. Advanced(e, q, r, own)
    <3> HIDE DEF r, X, theta, own
    <3> QED BY <1>10, <2>3, <2>4 DEF Advanced
  <2>6. at = IF Dir(e, q) > 0 THEN "NBU" ELSE "NBL"  BY <1>2
  <2>7. Flipped(e, q, r, own)
    <3>1. e.l[q] > -LP_INF /\ e.u[q] < LP_INF  BY <1>11
    <3> HIDE DEF r, at
    <3> QED BY <2>4, <2>5, <2>6, <3>1, Zenon DEF Flipped
  <2> HIDE DEF r, own
  <2> QED BY <2>2, <2>3, <2>7
<1>12. CASE slots # {} /\ ~flips
  <2> DEFINE at == IF v[p] > 0 THEN "NBU" ELSE "NBL"
             r == Exchange(moved, q, d, p, at)
             rooms == {room(i) : i \in slots}
             ties == {i \in slots : room(i) = least}
  <2>1. o[1] = 1 /\ o[2] = r
    <3>1. o = <<1, r>>  BY <1>1, <1>12, Zenon
    <3> HIDE DEF r
    <3> QED BY <3>1
  <2>2. theta = least  BY <1>12
  <2>3. \A i \in R : room(i) \in Int
    <3> SUFFICES ASSUME NEW i \in R PROVE room(i) \in Int  OBVIOUS
    <3>1. e.basis[i] \in C  BY <1>3
    <3>2. e.u[e.basis[i]] \in Int /\ e.x[e.basis[i]] \in Int /\ e.l[e.basis[i]] \in Int
      BY <1>3, <3>1
    <3> QED BY <3>2
  <2>4. slots \subseteq R  OBVIOUS
  <2>5. least \in rooms /\ least \in Int
    <3> DEFINE rm == [i \in slots |-> room(i)]
    <3>1. IsFiniteSet(slots)  BY <1>3, <2>4, FS_Subset
    <3>2. rooms = {rm[i] : i \in slots}  OBVIOUS
    <3> HIDE DEF slots, rm
    <3>3. IsFiniteSet({rm[i] : i \in slots})
      <4> DEFINE h == [i \in slots |-> rm[i]]
      <4>1. h \in Surjection(slots, {rm[i] : i \in slots})  BY DEF Surjection
      <4> QED BY <3>1, <4>1, FS_Surjection
    <3>4. rooms \subseteq Int /\ rooms # {}
      <4> HIDE DEF room
      <4> QED BY <1>12, <2>3, <2>4
    <3>5. IsFiniteSet(rooms)  BY <3>2, <3>3
    <3>6. Min(rooms) \in rooms
      <4> HIDE DEF rooms
      <4> QED BY <3>4, <3>5, ExtremesAre
    <3>7. least = Min(rooms)  OBVIOUS
    <3> HIDE DEF least, rooms
    <3> QED BY <3>4, <3>6, <3>7
  <2>6. p \in slots /\ room(p) = least
    <3>1. IsFiniteSet(ties)
      <4>1. ties \subseteq R  BY <2>4
      <4> HIDE DEF ties, R
      <4> QED BY <1>3, <4>1, FS_Subset
    <3>2. ties # {}
      <4> HIDE DEF least, room, slots
      <4> QED BY <2>5
    <3>3. ties \subseteq Int
      <4>1. R \subseteq Int  BY <1>3
      <4> QED BY <2>4, <4>1
    <3>4. Min(ties) \in ties
      <4> HIDE DEF ties
      <4> QED BY <3>1, <3>2, <3>3, ExtremesAre
    <3>5. p = Min(ties)  OBVIOUS
    <3>6. p \in ties
      <4> HIDE DEF p, ties
      <4> QED BY <3>4, <3>5
    <3> HIDE DEF p, slots, room, least
    <3> QED BY <3>6
  <2>7. p \in R /\ blocks(p)
    <3> HIDE DEF p
    <3> QED BY <2>6
  <2>8. /\ IsStruct(moved) /\ Keeps(moved, e, {"x", "iters"}) /\ moved.x = X
    <3> HIDE DEF X
    <3> QED BY Zenon DEF IsStruct, Fields, Keeps
  <2>9. /\ moved.lp = e.lp /\ moved.inv = e.inv /\ moved.basis = e.basis /\ moved.status = e.status
        /\ Rows(moved) = Rows(e)
    <3> HIDE DEF moved
    <3>1. /\ moved.lp = e.lp /\ moved.inv = e.inv /\ moved.basis = e.basis /\ moved.status = e.status
      BY <2>8, Zenon DEF Keeps, Fields
    <3> QED BY <3>1 DEF Rows
  <2>10. /\ IsStruct(r) /\ Keeps(r, moved, {"status", "basis", "inv"})
         /\ r.status = [[moved.status EXCEPT ![moved.basis[p]] = at] EXCEPT ![q] = "BASIC"]
         /\ r.basis = [moved.basis EXCEPT ![p] = q] /\ r.inv = Eta(moved, d, p)
    <3> HIDE DEF moved, at, p, d
    <3> QED BY <2>8, Zenon DEF IsStruct, Fields, Keeps, Exchange
  <2>11. Eta(moved, d, p) = Eta(e, d, p)
    <3> HIDE DEF moved, p, d
    <3> QED BY <2>9 DEF Eta
  <2>12. Keeps(r, e, Moving) /\ r.x = X
    <3> HIDE DEF moved, r, X
    <3> QED BY <2>8, <2>10, Zenon DEF Keeps, Moving, Fields
  <2>13. Advanced(e, q, r, least)
    <3>1. theta \in Int
      <4> HIDE DEF theta, least
      <4> QED BY <2>2, <2>5
    <3>2. /\ \A k \in C : X[k] = e.x[k] + theta * Ray(e, q)[k]
          /\ X \in [C -> Int]
      BY <1>10, <3>1, Zenon
    <3> HIDE DEF r, X, theta, least
    <3> QED BY <2>2, <2>10, <2>12, <3>1, <3>2, Zenon DEF Advanced
  <2>14. v[p] \in Int /\ v[p] # 0 /\ d[p] # 0
    <3>1. v[p] = -dir * d[p] /\ v[p] \in Int /\ d[p] \in Int
      <4> HIDE DEF p, d
      <4> QED BY <1>4, <2>7
    <3>2. v[p] > 0 \/ v[p] < 0  BY <2>7, Zenon
    <3> HIDE DEF v, d, dir, p
    <3> QED BY <1>2, <3>1, <3>2
  <2>15. Exchanged(e, q, r, least, p, at)
    <3>1. at \in {"NBL", "NBU"}  BY Zenon
    <3> HIDE DEF r, at, least, p, moved
    <3> QED BY <2>7, <2>9, <2>10, <2>11, <2>13, <2>14, <3>1 DEF Exchanged, Swapped
  <2>16. Ray(e, q)[e.basis[p]] = v[p]
    <3> HIDE DEF p, v
    <3> QED BY <1>6, <2>7
  <2>17. CASE v[p] > 0
    <3>1. at = "NBU"  BY <2>17, Zenon
    <3>2. least = e.u[e.basis[p]] - e.x[e.basis[p]] /\ e.u[e.basis[p]] < LP_INF
      <4>1. room(p) = e.u[e.basis[p]] - e.x[e.basis[p]]  BY <2>17, Zenon
      <4>2. ~(v[p] < 0)  
        <5> HIDE DEF v, p
        <5> QED BY <2>14, <2>17
      <4>3. e.u[e.basis[p]] < LP_INF  BY <2>7, <4>2, Zenon
      <4> HIDE DEF room, least, p
      <4> QED BY <2>6, <4>1, <4>3
    <3> HIDE DEF at, least, p, r, v
    <3> QED BY <2>1, <2>5, <2>7, <2>15, <2>16, <2>17, <3>1, <3>2
  <2>18. CASE v[p] < 0
    <3>0. ~(v[p] > 0)
      <4> HIDE DEF v, p
      <4> QED BY <2>14, <2>18
    <3>1. at = "NBL"  BY <3>0, Zenon
    <3>2. least = e.x[e.basis[p]] - e.l[e.basis[p]] /\ e.l[e.basis[p]] > -LP_INF
      <4>1. room(p) = e.x[e.basis[p]] - e.l[e.basis[p]]  BY <3>0, Zenon
      <4>3. e.l[e.basis[p]] > -LP_INF  BY <2>7, <3>0, Zenon
      <4> HIDE DEF room, least, p
      <4> QED BY <2>6, <4>1, <4>3
    <3> HIDE DEF at, least, p, r, v
    <3> QED BY <2>1, <2>5, <2>7, <2>15, <2>16, <2>18, <3>1, <3>2
  <2>19. v[p] > 0 \/ v[p] < 0
    <3> HIDE DEF v, p
    <3> QED BY <2>14
  <2> HIDE DEF v, p
  <2> QED BY <2>17, <2>18, <2>19
<1> QED BY <1>9, <1>11, <1>12

(* Rows hold after a step along a ray.                                     *)
LEMMA AdvancedRows ==
  ASSUME NEW e, StructInv(e), RowsHold(e), NEW q \in Parked(e), NEW r, NEW th,
         Advanced(e, q, r, th),
         \A k \in Columns(e) : r.status[k] = "REMOVED" <=> e.status[k] = "REMOVED"
  PROVE  RowsHold(r)
<1> DEFINE w == Ray(e, q)
<1>1. FormInv(e) /\ BasisInv(e) /\ e.x \in [Columns(e) -> Int]  BY DEF StructInv, ValuesInv
<1>2. q \in Columns(e) \ Basic(e) /\ e.status[q] # "REMOVED"  BY <1>1 DEF Parked, BasisInv
<1>3. (\A k \in Columns(e) : w[k] \in Int) /\ Flat(e, w) /\ IsRay(e, q, Dir(e, q), w)
  BY <1>1, <1>2, RayIs
<1>4. \A k \in Columns(e) : e.status[k] = "REMOVED" => w[k] = 0
  <2>1. \A k \in Columns(e) : k # q /\ k \notin Basic(e) => w[k] = 0
    <3> HIDE DEF w
    <3> QED BY <1>3 DEF IsRay
  <2>2. \A k \in Columns(e) : e.status[k] = "REMOVED" => k # q /\ k \notin Basic(e)
    BY <1>1, <1>2 DEF BasisInv
  <2> QED BY <2>1, <2>2
<1>5. r.lp = e.lp /\ r.split = e.split /\ r.artSign = e.artSign /\ th \in Int
      /\ \A k \in Columns(e) : r.x[k] = e.x[k] + th * w[k]
  BY MovingKeeps DEF Advanced
<1> HIDE DEF w
<1> QED BY <1>1, <1>3, <1>4, <1>5, RowsAlongRay

(* A bound flip keeps the invariant.                                       *)
LEMMA FlippedKeeps ==
  ASSUME NEW e, StructInv(e), RunningInv(e), NEW q \in Parked(e), NEW r, NEW th,
         Flipped(e, q, r, th)
  PROVE  StructInv(r) /\ RunningInv(r)
<1> DEFINE C == Columns(e)
<1>1. /\ FormInv(e) /\ BasisInv(e) /\ BoxInv(e) /\ e.x \in [C -> Int] /\ AtBounds(e) /\ RowsHold(e)
  BY DEF StructInv, RunningInv, Stands, ValuesInv
<1>2. /\ Advanced(e, q, r, th) /\ r.basis = e.basis /\ r.inv = e.inv
      /\ r.status = [e.status EXCEPT ![q] = IF Dir(e, q) > 0 THEN "NBU" ELSE "NBL"]
      /\ e.l[q] > -LP_INF /\ e.u[q] < LP_INF /\ th = e.u[q] - e.l[q]
  BY DEF Flipped
<1>3. q \in C \ Basic(e) /\ e.status[q] \in {"NBL", "NBU"} /\ Dir(e, q) \in {-1, 1}
      /\ (Dir(e, q) > 0 <=> e.status[q] = "NBL")
  BY <1>1 DEF Parked, BasisInv, Dir
<1>4. /\ r.lp = e.lp /\ r.split = e.split /\ r.artSign = e.artSign /\ r.l = e.l /\ r.u = e.u
      /\ IsStruct(r) /\ Keeps(r, e, Moving) /\ r.x \in [C -> Int]
      /\ \A k \in C : r.x[k] = e.x[k] + th * Ray(e, q)[k]
  BY <1>2, MovingKeeps DEF Advanced
<1>5. /\ Rows(r) = Rows(e) /\ Columns(r) = C /\ \A k : Column(r, k) = Column(e, k)
  BY <1>4, SameShape
<1>6. Basic(r) = Basic(e) /\ BasisMatrix(r) = BasisMatrix(e)
  BY <1>2, <1>5 DEF Basic, BasisMatrix
<1>7. e.status \in [C -> {"BASIC", "NBL", "NBU", "REMOVED"}]  BY <1>1 DEF BasisInv
<1>8. \A k \in C : r.status[k] = IF k = q THEN (IF Dir(e, q) > 0 THEN "NBU" ELSE "NBL")
                                          ELSE e.status[k]
  BY <1>2, <1>3, <1>7
<1>9. r.status \in [C -> {"BASIC", "NBL", "NBU", "REMOVED"}]  BY <1>2, <1>3, <1>7
<1>10. \A k \in C : (r.status[k] = "REMOVED" <=> e.status[k] = "REMOVED")
                    /\ (r.status[k] = "BASIC" <=> e.status[k] = "BASIC")
  BY <1>3, <1>8
<1>11. BasisInv(r)
  BY <1>1, <1>2, <1>5, <1>6, <1>9, <1>10 DEF BasisInv
<1>12. RowsHold(r)
  <2>1. \A k \in Columns(e) : r.status[k] = "REMOVED" <=> e.status[k] = "REMOVED"  BY <1>10
  <2> QED BY <1>1, <1>2, <2>1, AdvancedRows
<1>13. AtBounds(r)
  <2> SUFFICES ASSUME NEW k \in Parked(r)
               PROVE  IF r.status[k] = "NBL" THEN r.x[k] = r.l[k] /\ r.l[k] > -LP_INF
                                             ELSE r.x[k] = r.u[k] /\ r.u[k] < LP_INF
    BY DEF AtBounds
  <2>0. k \in C /\ r.status[k] \in {"NBL", "NBU"}  BY <1>5 DEF Parked
  <2>1. e.x[k] \in Int /\ e.l[k] \in Int /\ e.u[k] \in Int /\ th \in Int /\ r.x[k] = e.x[k] + th * Ray(e, q)[k]
    BY <1>1, <1>2, <1>4, <2>0 DEF BoxInv, Advanced
  <2>2. CASE k = q
    <3>1. Ray(e, q)[k] = Dir(e, q)  BY <1>3, <2>2 DEF Ray
    <3>2. CASE Dir(e, q) > 0
      <4>1. Dir(e, q) = 1 /\ e.status[q] = "NBL" /\ r.status[k] = "NBU"
        BY <1>3, <1>8, <2>0, <2>2, <3>2
      <4>2. e.x[k] = e.l[k]  BY <1>1, <2>2, <4>1 DEF AtBounds
      <4>3. r.x[k] = e.u[k]  BY <1>2, <2>1, <2>2, <3>1, <4>1, <4>2
      <4> QED BY <1>2, <1>4, <2>2, <4>1, <4>3
    <3>3. CASE ~(Dir(e, q) > 0)
      <4>1. Dir(e, q) = -1 /\ e.status[q] = "NBU" /\ r.status[k] = "NBL"
        BY <1>3, <1>8, <2>0, <2>2, <3>3
      <4>2. e.x[k] = e.u[k]  BY <1>1, <2>2, <4>1 DEF AtBounds
      <4>3. r.x[k] = e.l[k]  BY <1>2, <2>1, <2>2, <3>1, <4>1, <4>2
      <4> QED BY <1>2, <1>4, <2>2, <4>1, <4>3
    <3> QED BY <3>2, <3>3
  <2>3. CASE k # q
    <3>1. r.status[k] = e.status[k] /\ k \in Parked(e)  BY <1>8, <2>0, <2>3 DEF Parked
    <3>2. Ray(e, q)[k] = 0
      <4>1. k \notin Basic(e)  BY <1>1, <2>0, <3>1 DEF BasisInv
      <4> QED BY <2>0, <2>3, <4>1 DEF Ray
    <3>3. r.x[k] = e.x[k]  BY <2>1, <3>2
    <3> QED BY <1>1, <1>4, <3>1, <3>3 DEF AtBounds
  <2> QED BY <2>2, <2>3
<1> QED BY <1>4, <1>10, <1>11, <1>12, <1>13, KeptInv DEF Stands

(* So does an exchange.                                                    *)
LEMMA ExchangedKeeps ==
  ASSUME NEW e, StructInv(e), RunningInv(e), Unimodular(e.lp.rows, Len(e.lp.c)),
         NEW q \in Parked(e), NEW r, NEW th, NEW p, NEW at, Exchanged(e, q, r, th, p, at),
         IF at = "NBL" THEN r.x[e.basis[p]] = e.l[e.basis[p]] /\ e.l[e.basis[p]] > -LP_INF
                       ELSE r.x[e.basis[p]] = e.u[e.basis[p]] /\ e.u[e.basis[p]] < LP_INF
  PROVE  StructInv(r) /\ RunningInv(r)
<1> DEFINE C == Columns(e)
           d == Ftran(e, Column(e, q))
           l == e.basis[p]
<1>1. /\ FormInv(e) /\ BasisInv(e) /\ BoxInv(e) /\ e.x \in [C -> Int] /\ AtBounds(e) /\ RowsHold(e)
  BY DEF StructInv, RunningInv, Stands, ValuesInv
<1>2. Advanced(e, q, r, th) /\ Swapped(e, q, r, p, at)  BY DEF Exchanged
<1>3. at \in {"NBL", "NBU"}  BY <1>2 DEF Swapped
<1>4. /\ r.lp = e.lp /\ r.split = e.split /\ r.artSign = e.artSign /\ r.l = e.l /\ r.u = e.u
      /\ IsStruct(r) /\ Keeps(r, e, Moving) /\ r.x \in [C -> Int]
      /\ \A k \in C : r.x[k] = e.x[k] + th * Ray(e, q)[k]
  BY <1>2, MovingKeeps DEF Advanced
<1>5. Columns(r) = C  BY <1>4, SameShape
<1>6. /\ BasisInv(r)
      /\ \A k \in Columns(e) : r.status[k] = IF k = q THEN "BASIC" ELSE IF k = l THEN at ELSE e.status[k]
      /\ \A k \in Columns(e) : r.status[k] = "REMOVED" <=> e.status[k] = "REMOVED"
  <2>1. d = Ftran(e, Column(e, q))  OBVIOUS
  <2> HIDE DEF d
  <2> QED BY <1>1, <1>2, <1>4, <2>1, PivotFacts
<1>7. RowsHold(r)  BY <1>1, <1>2, <1>6, AdvancedRows
<1>8. AtBounds(r)
  <2> SUFFICES ASSUME NEW k \in Parked(r)
               PROVE  IF r.status[k] = "NBL" THEN r.x[k] = r.l[k] /\ r.l[k] > -LP_INF
                                             ELSE r.x[k] = r.u[k] /\ r.u[k] < LP_INF
    BY DEF AtBounds
  <2>0. k \in C /\ r.status[k] \in {"NBL", "NBU"}  BY <1>5 DEF Parked
  <2>1. k # q  BY <1>6, <2>0
  <2>2. CASE k = l
    <3>1. r.status[k] = at  BY <1>6, <2>0, <2>1, <2>2
    <3> QED BY <1>3, <1>4, <2>2, <3>1
  <2>3. CASE k # l
    <3>1. r.status[k] = e.status[k] /\ k \in Parked(e)  BY <1>6, <2>0, <2>1, <2>3 DEF Parked
    <3>2. Ray(e, q)[k] = 0
      <4>1. k \notin Basic(e)  BY <1>1, <2>0, <3>1 DEF BasisInv
      <4> QED BY <2>0, <2>1, <4>1 DEF Ray
    <3>3. e.x[k] \in Int /\ th \in Int /\ r.x[k] = e.x[k] + th * Ray(e, q)[k]
      BY <1>1, <1>2, <1>4, <2>0 DEF Advanced
    <3>4. r.x[k] = e.x[k]  BY <3>2, <3>3
    <3> QED BY <1>1, <1>4, <3>1, <3>4 DEF AtBounds
  <2> QED BY <2>2, <2>3
<1> QED BY <1>4, <1>6, <1>7, <1>8, KeptInv DEF Stands

(* An iteration of the primal simplex that moves keeps the invariant.      *)
LEMMA MoveKeeps ==
  ASSUME NEW e, StructInv(e), RunningInv(e), Unimodular(e.lp.rows, Len(e.lp.c)),
         NEW q \in Parked(e), NEW o, o = Move(e, q)
  PROVE  \/ /\ o[1] = 2 /\ IsStruct(o[2]) /\ Keeps(o[2], e, {"unb_ray"})
            /\ o[2].unb_ray = Ray(e, q) /\ Unblocked(e, q)
         \/ o[1] = 1 /\ StructInv(o[2]) /\ RunningInv(o[2]) /\ Keeps(o[2], e, Moving) /\ IsStruct(o[2])
<1> DEFINE C == Columns(e)
           r == o[2]
<1>1. /\ IsStruct(e) /\ FormInv(e) /\ BasisInv(e) /\ BoxInv(e) /\ e.x \in [C -> Int] /\ AtBounds(e)
  BY DEF StructInv, RunningInv, Stands, ValuesInv
<1>2. \A p \in Rows(e) : /\ Ray(e, q)[e.basis[p]] = -Dir(e, q) * Ftran(e, Column(e, q))[p]
                         /\ Ftran(e, Column(e, q))[p] \in {-1, 0, 1}
                         /\ e.basis[p] \in C
                         /\ e.x[e.basis[p]] \in Int /\ e.l[e.basis[p]] \in Int /\ e.u[e.basis[p]] \in Int
  <2>0. q \in C \ Basic(e)  BY <1>1 DEF Parked, BasisInv
  <2>1. IsRay(e, q, Dir(e, q), Ray(e, q))  BY <1>1, <2>0, RayIs
  <2>2. \A p \in Rows(e) : Ray(e, q)[e.basis[p]] = -Dir(e, q) * Ftran(e, Column(e, q))[p]
    BY <2>1 DEF IsRay
  <2>3. \A p \in Rows(e) : Ftran(e, Column(e, q))[p] \in {-1, 0, 1}
    <3>1. e.inv \in [Rows(e) -> [Rows(e) -> -2 .. 2]]
      <4>1. e.inv \in [Rows(e) -> [Rows(e) -> {-1, 0, 1}]]  BY <1>1 DEF BasisInv
      <4>2. \A i, k \in Rows(e) : e.inv[i][k] \in -2 .. 2  BY <4>1
      <4> QED BY <4>1, <4>2
    <3>2. \A i \in Rows(e), k \in C : Prod(e.inv[i], Column(e, k), Rows(e)) \in {-1, 0, 1}
      BY <1>1, <3>1, TableauIsUnit DEF BasisInv
    <3> QED BY <1>1, <2>0, <3>2, TableauInt
  <2>4. \A p \in Rows(e) : e.basis[p] \in C  BY <1>1, BasisMatrixFacts
  <2>5. \A p \in Rows(e) : e.x[e.basis[p]] \in Int /\ e.l[e.basis[p]] \in Int /\ e.u[e.basis[p]] \in Int
    BY <1>1, <2>4 DEF BoxInv
  <2> QED BY <2>2, <2>3, <2>4, <2>5
<1>3. Dir(e, q) \in {-1, 1}  BY DEF Dir
<1>4. ASSUME NEW th \in Int, Flipped(e, q, r, th)
      PROVE  StructInv(r) /\ RunningInv(r) /\ Keeps(r, e, Moving) /\ IsStruct(r)
  <2>1. Keeps(r, e, Moving) /\ IsStruct(r)  BY <1>4 DEF Flipped, Advanced
  <2> HIDE DEF r
  <2> QED BY <1>4, <2>1, FlippedKeeps
<1>5. ASSUME NEW th \in Int, NEW p \in Rows(e),
             \/ /\ Exchanged(e, q, r, th, p, "NBU") /\ Ray(e, q)[e.basis[p]] > 0
                /\ e.u[e.basis[p]] < LP_INF /\ th = e.u[e.basis[p]] - e.x[e.basis[p]]
             \/ /\ Exchanged(e, q, r, th, p, "NBL") /\ Ray(e, q)[e.basis[p]] < 0
                /\ e.l[e.basis[p]] > -LP_INF /\ th = e.x[e.basis[p]] - e.l[e.basis[p]]
      PROVE  StructInv(r) /\ RunningInv(r) /\ Keeps(r, e, Moving) /\ IsStruct(r)
  <2> DEFINE k == e.basis[p]
  <2>1. Ray(e, q)[k] \in {-1, 0, 1}
    <3> DEFINE dp == Ftran(e, Column(e, q))[p]
    <3>1. Ray(e, q)[k] = -Dir(e, q) * dp /\ dp \in {-1, 0, 1}  BY <1>2
    <3> HIDE DEF dp
    <3> QED BY <1>3, <3>1
  <2>2. Advanced(e, q, r, th) /\ k \in C /\ e.x[k] \in Int /\ e.l[k] \in Int /\ e.u[k] \in Int
    BY <1>2, <1>5 DEF Exchanged
  <2>3. r.x[k] = e.x[k] + th * Ray(e, q)[k] /\ Keeps(r, e, Moving) /\ IsStruct(r)
    BY <2>2 DEF Advanced
  <2>4. CASE /\ Exchanged(e, q, r, th, p, "NBU") /\ Ray(e, q)[e.basis[p]] > 0
             /\ e.u[e.basis[p]] < LP_INF /\ th = e.u[e.basis[p]] - e.x[e.basis[p]]
    <3>1. Ray(e, q)[k] = 1  BY <2>1, <2>4
    <3>2. r.x[k] = e.u[k]  BY <2>2, <2>3, <2>4, <3>1
    <3> HIDE DEF r
    <3>3. StructInv(r) /\ RunningInv(r)  BY <2>4, <3>2, ExchangedKeeps
    <3> QED BY <2>3, <3>3
  <2>5. CASE /\ Exchanged(e, q, r, th, p, "NBL") /\ Ray(e, q)[e.basis[p]] < 0
             /\ e.l[e.basis[p]] > -LP_INF /\ th = e.x[e.basis[p]] - e.l[e.basis[p]]
    <3>1. Ray(e, q)[k] = -1  BY <2>1, <2>5
    <3>2. r.x[k] = e.l[k]  BY <2>2, <2>3, <2>5, <3>1
    <3> HIDE DEF r
    <3>3. StructInv(r) /\ RunningInv(r)  BY <2>5, <3>2, ExchangedKeeps
    <3> QED BY <2>3, <3>3
  <2> QED BY <1>5, <2>4, <2>5
<1>6. \/ /\ o[1] = 2 /\ IsStruct(r) /\ Keeps(r, e, {"unb_ray"})
         /\ r.unb_ray = Ray(e, q) /\ Unblocked(e, q)
      \/ o[1] = 1 /\ \E th \in Int : Flipped(e, q, r, th)
      \/ o[1] = 1 /\ \E th \in Int, p \in Rows(e) :
           \/ /\ Exchanged(e, q, r, th, p, "NBU") /\ Ray(e, q)[e.basis[p]] > 0
              /\ e.u[e.basis[p]] < LP_INF /\ th = e.u[e.basis[p]] - e.x[e.basis[p]]
           \/ /\ Exchanged(e, q, r, th, p, "NBL") /\ Ray(e, q)[e.basis[p]] < 0
              /\ e.l[e.basis[p]] > -LP_INF /\ th = e.x[e.basis[p]] - e.l[e.basis[p]]
  BY <1>1, MoveIs
<1> HIDE DEF r
<1>7. \/ /\ o[1] = 2 /\ IsStruct(r) /\ Keeps(r, e, {"unb_ray"})
         /\ r.unb_ray = Ray(e, q) /\ Unblocked(e, q)
      \/ o[1] = 1 /\ StructInv(r) /\ RunningInv(r) /\ Keeps(r, e, Moving) /\ IsStruct(r)
  BY <1>4, <1>5, <1>6
<1> QED BY <1>7 DEF r

(* Fields that no invariant of the tableau speaks of.                      *)
Aside ==
  {"iters", "carried", "local", "restarted", "lane", "status_out", "farkas_ok", "dfarkas_ok",
   "dfarkas_ray", "unb_ray", "objval", "duals"}

(* What the ends of the lanes do not touch.                                *)
LEMMA AsideFields ==
  ASSUME NEW e, NEW r, Keeps(r, e, Aside)
  PROVE  /\ r.lp = e.lp /\ r.split = e.split /\ r.artSign = e.artSign /\ r.l = e.l /\ r.u = e.u
         /\ r.rebuild_pending = e.rebuild_pending /\ r.c0 = e.c0 /\ r.cobj = e.cobj
         /\ r.basis = e.basis /\ r.inv = e.inv /\ r.status = e.status /\ r.x = e.x
BY DEF Keeps, Aside, Fields

(* Structs that agree on the tableau have the same invariants.             *)
LEMMA AsideKeeps ==
  ASSUME NEW e, NEW r, StructInv(e), IsStruct(r),
         r.lp = e.lp, r.split = e.split, r.artSign = e.artSign, r.l = e.l, r.u = e.u,
         r.rebuild_pending = e.rebuild_pending, r.c0 = e.c0,
         r.cobj = e.cobj \/ r.cobj \in {TrueCost(e), PhaseOneCost(e)},
         r.basis = e.basis, r.inv = e.inv, r.status = e.status, r.x = e.x
  PROVE  /\ StructInv(r) /\ Rows(r) = Rows(e) /\ Columns(r) = Columns(e) /\ Basic(r) = Basic(e)
         /\ (Stands(e) => Stands(r)) /\ (EmptyBox(r) <=> EmptyBox(e)) /\ (Harmless(e) => Harmless(r))
         /\ TrueCost(r) = TrueCost(e) /\ PhaseOneCost(r) = PhaseOneCost(e)
         /\ Artificials(r) = Artificials(e) /\ Parked(r) = Parked(e)
<1>1. /\ Rows(r) = Rows(e) /\ Columns(r) = Columns(e) /\ Artificials(r) = Artificials(e)
      /\ \A k : Column(r, k) = Column(e, k)
      /\ TrueCost(r) = TrueCost(e) /\ PhaseOneCost(r) = PhaseOneCost(e)
  BY SameShape, SameProgram
<1>2. /\ \A w, i : RowSum(r, w, i) = RowSum(e, w, i)  BY SameShape
<1>3. Basic(r) = Basic(e) /\ BasisMatrix(r) = BasisMatrix(e) /\ Parked(r) = Parked(e)
  BY <1>1 DEF Basic, BasisMatrix, Parked
<1>4. Present(r) = Present(e)  BY <1>1 DEF Present
<1>5. \A k : Own(r, k) <=> Own(e, k)  BY DEF Own
<1>6. FormInv(e) /\ BasisInv(e) /\ BoxInv(e) /\ ValuesInv(e) /\ CostInv(e)  BY DEF StructInv
<1>7. FormInv(r)  BY <1>1, <1>6 DEF FormInv
<1>8. BasisInv(r)  BY <1>1, <1>3, <1>6 DEF BasisInv
<1>9. BoxInv(r)  BY <1>1, <1>5, <1>6 DEF BoxInv
<1>10. ValuesInv(r)  BY <1>1, <1>3, <1>5, <1>6 DEF ValuesInv
<1>11. CostInv(r)  BY <1>1, <1>6 DEF CostInv
<1>12. StructInv(r)  BY <1>7, <1>8, <1>9, <1>10, <1>11 DEF StructInv
<1>13. AtBounds(e) => AtBounds(r)  BY <1>3 DEF AtBounds
<1>14. RowsHold(e) => RowsHold(r)  BY <1>1, <1>2, <1>4 DEF RowsHold
<1>15. Stands(e) => Stands(r)  BY <1>13, <1>14 DEF Stands
<1>16. EmptyBox(r) <=> EmptyBox(e)  BY <1>1 DEF EmptyBox
<1>17. Harmless(e) => Harmless(r)  BY <1>1 DEF Harmless
<1> QED BY <1>1, <1>3, <1>12, <1>15, <1>16, <1>17

(* Leaving with a code changes the lane and the counters only.             *)
LEMMA ReturnIs ==
  ASSUME NEW e, IsStruct(e), NEW code, NEW r, r = Return(e, code)
  PROVE  /\ IsStruct(r) /\ r.lane = "idle" /\ r.status_out = code
         /\ Keeps(r, e, {"lane", "status_out", "iters", "carried"})
BY Zenon DEF IsStruct, Fields, Keeps, Return

(* Clearing the evidence changes nothing else.                             *)
LEMMA ClearIs ==
  ASSUME NEW e, IsStruct(e), NEW r, r = ClearEvidence(e)
  PROVE  /\ IsStruct(r) /\ ~r.farkas_ok /\ ~r.dfarkas_ok /\ r.unb_ray = NoRay
         /\ Keeps(r, e, {"farkas_ok", "dfarkas_ok", "unb_ray"})
BY Zenon DEF IsStruct, Fields, Keeps, ClearEvidence

(* No artificial of the basis can take up a residual.                      *)
BasicPinned(e) == \A k \in Basic(e) : k[1] = "a" => e.l[k] = 0 /\ e.u[k] = 0

(* Phase II starts with every parked column where it was, and no           *)
(* artificial that can absorb a residual.                                  *)
LEMMA EnterPhaseTwoIs ==
  ASSUME NEW e, StructInv(e), AtBounds(e), ~EmptyBox(e), ~e.rebuild_pending, BasicPinned(e),
         ~e.farkas_ok, ~e.dfarkas_ok, e.unb_ray = NoRay,
         NEW r, r = EnterPhaseTwo(e)
  PROVE  StructInv(r) /\ RunningInv(r) /\ r.lp = e.lp /\ r.lane = "phase2"
<1> DEFINE C == Columns(e)
           st == [k \in C |-> IF k[1] = "a" /\ e.status[k] # "BASIC" THEN "REMOVED" ELSE e.status[k]]
           m == [e EXCEPT !.status = st, !.cobj = e.c0, !.lane = "phase2"]
<1>1. /\ IsStruct(e) /\ FormInv(e) /\ BasisInv(e) /\ BoxInv(e) /\ ValuesInv(e) /\ CostInv(e)
  BY DEF StructInv
<1>2. r = recompute_basic(m)
  BY DEF EnterPhaseTwo
<1>3. /\ IsStruct(m) /\ Keeps(m, e, {"status", "cobj", "lane"})
      /\ m.status = st /\ m.cobj = e.c0 /\ m.lane = "phase2"
  <2> HIDE DEF st
  <2> QED BY <1>1, Zenon DEF IsStruct, Fields, Keeps
<1> HIDE DEF m
<1>4. /\ m.lp = e.lp /\ m.split = e.split /\ m.artSign = e.artSign /\ m.l = e.l /\ m.u = e.u
      /\ m.rebuild_pending = e.rebuild_pending /\ m.c0 = e.c0
      /\ m.basis = e.basis /\ m.inv = e.inv /\ m.x = e.x
      /\ m.farkas_ok = e.farkas_ok /\ m.dfarkas_ok = e.dfarkas_ok /\ m.unb_ray = e.unb_ray
  BY <1>3 DEF Keeps, Fields
<1>5. /\ Rows(m) = Rows(e) /\ Columns(m) = C /\ Artificials(m) = Artificials(e)
      /\ \A k : Column(m, k) = Column(e, k)
      /\ TrueCost(m) = TrueCost(e) /\ PhaseOneCost(m) = PhaseOneCost(e)
  BY <1>4, SameShape, SameProgram
<1>6. Basic(m) = Basic(e) /\ BasisMatrix(m) = BasisMatrix(e)
  BY <1>4, <1>5 DEF Basic, BasisMatrix
<1>7. FormInv(m)  BY <1>1, <1>4, <1>5 DEF FormInv
<1>8. \A k \in C : e.status[k] \in {"BASIC", "NBL", "NBU", "REMOVED"}
                   /\ (e.status[k] = "REMOVED" => k[1] = "a")
  BY <1>1 DEF BasisInv
<1>9. /\ st \in [C -> {"BASIC", "NBL", "NBU", "REMOVED"}]
      /\ \A k \in C : /\ st[k] = "BASIC" <=> e.status[k] = "BASIC"
                      /\ st[k] = "REMOVED" => k[1] = "a"
                      /\ st[k] \in {"NBL", "NBU"} => st[k] = e.status[k] /\ k[1] # "a"
                      /\ k[1] = "a" => st[k] \in {"BASIC", "REMOVED"}
  BY <1>8
<1>10. BasisInv(m)
  <2> HIDE DEF st
  <2> QED BY <1>1, <1>3, <1>4, <1>5, <1>6, <1>9 DEF BasisInv
<1>11. /\ IsStruct(r) /\ Keeps(r, m, {"x"}) /\ r.x \in [C -> Int]
       /\ \A k \in C \ Basic(e) : r.x[k] = e.x[k]
       /\ RowsHold(r)
  <2>1. m.x \in [Columns(m) -> Int]  BY <1>1, <1>4, <1>5 DEF ValuesInv
  <2>2. /\ IsStruct(r) /\ Keeps(r, m, {"x"}) /\ r.x \in [Columns(m) -> Int]
        /\ \A k \in Columns(m) \ Basic(m) : r.x[k] = m.x[k]
        /\ RowsHold(r)
    BY <1>2, <1>3, <1>7, <1>10, <2>1, RecomputeFacts
  <2> QED BY <1>4, <1>5, <1>6, <2>2
<1>12. /\ r.lp = e.lp /\ r.split = e.split /\ r.artSign = e.artSign /\ r.l = e.l /\ r.u = e.u
       /\ r.rebuild_pending = e.rebuild_pending /\ r.c0 = e.c0 /\ r.cobj = e.c0
       /\ r.basis = e.basis /\ r.inv = e.inv /\ r.status = st /\ r.lane = "phase2"
       /\ ~r.farkas_ok /\ ~r.dfarkas_ok /\ r.unb_ray = NoRay
  <2> HIDE DEF st
  <2> QED BY <1>3, <1>4, <1>11 DEF Keeps, Fields
<1>13. /\ Rows(r) = Rows(e) /\ Columns(r) = C /\ Artificials(r) = Artificials(e)
       /\ \A k : Column(r, k) = Column(e, k)
       /\ TrueCost(r) = TrueCost(e) /\ PhaseOneCost(r) = PhaseOneCost(e)
  BY <1>12, SameShape, SameProgram
<1>14. Basic(r) = Basic(e) /\ BasisMatrix(r) = BasisMatrix(e)
  BY <1>12, <1>13 DEF Basic, BasisMatrix
<1>15. FormInv(r)  BY <1>1, <1>12, <1>13 DEF FormInv
<1>16. BasisInv(r)
  <2> HIDE DEF st
  <2> QED BY <1>1, <1>9, <1>12, <1>13, <1>14 DEF BasisInv
<1>17. BoxInv(r)
  <2>1. \A k : Own(r, k) <=> Own(e, k)  BY <1>12 DEF Own
  <2> QED BY <1>1, <1>12, <1>13, <2>1 DEF BoxInv
<1>18. AtBounds(r)
  <2> SUFFICES ASSUME NEW k \in Parked(r)
               PROVE  IF r.status[k] = "NBL" THEN r.x[k] = r.l[k] /\ r.l[k] > -LP_INF
                                             ELSE r.x[k] = r.u[k] /\ r.u[k] < LP_INF
    BY DEF AtBounds
  <2>1. k \in C /\ st[k] \in {"NBL", "NBU"} /\ r.status[k] = st[k]
    <3> HIDE DEF st
    <3> QED BY <1>12, <1>13 DEF Parked
  <2>2. st[k] = e.status[k] /\ k \in Parked(e) /\ k \notin Basic(e)
    <3>1. st[k] = e.status[k]
      <4> HIDE DEF st
      <4> QED BY <1>9, <2>1
    <3> HIDE DEF st
    <3> QED BY <1>1, <2>1, <3>1 DEF Parked, BasisInv
  <2>3. r.x[k] = e.x[k]  BY <1>11, <2>1, <2>2
  <2> HIDE DEF st
  <2> QED BY <1>12, <2>1, <2>2, <2>3 DEF AtBounds
<1>19. ValuesInv(r)  BY <1>11, <1>13, <1>17, <1>18, ParkedSmall DEF ValuesInv
<1>20. CostInv(r)  BY <1>1, <1>12, <1>13 DEF CostInv
<1>21. StructInv(r)
  BY <1>11, <1>15, <1>16, <1>17, <1>19, <1>20 DEF StructInv
<1>22. ~EmptyBox(r)  BY <1>12, <1>13 DEF EmptyBox
<1>23. Harmless(r)
  <2> SUFFICES ASSUME NEW k \in Artificials(e)
               PROVE r.status[k] = "REMOVED" \/ (r.l[k] = 0 /\ r.u[k] = 0)
    BY <1>13 DEF Harmless
  <2>1. k \in C /\ k[1] = "a"  BY DEF Columns, Artificials
  <2>2. CASE st[k] = "REMOVED"
    <3> HIDE DEF st
    <3> QED BY <1>12, <2>2
  <2>3. CASE st[k] # "REMOVED"
    <3>1. e.status[k] = "BASIC"  BY <2>1, <2>3
    <3>2. k \in Basic(e)  BY <1>1, <2>1, <3>1 DEF BasisInv
    <3> HIDE DEF st
    <3> QED BY <1>12, <2>1, <3>2 DEF BasicPinned
  <2> QED BY <2>2, <2>3
<1>24. r.cobj = TrueCost(r)  BY <1>1, <1>12, <1>13 DEF CostInv
<1>25. RunningInv(r)
  BY <1>11, <1>12, <1>18, <1>22, <1>23, <1>24 DEF RunningInv, Stands
<1> QED BY <1>12, <1>21, <1>25

(* G is diagonal.                                                          *)
Diagonal(G, u, R) == \A i, r \in R : G[i][r] = IF r = i THEN u[i] ELSE 0

(* A diagonal of signs is its own inverse.                                 *)
LEMMA DiagonalInverts ==
  ASSUME NEW R, IsFiniteSet(R), NEW u, \A i \in R : u[i] \in {-1, 1},
         NEW G, NEW B, Diagonal(G, u, R), Diagonal(B, u, R)
  PROVE  IsLeftInverse(G, B, R) /\ IsRightInverse(G, B, R)
<1>1. ASSUME NEW i \in R, NEW t \in R
      PROVE  Prod(G[i], B[t], R) = Delta(i, t)
  <2> DEFINE f == [r \in R |-> G[i][r] * B[t][r]]
  <2>1. f[i] \in Int /\ f[i] = Delta(i, t)
    <3>1. CASE i = t  BY <3>1 DEF Diagonal, Delta
    <3>2. CASE i # t  BY <3>2 DEF Diagonal, Delta
    <3> QED BY <3>1, <3>2
  <2>2. \A r \in R \ {i} : f[r] = 0
    <3> SUFFICES ASSUME NEW r \in R \ {i} PROVE f[r] = 0  OBVIOUS
    <3>1. G[i][r] = 0  BY DEF Diagonal
    <3>2. B[t][r] \in Int  BY DEF Diagonal
    <3> QED BY <3>1, <3>2
  <2> HIDE DEF f
  <2>3. Total(f, R) = f[i]  BY <2>1, <2>2, TotalOfOne
  <2> QED BY <2>1, <2>3 DEF Prod, f
<1>2. ASSUME NEW i \in R, NEW r \in R
      PROVE  Prod([t \in R |-> B[t][i]], [t \in R |-> G[t][r]], R) = Delta(i, r)
  <2> DEFINE f == [s0 \in R |-> [t \in R |-> B[t][i]][s0] * [t \in R |-> G[t][r]][s0]]
  <2>1. f[i] \in Int /\ f[i] = Delta(i, r)
    <3>1. CASE i = r  BY <3>1 DEF Diagonal, Delta
    <3>2. CASE i # r  BY <3>2 DEF Diagonal, Delta
    <3> QED BY <3>1, <3>2
  <2>2. \A t \in R \ {i} : f[t] = 0
    <3> SUFFICES ASSUME NEW t \in R \ {i} PROVE f[t] = 0  OBVIOUS
    <3>1. B[t][i] = 0  BY DEF Diagonal
    <3>2. G[t][r] \in Int  BY DEF Diagonal
    <3> QED BY <3>1, <3>2
  <2> HIDE DEF f
  <2>3. Total(f, R) = f[i]  BY <2>1, <2>2, TotalOfOne
  <2> QED BY <2>1, <2>3 DEF Prod, f
<1> QED BY <1>1, <1>2 DEF IsLeftInverse, IsRightInverse

(* Where a core column starts.                                             *)
At(e, k) == IF e.l[k] > -LP_INF THEN e.l[k] ELSE e.u[k]

(* The residual of row i with the core columns there.                      *)
Resid(e, i) == Abs(e.lp.rows[i].b) - Total([k \in Core(e) |-> A(e, k, i) * At(e, k)], Core(e))

(* Can the slack take the residual, with a value that is not negative?     *)
BySlack(e, i) == e.lp.rows[i].rel # "=" /\ Resid(e, i) * SlackSign(e.lp.rows[i]) >= 0

(* The column that serves row i, and its coefficient.                      *)
Server(e, i) == IF BySlack(e, i) THEN <<"s", i>> ELSE <<"a", i>>

(* The sign of an artificial.                                              *)
ArtSign(e, i) == IF BySlack(e, i) \/ Resid(e, i) >= 0 THEN 1 ELSE -1

(* The entry of the starting basis in row i.                               *)
Unit0(e, i) == IF BySlack(e, i) THEN SlackSign(e.lp.rows[i]) ELSE ArtSign(e, i)

(* The columns of the starting basis.                                      *)
Serving(e) == {Server(e, i) : i \in Rows(e)}

(* The fields InitialBasis sets.                                           *)
Started(e, r) ==
  /\ IsStruct(r) /\ Keeps(r, e, {"artSign", "basis", "inv", "status", "x"})
  /\ r.artSign = [i \in Rows(e) |-> ArtSign(e, i)]
  /\ r.basis = [i \in Rows(e) |-> Server(e, i)]
  /\ r.inv = [i \in Rows(e) |-> [t \in Rows(e) |-> IF t = i THEN Unit0(e, i) ELSE 0]]
  /\ r.status = [k \in Columns(e) |->
                   IF k \in Serving(e) THEN "BASIC"
                   ELSE IF k \in Core(e) /\ e.l[k] <= -LP_INF THEN "NBU" ELSE "NBL"]
  /\ r.x = [k \in Columns(e) |-> IF k \in Serving(e) THEN Abs(Resid(e, k[2]))
                                 ELSE IF k \in Core(e) THEN At(e, k) ELSE 0]

(* initial_basis starts the struct from slacks and artificials.            *)
LEMMA InitialBasisIs ==
  ASSUME NEW e, IsStruct(e), NEW r, r = InitialBasis(e)
  PROVE  Started(e, r)
<1> DEFINE at(k) == IF e.l[k] > -LP_INF THEN e.l[k] ELSE e.u[k]
           resid(i) == Abs(e.lp.rows[i].b) - MapThenSumSet(LAMBDA k : A(e, k, i) * at(k), Core(e))
           bySlack(i) == /\ e.lp.rows[i].rel # "="
                         /\ resid(i) * SlackSign(e.lp.rows[i]) >= 0
           sign == [i \in Rows(e) |-> IF bySlack(i) \/ resid(i) >= 0 THEN 1 ELSE -1]
           basis == [i \in Rows(e) |-> IF bySlack(i) THEN <<"s", i>> ELSE <<"a", i>>]
           unit(i) == IF bySlack(i) THEN SlackSign(e.lp.rows[i]) ELSE sign[i]
           basics == {basis[i] : i \in Rows(e)}
           inv == [i \in Rows(e) |-> [t \in Rows(e) |-> IF t = i THEN unit(i) ELSE 0]]
           status == [k \in Columns(e) |->
                      IF k \in basics THEN "BASIC"
                      ELSE IF k \in Core(e) /\ e.l[k] <= -LP_INF THEN "NBU" ELSE "NBL"]
           x == [k \in Columns(e) |-> IF k \in basics THEN Abs(resid(k[2]))
                                    ELSE IF k \in Core(e) THEN at(k) ELSE 0]
<1>1. r = [e EXCEPT !.artSign = sign, !.basis = basis, !.inv = inv, !.status = status, !.x = x]
  BY Zenon DEF InitialBasis
<1>2. /\ IsStruct(r) /\ Keeps(r, e, {"artSign", "basis", "inv", "status", "x"})
      /\ r.artSign = sign /\ r.basis = basis /\ r.inv = inv /\ r.status = status /\ r.x = x
  <2> HIDE DEF sign, basis, inv, status, x
  <2> QED BY <1>1, Zenon DEF IsStruct, Fields, Keeps
<1>3. \A k : at(k) = At(e, k)  BY DEF At
<1>4. \A i : resid(i) = Resid(e, i)
  <2> TAKE i
  <2>1. MapThenSumSet(LAMBDA k : A(e, k, i) * at(k), Core(e))
          = Total([k \in Core(e) |-> A(e, k, i) * at(k)], Core(e))
    BY DEF Total, MapThenSumSet, MapThenFoldSet
  <2>2. [k \in Core(e) |-> A(e, k, i) * at(k)] = [k \in Core(e) |-> A(e, k, i) * At(e, k)]
    BY <1>3
  <2> QED BY <2>1, <2>2, Zenon DEF Resid
<1>5. \A i : bySlack(i) <=> BySlack(e, i)
  <2> HIDE DEF resid
  <2> QED BY <1>4 DEF BySlack
<1>6. sign = [i \in Rows(e) |-> ArtSign(e, i)]
  <2> HIDE DEF resid, bySlack
  <2> QED BY <1>4, <1>5 DEF ArtSign
<1>7. basis = [i \in Rows(e) |-> Server(e, i)]
  <2> HIDE DEF bySlack
  <2> QED BY <1>5 DEF Server
<1>8. \A i \in Rows(e) : unit(i) = Unit0(e, i)
  <2> HIDE DEF bySlack, sign
  <2> QED BY <1>5, <1>6 DEF Unit0
<1>9. inv = [i \in Rows(e) |-> [t \in Rows(e) |-> IF t = i THEN Unit0(e, i) ELSE 0]]
  <2> HIDE DEF unit
  <2> QED BY <1>8
<1>10. basics = Serving(e)
  <2> HIDE DEF basis
  <2> QED BY <1>7 DEF Serving
<1>11. status = [k \in Columns(e) |->
                   IF k \in Serving(e) THEN "BASIC"
                   ELSE IF k \in Core(e) /\ e.l[k] <= -LP_INF THEN "NBU" ELSE "NBL"]
  <2> HIDE DEF basics
  <2> QED BY <1>10
<1>12. x = [k \in Columns(e) |-> IF k \in Serving(e) THEN Abs(Resid(e, k[2]))
                                 ELSE IF k \in Core(e) THEN At(e, k) ELSE 0]
  <2> HIDE DEF basics, at, resid
  <2> QED BY <1>3, <1>4, <1>10
<1> HIDE DEF sign, basis, inv, status, x
<1> QED BY <1>2, <1>6, <1>7, <1>9, <1>11, <1>12 DEF Started

(* What serves the rows: one column each, of coefficient 1 or -1.          *)
LEMMA ServersServe ==
  ASSUME NEW e, FormInv(e)
  PROVE  /\ \A i \in Rows(e) : /\ Server(e, i) \in Columns(e) /\ Server(e, i) \notin Core(e)
                               /\ Server(e, i)[2] = i /\ Unit0(e, i) \in {-1, 1}
                               /\ ArtSign(e, i) \in {-1, 1}
         /\ \A i, t \in Rows(e) : Server(e, i) = Server(e, t) => i = t
<1> SUFFICES ASSUME NEW i \in Rows(e)
             PROVE  /\ Server(e, i) \in Columns(e) /\ Server(e, i) \notin Core(e)
                    /\ Server(e, i)[2] = i /\ Unit0(e, i) \in {-1, 1} /\ ArtSign(e, i) \in {-1, 1}
  <2>1. \A i \in Rows(e) : Server(e, i)[2] = i  OBVIOUS
  <2> QED BY <2>1
<1>1. ArtSign(e, i) \in {-1, 1}  BY DEF ArtSign
<1>2. SlackSign(e.lp.rows[i]) \in {-1, 1}  BY Signs
<1>3. Unit0(e, i) \in {-1, 1}  BY <1>1, <1>2 DEF Unit0
<1>4. Server(e, i)[2] = i /\ Server(e, i)[1] \in {"s", "a"}  BY DEF Server
<1>5. Server(e, i) \in Columns(e)
  <2>1. CASE BySlack(e, i)
    <3>1. e.lp.rows[i].rel # "="  BY <2>1 DEF BySlack
    <3> QED BY <2>1, <3>1, ColumnKinds DEF Server
  <2>2. CASE ~BySlack(e, i)  BY <2>2, ColumnKinds DEF Server
  <2> QED BY <2>1, <2>2
<1>6. Server(e, i) \notin Core(e)  BY <1>4, <1>5, ColumnKinds
<1> QED BY <1>1, <1>3, <1>4, <1>5, <1>6

(* The token of an absent bound.                                           *)
LEMMA InfinityInt == LP_INF \in Nat \ {0}
BY SimplexAssumption

(* A core column starts at a bound it has.                                 *)
LEMMA AtFacts ==
  ASSUME NEW e, FormInv(e), BoxInv(e), ~e.rebuild_pending, NEW k \in Core(e)
  PROVE  /\ k \in Columns(e) /\ At(e, k) \in Int
         /\ e.l[k] <= -LP_INF => e.u[k] < LP_INF
<1>1. k \in Columns(e)  BY DEF Columns
<1>2. e.l[k] \in Int /\ e.u[k] \in Int  BY <1>1 DEF BoxInv
<1>3. At(e, k) \in Int  BY <1>2 DEF At
<1>4. ASSUME e.l[k] <= -LP_INF PROVE e.u[k] < LP_INF
  <2>1. CASE Own(e, k)
    <3>1. k[2] \in DOMAIN e.lp.c  BY <2>1 DEF Own, Core
    <3>2. e.l[k] = e.lp.l[k[2]] /\ e.u[k] = e.lp.u[k[2]] /\ e.split = Split(e.lp)
      BY <1>1, <2>1 DEF BoxInv
    <3>3. k[2] \notin Split(e.lp)  BY <2>1, <3>2 DEF Own
    <3>4. ~Free(e.l[k], e.u[k])  BY <3>1, <3>2, <3>3 DEF Split
    <3> QED BY <1>2, <1>4, <3>4, InfinityInt DEF Free
  <2>2. CASE ~Own(e, k)
    <3>1. e.l[k] = 0  BY <1>1, <2>2 DEF BoxInv
    <3> QED BY <1>4, <3>1, InfinityInt
  <2> QED BY <2>1, <2>2
<1> QED BY <1>1, <1>3, <1>4

(* Residuals are integers.                                                 *)
LEMMA ResidInt ==
  ASSUME NEW e, FormInv(e), BoxInv(e), ~e.rebuild_pending, NEW i \in Rows(e)
  PROVE  /\ Resid(e, i) \in Int
         /\ Total([k \in Core(e) |-> A(e, k, i) * At(e, k)], Core(e)) \in Int
         /\ Abs(e.lp.rows[i].b) \in Int
<1> DEFINE f == [k \in Core(e) |-> A(e, k, i) * At(e, k)]
<1>1. \A k \in Core(e) : f[k] \in Int
  <2> SUFFICES ASSUME NEW k \in Core(e) PROVE A(e, k, i) * At(e, k) \in Int  OBVIOUS
  <2>1. k \in Columns(e) /\ At(e, k) \in Int  BY AtFacts
  <2>2. A(e, k, i) \in Int  BY <2>1, CoefficientInt
  <2> QED BY <2>1, <2>2
<1>2. IsFiniteSet(Core(e))  BY ColumnsFinite
<1>3. Total(f, Core(e)) \in Int
  <2> HIDE DEF f
  <2> QED BY <1>1, <1>2, TotalInt
<1>4. Abs(e.lp.rows[i].b) \in Int  BY FormIsFinite DEF Abs
<1> QED BY <1>3, <1>4 DEF Resid

(* The columns that serve the rows make up the residuals.                  *)
LEMMA ServersFill ==
  ASSUME NEW e, FormInv(e), BoxInv(e), ~e.rebuild_pending, NEW r, Started(e, r), NEW i \in Rows(e)
  PROVE  (IF e.lp.rows[i].rel = "=" THEN 0
          ELSE SlackSign(e.lp.rows[i]) * r.x[<<"s", i>>]) + r.artSign[i] * r.x[<<"a", i>>]
           = Resid(e, i)
<1> DEFINE sg == SlackSign(e.lp.rows[i])
           z == Resid(e, i)
<1>1. z \in Int /\ sg \in {-1, 1}  BY ResidInt, Signs
<1>2. /\ <<"a", i>> \in Columns(e) /\ <<"a", i>> \notin Core(e)
      /\ e.lp.rows[i].rel # "=" => <<"s", i>> \in Columns(e) /\ <<"s", i>> \notin Core(e)
  BY ColumnKinds
<1>3. \A t \in Rows(e) : Server(e, t)[2] = t  BY ServersServe
<1>4. <<"s", i>> \in Serving(e) <=> BySlack(e, i)
  <2>1. ASSUME <<"s", i>> \in Serving(e) PROVE BySlack(e, i)
    <3>1. PICK t \in Rows(e) : <<"s", i>> = Server(e, t)  BY <2>1 DEF Serving
    <3>2. t = i  BY <1>3, <3>1
    <3> QED BY <3>1, <3>2 DEF Server
  <2>2. ASSUME BySlack(e, i) PROVE <<"s", i>> \in Serving(e)  BY <2>2 DEF Serving, Server
  <2> QED BY <2>1, <2>2
<1>5. <<"a", i>> \in Serving(e) <=> ~BySlack(e, i)
  <2>1. ASSUME <<"a", i>> \in Serving(e) PROVE ~BySlack(e, i)
    <3>1. PICK t \in Rows(e) : <<"a", i>> = Server(e, t)  BY <2>1 DEF Serving
    <3>2. t = i  BY <1>3, <3>1
    <3> QED BY <3>1, <3>2 DEF Server
  <2>2. ASSUME ~BySlack(e, i) PROVE <<"a", i>> \in Serving(e)  BY <2>2 DEF Serving, Server
  <2> QED BY <2>1, <2>2
<1>6. r.artSign[i] = ArtSign(e, i)  BY DEF Started
<1>7. /\ r.x[<<"a", i>>] = IF BySlack(e, i) THEN 0 ELSE Abs(z)
      /\ e.lp.rows[i].rel # "=" => r.x[<<"s", i>>] = IF BySlack(e, i) THEN Abs(z) ELSE 0
  <2>1. r.x[<<"a", i>>] = IF BySlack(e, i) THEN 0 ELSE Abs(z)
    BY <1>2, <1>5 DEF Started
  <2>2. ASSUME e.lp.rows[i].rel # "="
        PROVE  r.x[<<"s", i>>] = IF BySlack(e, i) THEN Abs(z) ELSE 0
    BY <1>2, <1>4, <2>2 DEF Started
  <2> QED BY <2>1, <2>2
<1>8. CASE BySlack(e, i)
  <2>1. e.lp.rows[i].rel # "=" /\ z * sg >= 0  BY <1>8 DEF BySlack
  <2>2. r.x[<<"a", i>>] = 0 /\ r.x[<<"s", i>>] = Abs(z) /\ r.artSign[i] = 1
    BY <1>6, <1>7, <1>8, <2>1 DEF ArtSign
  <2> HIDE DEF sg, z
  <2>3. sg * Abs(z) = z  BY <1>1, <2>1 DEF Abs
  <2> QED BY <1>1, <2>1, <2>2, <2>3 DEF sg, z, Abs
<1>9. CASE ~BySlack(e, i)
  <2>1. r.x[<<"a", i>>] = Abs(z) /\ r.artSign[i] = IF z >= 0 THEN 1 ELSE -1
    BY <1>6, <1>7, <1>9 DEF ArtSign
  <2>2. e.lp.rows[i].rel # "=" => r.x[<<"s", i>>] = 0  BY <1>7, <1>9
  <2> HIDE DEF z
  <2>3. r.artSign[i] * r.x[<<"a", i>>] = z  BY <1>1, <2>1 DEF Abs
  <2> HIDE DEF sg
  <2>4. sg * 0 = 0 BY <1>1
  <2> QED BY <1>1, <2>2, <2>3, <2>4 DEF sg, z
<1> QED BY <1>8, <1>9

(* The first basis and its inverse.                                        *)
LEMMA StartedBasis ==
  ASSUME NEW e, FormInv(e), NEW r, Started(e, r)
  PROVE  /\ r.lp = e.lp /\ r.split = e.split /\ FormInv(r)
         /\ Rows(r) = Rows(e) /\ Core(r) = Core(e) /\ Columns(r) = Columns(e)
         /\ Artificials(r) = Artificials(e)
         /\ \A k \in Core(e), i \in Rows(e) : A(r, k, i) = A(e, k, i)
         /\ Basic(r) = Serving(e) /\ BasisInv(r)
<1>1. r.lp = e.lp /\ r.split = e.split  BY DEF Started, Keeps, Fields
<1>2. /\ Rows(r) = Rows(e) /\ Core(r) = Core(e) /\ Columns(r) = Columns(e)
      /\ Artificials(r) = Artificials(e) /\ Slacks(r) = Slacks(e)
  BY <1>1 DEF Rows, Core, Slacks, Artificials, Columns
<1>3. \A i \in Rows(e) : /\ Server(e, i) \in Columns(e) /\ Server(e, i) \notin Core(e)
                         /\ Server(e, i)[2] = i /\ Unit0(e, i) \in {-1, 1}
                         /\ ArtSign(e, i) \in {-1, 1}
  BY ServersServe
<1>4. r.artSign \in [Rows(e) -> {-1, 1}]  BY <1>3 DEF Started
<1>5. FormInv(r)  BY <1>1, <1>2, <1>4 DEF FormInv
<1>6. \A k \in Core(e), i \in Rows(e) : A(r, k, i) = A(e, k, i)
  BY <1>1 DEF A, Core
<1>7. \A i \in Rows(e) : r.basis[i] = Server(e, i)  BY DEF Started
<1>8. Basic(r) = Serving(e)  BY <1>2, <1>7 DEF Basic, Serving
<1>9. r.basis \in [Rows(e) -> Columns(e)]  BY <1>3 DEF Started
<1>10. \A i, t \in Rows(e) : r.basis[i] = r.basis[t] => i = t
  BY <1>7, ServersServe
<1>11. r.inv \in [Rows(e) -> [Rows(e) -> {-1, 0, 1}]]
  BY <1>3 DEF Started
<1>12. /\ r.status \in [Columns(e) -> {"BASIC", "NBL", "NBU", "REMOVED"}]
       /\ \A k \in Columns(e) : r.status[k] = "BASIC" <=> k \in Serving(e)
       /\ \A k \in Columns(e) : r.status[k] # "REMOVED"
  BY DEF Started
<1> DEFINE u == [i \in Rows(e) |-> Unit0(e, i)]
<1>13. \A i \in Rows(e) : u[i] \in {-1, 1}  BY <1>3
<1>14. Diagonal(r.inv, u, Rows(e))  BY DEF Diagonal, Started
<1>15. ASSUME NEW t \in Rows(e), NEW i \in Rows(e)
       PROVE  BasisMatrix(r)[t][i] = IF i = t THEN u[t] ELSE 0
  <2>1. BasisMatrix(r)[t][i] = A(r, Server(e, t), i)
    BY <1>2, <1>7 DEF BasisMatrix, Column
  <2>2. CASE BySlack(e, t)
    <3>1. A(r, <<"s", t>>, i) = IF t = i THEN SlackSign(e.lp.rows[i]) ELSE 0
      BY <1>1 DEF A
    <3> QED BY <2>1, <2>2, <3>1 DEF Server, Unit0
  <2>3. CASE ~BySlack(e, t)
    <3>1. A(r, <<"a", t>>, i) = IF t = i THEN r.artSign[i] ELSE 0
      BY DEF A
    <3>2. r.artSign[i] = ArtSign(e, i)  BY DEF Started
    <3> QED BY <2>1, <2>3, <3>1, <3>2 DEF Server, Unit0
  <2> QED BY <2>2, <2>3
<1>16. Diagonal(BasisMatrix(r), u, Rows(e))  BY <1>15 DEF Diagonal
<1>17. /\ IsLeftInverse(r.inv, BasisMatrix(r), Rows(e))
       /\ IsRightInverse(r.inv, BasisMatrix(r), Rows(e))
  <2> DEFINE G == r.inv
             B == BasisMatrix(r)
             R == Rows(e)
  <2>1. Diagonal(G, u, R) /\ Diagonal(B, u, R)  BY <1>14, <1>16
  <2>2. IsFiniteSet(R)  BY FormIsFinite
  <2> HIDE DEF u, G, B, R
  <2>3. \A i \in R : u[i] \in {-1, 1}  BY <1>13 DEF R
  <2>4. IsLeftInverse(G, B, R) /\ IsRightInverse(G, B, R)
    BY <2>1, <2>2, <2>3, DiagonalInverts
  <2> QED BY <2>4 DEF G, B, R
<1>18. BasisInv(r)
  BY <1>2, <1>8, <1>9, <1>10, <1>11, <1>12, <1>17 DEF BasisInv
<1> QED BY <1>1, <1>2, <1>5, <1>6, <1>8, <1>18

(* The rows hold at the first basis.                                       *)
LEMMA StartedRows ==
  ASSUME NEW e, FormInv(e), BoxInv(e), ~e.rebuild_pending, NEW r, Started(e, r)
  PROVE  r.x \in [Columns(e) -> Int] /\ RowsHold(r)
<1>1. /\ r.lp = e.lp /\ r.split = e.split /\ FormInv(r)
      /\ Rows(r) = Rows(e) /\ Core(r) = Core(e) /\ Columns(r) = Columns(e)
      /\ \A k \in Core(e), i \in Rows(e) : A(r, k, i) = A(e, k, i)
  BY StartedBasis
<1>2. \A k \in Core(e) : k \notin Serving(e)
  <2>1. \A i \in Rows(e) : Server(e, i) \notin Core(e)  BY ServersServe
  <2> QED BY <2>1 DEF Serving
<1>3. \A k \in Core(e) : r.x[k] = At(e, k)
  <2>1. \A k \in Core(e) : k \in Columns(e)  BY DEF Columns
  <2> QED BY <1>2, <2>1 DEF Started
<1>4. r.x \in [Columns(e) -> Int]
  <2>1. ASSUME NEW k \in Columns(e)
        PROVE (IF k \in Serving(e) THEN Abs(Resid(e, k[2]))
               ELSE IF k \in Core(e) THEN At(e, k) ELSE 0) \in Int
    <3>1. ASSUME k \in Serving(e) PROVE Abs(Resid(e, k[2])) \in Int
      <4>1. k[2] \in Rows(e)  BY <3>1, ServersServe DEF Serving
      <4>2. Resid(e, k[2]) \in Int  BY <4>1, ResidInt
      <4> QED BY <4>2 DEF Abs
    <3>2. k \in Core(e) => At(e, k) \in Int  BY AtFacts
    <3> QED BY <3>1, <3>2
  <2> QED BY <2>1 DEF Started
<1>5. Present(r) = r.x
  <2>1. \A k \in Columns(e) : r.status[k] # "REMOVED"  BY DEF Started
  <2>2. Present(r) = [k \in Columns(e) |-> r.x[k]]  BY <1>1, <2>1 DEF Present
  <2> QED BY <1>4, <2>2
<1>6. ASSUME NEW i \in Rows(e)
      PROVE  RowSum(r, r.x, i) = Abs(e.lp.rows[i].b)
  <2> DEFINE f == [k \in Columns(r) |-> A(r, k, i) * r.x[k]]
             g == [k \in Core(e) |-> A(e, k, i) * At(e, k)]
  <2>1. \A k \in Columns(r) : f[k] \in Int
    <3> SUFFICES ASSUME NEW k \in Columns(r) PROVE A(r, k, i) * r.x[k] \in Int  OBVIOUS
    <3>1. A(r, k, i) \in Int  BY <1>1, CoefficientInt
    <3>2. r.x[k] \in Int  BY <1>1, <1>4
    <3> QED BY <3>1, <3>2
  <2>2. \A k \in Columns(r) : k[1] \in {"s", "a"} /\ k[2] # i => f[k] = 0
    <3> SUFFICES ASSUME NEW k \in Columns(r), k[1] \in {"s", "a"}, k[2] # i PROVE f[k] = 0  OBVIOUS
    <3>1. A(r, k, i) = 0  BY DEF A
    <3>2. r.x[k] \in Int  BY <1>1, <1>4
    <3> QED BY <3>1, <3>2
  <2>3. Total(f, Columns(r)) = Total(Joined(r, f), DOMAIN r.lp.c)
           + (IF r.lp.rows[i].rel = "=" THEN 0 ELSE f[<<"s", i>>]) + f[<<"a", i>>]
    <3> HIDE DEF f
    <3> QED BY <1>1, <2>1, <2>2, RowDecomposes
  <2>4. \A k \in Core(r) : f[k] \in Int /\ k \in Columns(r)  BY <2>1 DEF Columns
  <2>5. Total(f, Core(r)) = Total(Joined(r, f), DOMAIN r.lp.c)
    <3> HIDE DEF f
    <3> QED BY <1>1, <2>4, CoreSum
  <2>6. Total(f, Core(r)) = Total(g, Core(e))
    <3>1. \A k \in Core(e) : f[k] = g[k]  BY <1>1, <1>3, <2>4
    <3>2. IsFiniteSet(Core(e))  BY ColumnsFinite
    <3> HIDE DEF f, g
    <3> QED BY <1>1, <3>1, <3>2, TotalAgrees
  <2>7. f[<<"a", i>>] = r.artSign[i] * r.x[<<"a", i>>]
    <3>1. <<"a", i>> \in Columns(r)  BY <1>1, ColumnKinds
    <3> QED BY <3>1 DEF A
  <2>8. e.lp.rows[i].rel # "=" => f[<<"s", i>>] = SlackSign(e.lp.rows[i]) * r.x[<<"s", i>>]
    <3>1. e.lp.rows[i].rel # "=" => <<"s", i>> \in Columns(r)  BY <1>1, ColumnKinds
    <3> QED BY <1>1, <3>1 DEF A
  <2>9. (IF e.lp.rows[i].rel = "=" THEN 0
          ELSE SlackSign(e.lp.rows[i]) * r.x[<<"s", i>>]) + r.artSign[i] * r.x[<<"a", i>>]
           = Resid(e, i)
    BY ServersFill
  <2>10. /\ Resid(e, i) = Abs(e.lp.rows[i].b) - Total(g, Core(e))
         /\ Total(g, Core(e)) \in Int /\ Abs(e.lp.rows[i].b) \in Int
    BY ResidInt DEF Resid
  <2>11. (IF r.lp.rows[i].rel = "=" THEN 0 ELSE f[<<"s", i>>]) + f[<<"a", i>>] = Resid(e, i)
    <3> HIDE DEF f
    <3> QED BY <1>1, <2>7, <2>8, <2>9
  <2>12. (IF r.lp.rows[i].rel = "=" THEN 0 ELSE f[<<"s", i>>]) \in Int /\ f[<<"a", i>>] \in Int
    <3>1. /\ <<"a", i>> \in Columns(r)
          /\ e.lp.rows[i].rel # "=" => <<"s", i>> \in Columns(r)
      BY <1>1, ColumnKinds
    <3> HIDE DEF f
    <3> QED BY <1>1, <2>1, <3>1
  <2>13. RowSum(r, r.x, i) = Total(f, Columns(r))  BY DEF RowSum
  <2> HIDE DEF f, g
  <2> QED BY <2>3, <2>5, <2>6, <2>10, <2>11, <2>12, <2>13
<1>7. RowsHold(r)
  <2>1. Rows(r) = Rows(e)  BY <1>1
  <2> QED BY <1>1, <1>5, <1>6, <2>1 DEF RowsHold
<1> QED BY <1>4, <1>7

(* InitialBasis leaves every parked column at its bound.                   *)
LEMMA StartedStands ==
  ASSUME NEW e, FormInv(e), BoxInv(e), ~e.rebuild_pending, NEW r, Started(e, r)
  PROVE  BoxInv(r) /\ ValuesInv(r) /\ Stands(r)
<1>1. /\ r.lp = e.lp /\ r.split = e.split /\ FormInv(r)
      /\ Rows(r) = Rows(e) /\ Core(r) = Core(e) /\ Columns(r) = Columns(e)
      /\ Basic(r) = Serving(e) /\ BasisInv(r)
  BY StartedBasis
<1>2. r.l = e.l /\ r.u = e.u /\ r.rebuild_pending = e.rebuild_pending
  BY DEF Started, Keeps, Fields
<1>3. BoxInv(r)
  <2>1. \A k : Own(r, k) <=> Own(e, k)  BY <1>1 DEF Own
  <2> QED BY <1>1, <1>2, <2>1 DEF BoxInv
<1>4. AtBounds(r)
  <2> SUFFICES ASSUME NEW k \in Parked(r)
               PROVE  IF r.status[k] = "NBL" THEN r.x[k] = r.l[k] /\ r.l[k] > -LP_INF
                                             ELSE r.x[k] = r.u[k] /\ r.u[k] < LP_INF
    BY DEF AtBounds
  <2>1. k \in Columns(e) /\ r.status[k] \in {"NBL", "NBU"}  BY <1>1 DEF Parked
  <2>2. k \notin Serving(e)  BY <2>1 DEF Started
  <2>3. e.l[k] \in Int /\ e.u[k] \in Int  BY <2>1 DEF BoxInv
  <2>4. CASE k \in Core(e)
    <3>1. r.x[k] = At(e, k)  BY <2>1, <2>2, <2>4 DEF Started
    <3>2. r.status[k] = IF e.l[k] <= -LP_INF THEN "NBU" ELSE "NBL"
      BY <2>1, <2>2, <2>4 DEF Started
    <3>3. e.l[k] <= -LP_INF => e.u[k] < LP_INF  BY <2>4, AtFacts
    <3> QED BY <1>2, <2>3, <3>1, <3>2, <3>3, InfinityInt DEF At
  <2>5. CASE k \notin Core(e)
    <3>1. r.x[k] = 0 /\ r.status[k] = "NBL"  BY <2>1, <2>2, <2>5 DEF Started
    <3>2. k[1] # "x"  BY <2>1, <2>5, ColumnKinds
    <3>3. e.l[k] = 0  BY <2>1, <3>2 DEF BoxInv, Own
    <3> QED BY <1>2, <3>1, <3>3, InfinityInt
  <2> QED BY <2>4, <2>5
<1>5. r.x \in [Columns(e) -> Int] /\ RowsHold(r)  BY StartedRows
<1>6. ValuesInv(r)  BY <1>1, <1>3, <1>4, <1>5, ParkedSmall DEF ValuesInv
<1> QED BY <1>3, <1>4, <1>5, <1>6 DEF Stands

(* The restart of Phase I, and the last step of solver_create.             *)
LEMMA InitialBasisKeeps ==
  ASSUME NEW e, IsStruct(e), FormInv(e), BoxInv(e), CostInv(e), ~e.rebuild_pending,
         NEW r, r = InitialBasis(e)
  PROVE  /\ StructInv(r) /\ Stands(r) /\ (EmptyBox(r) <=> EmptyBox(e))
         /\ Keeps(r, e, {"artSign", "basis", "inv", "status", "x"})
         /\ PhaseOneCost(r) = PhaseOneCost(e) /\ TrueCost(r) = TrueCost(e)
<1>1. Started(e, r)  BY InitialBasisIs
<1>2. /\ r.lp = e.lp /\ r.split = e.split /\ FormInv(r) /\ BasisInv(r) /\ Columns(r) = Columns(e)
  BY <1>1, StartedBasis
<1>3. BoxInv(r) /\ ValuesInv(r) /\ Stands(r)  BY <1>1, StartedStands
<1>4. IsStruct(r) /\ Keeps(r, e, {"artSign", "basis", "inv", "status", "x"})
  BY <1>1 DEF Started
<1>5. r.c0 = e.c0 /\ r.cobj = e.cobj /\ r.l = e.l /\ r.u = e.u  BY <1>4 DEF Keeps, Fields
<1>6. TrueCost(r) = TrueCost(e) /\ PhaseOneCost(r) = PhaseOneCost(e)
  BY <1>2 DEF TrueCost, PhaseOneCost
<1>7. CostInv(r)  BY <1>5, <1>6 DEF CostInv
<1>8. EmptyBox(r) <=> EmptyBox(e)  BY <1>2, <1>5 DEF EmptyBox
<1> QED BY <1>2, <1>3, <1>4, <1>6, <1>7, <1>8 DEF StructInv

(* A struct just created for lp.                                           *)
LEMMA CreateKeeps ==
  ASSUME NEW lp, LinearProgram(lp), NEW r, r = solver_create(lp)
  PROVE  /\ StructInv(r) /\ Stands(r) /\ r.lp = lp /\ r.rebuild_pending = FALSE /\ r.lane = "idle"
         /\ ~r.farkas_ok /\ ~r.dfarkas_ok /\ r.unb_ray = NoRay
<1> DEFINE sign == [i \in DOMAIN lp.rows |-> 1]
           zero == [i \in DOMAIN lp.rows |-> 0]
           blank == [lp |-> lp, split |-> Split(lp),
                rebuild_pending |-> FALSE, artSign |-> sign,
                l |-> <<>>, u |-> <<>>, c0 |-> <<>>, cobj |-> <<>>,
                basis |-> <<>>, inv |-> <<>>, status |-> <<>>, x |-> <<>>,
                iters |-> 0, carried |-> 0, local |-> 0, restarted |-> FALSE,
                lane |-> "idle", status_out |-> 0,
                farkas_ok |-> FALSE, dfarkas_ok |-> FALSE, dfarkas_ray |-> NoRay,
                unb_ray |-> NoRay, objval |-> 0, duals |-> zero]
           L == [k \in Columns(blank) |-> IF k[1] = "x" /\ k[2] \notin blank.split
                                          THEN blank.lp.l[k[2]] ELSE 0]
           U == [k \in Columns(blank) |-> IF k[1] = "x" /\ k[2] \notin blank.split
                                          THEN blank.lp.u[k[2]] ELSE LP_INF]
           bounded == [blank EXCEPT !.l = L, !.u = U]
           c == TrueCost(bounded)
           one == PhaseOneCost(bounded)
           costed == [bounded EXCEPT !.c0 = c, !.cobj = one]
<1>1. r = InitialBasis(costed)  BY DEF solver_create, ColumnBounds
<1> HIDE DEF sign, zero
<1>2. IsStruct(blank)  BY DEF IsStruct, Fields
<1>3. /\ blank.lp = lp /\ blank.split = Split(lp) /\ blank.rebuild_pending = FALSE
      /\ blank.artSign = sign /\ blank.lane = "idle" /\ ~blank.farkas_ok /\ ~blank.dfarkas_ok
      /\ blank.unb_ray = NoRay
  OBVIOUS
<1> HIDE DEF blank
<1>4. IsStruct(bounded) /\ Keeps(bounded, blank, {"l", "u"}) /\ bounded.l = L /\ bounded.u = U
  <2> HIDE DEF L, U
  <2> QED BY <1>2, Zenon DEF IsStruct, Fields, Keeps
<1> HIDE DEF bounded
<1>5. /\ IsStruct(costed) /\ Keeps(costed, bounded, {"c0", "cobj"})
      /\ costed.c0 = c /\ costed.cobj = one
  <2> HIDE DEF c, one
  <2> QED BY <1>4, Zenon DEF IsStruct, Fields, Keeps
<1> HIDE DEF costed
<1>6. /\ costed.lp = lp /\ costed.split = Split(lp) /\ costed.rebuild_pending = FALSE
      /\ costed.artSign = sign /\ costed.lane = "idle" /\ ~costed.farkas_ok /\ ~costed.dfarkas_ok
      /\ costed.unb_ray = NoRay /\ costed.l = L /\ costed.u = U
  <2> HIDE DEF L, U, c, one
  <2> QED BY <1>3, <1>4, <1>5 DEF Keeps, Fields
<1>7. /\ bounded.lp = lp /\ bounded.split = Split(lp) /\ bounded.artSign = sign
  <2> HIDE DEF L, U
  <2> QED BY <1>3, <1>4 DEF Keeps, Fields
<1>8. /\ Columns(costed) = Columns(bounded) /\ Columns(blank) = Columns(bounded)
      /\ Rows(costed) = DOMAIN lp.rows
      /\ TrueCost(costed) = c /\ PhaseOneCost(costed) = one
  <2>1. Columns(costed) = Columns(bounded) /\ Columns(blank) = Columns(bounded)
        /\ Rows(costed) = DOMAIN lp.rows
    BY <1>3, <1>6, <1>7 DEF Columns, Core, Slacks, Artificials, Rows
  <2> QED BY <2>1, <1>6, <1>7, SameProgram
<1>9. /\ DOMAIN lp.rows = 1 .. Len(lp.rows) /\ lp.l \in [DOMAIN lp.c -> Int]
      /\ lp.u \in [DOMAIN lp.c -> Int]
  BY ProgramFacts
<1>10. FormInv(costed)
  <2>1. Split(lp) \subseteq DOMAIN lp.c  BY DEF Split
  <2>2. sign \in [DOMAIN lp.rows -> {-1, 1}]  BY DEF sign
  <2> QED BY <1>6, <1>8, <2>1, <2>2 DEF FormInv
<1>11. \A k \in Columns(costed) : Own(costed, k) <=> (k[1] = "x" /\ k[2] \notin Split(lp))
  BY <1>6 DEF Own
<1>12. \A k \in Columns(costed) :
         IF k[1] = "x" /\ k[2] \notin Split(lp)
         THEN L[k] = lp.l[k[2]] /\ U[k] = lp.u[k[2]] ELSE L[k] = 0 /\ U[k] = LP_INF
  BY <1>3, <1>8
<1>13. \A k \in Columns(costed) : k[1] = "x" => k[2] \in DOMAIN lp.c
  BY <1>6 DEF Columns, Core, Slacks, Artificials
<1>14. \A j \in DOMAIN lp.c : /\ lp.l[j] <= -LP_INF \/ Small(lp.l[j])
                              /\ lp.u[j] >= LP_INF \/ Small(lp.u[j])
  BY ProgramFacts DEF LinearProgram, Box
<1>15. L \in [Columns(costed) -> Int] /\ U \in [Columns(costed) -> Int]
  <2>1. \A k \in Columns(costed) : L[k] \in Int /\ U[k] \in Int
    <3> HIDE DEF L, U
    <3> QED BY <1>9, <1>12, <1>13, InfinityInt
  <2>2. L = [k \in Columns(costed) |-> L[k]] /\ U = [k \in Columns(costed) |-> U[k]]  BY <1>8
  <2> HIDE DEF L, U
  <2> QED BY <2>1, <2>2
<1>16. BoxInv(costed)
  <2> HIDE DEF L, U
  <2>1. ASSUME NEW k \in Columns(costed)
        PROVE  IF Own(costed, k)
               THEN /\ costed.l[k] <= -LP_INF \/ Small(costed.l[k])
                    /\ costed.u[k] >= LP_INF \/ Small(costed.u[k])
                    /\ costed.l[k] = costed.lp.l[k[2]] /\ costed.u[k] = costed.lp.u[k[2]]
               ELSE costed.l[k] = 0 /\ costed.u[k] = LP_INF
    BY <1>6, <1>11, <1>12, <1>13, <1>14
  <2>2. costed.l \in [Columns(costed) -> Int] /\ costed.u \in [Columns(costed) -> Int]
    BY <1>6, <1>15
  <2>3. costed.split = Split(costed.lp)  BY <1>6
  <2> QED BY <2>1, <2>2, <2>3 DEF BoxInv
<1>17. CostInv(costed)  BY <1>5, <1>8 DEF CostInv
<1>18. ~costed.rebuild_pending  BY <1>6
<1>19. /\ StructInv(r) /\ Stands(r)
       /\ Keeps(r, costed, {"artSign", "basis", "inv", "status", "x"})
  BY <1>1, <1>5, <1>10, <1>16, <1>17, <1>18, InitialBasisKeeps
<1>20. /\ r.lp = lp /\ r.rebuild_pending = FALSE /\ r.lane = "idle"
       /\ ~r.farkas_ok /\ ~r.dfarkas_ok /\ r.unb_ray = NoRay
  <2> HIDE DEF L, U
  <2> QED BY <1>6, <1>19 DEF Keeps, Fields
<1> QED BY <1>19, <1>20

(* What the status and the evidence of an idle struct say of its program.  *)
Judged(e) ==
  LET x == Unsplit(e, e.x) IN
  /\ e.status_out = 0 =>
       /\ Feasible(e.lp, x)
       /\ \A p \in [DOMAIN e.lp.c -> Int] :
            Feasible(e.lp, p) => Gain(e.lp, Value(e.lp, p)) <= Gain(e.lp, Value(e.lp, x))
       /\ \A d \in [DOMAIN e.lp.c -> Int] : ~Improving(e.lp, d)
       /\ Gain(e.lp, Value(e.lp, x)) = e.objval
  /\ e.status_out = 1 => \A p \in [DOMAIN e.lp.c -> Int] : ~Feasible(e.lp, p)
  /\ e.status_out = 2 => Feasible(e.lp, x) /\ e.unb_ray # NoRay
  /\ e.farkas_ok => e.status_out = 1 /\ Refutes(e.lp, Signed(e, Duals(e)))
  /\ e.dfarkas_ok => e.status_out = 1 /\ Refutes(e.lp, Signed(e, e.dfarkas_ray))
  /\ e.unb_ray # NoRay =>
       e.status_out \in {2, 5} /\ Improving(e.lp, Unsplit(e, e.unb_ray))

(* What every step of a solve leaves behind.                               *)
Outcome(r) ==
  /\ StructInv(r) /\ r.rebuild_pending = FALSE
  /\ \/ r.lane \in {"phase1", "phase2", "primal", "dual"} /\ RunningInv(r)
     \/ r.lane = "idle" /\ (Stands(r) \/ EmptyBox(r)) /\ Judged(r)

(* An empty box has no point.                                              *)
LEMMA EmptyBoxRefutes ==
  ASSUME NEW e, FormInv(e), BoxInv(e), ~e.rebuild_pending, EmptyBox(e),
         NEW p \in [DOMAIN e.lp.c -> Int]
  PROVE  ~Feasible(e.lp, p)
<1>1. PICK k \in Columns(e) : e.l[k] > e.u[k]  BY DEF EmptyBox
<1>2. e.l[k] \in Int /\ e.u[k] \in Int  BY DEF BoxInv
<1>3. Own(e, k)
  <2>1. ~Own(e, k) => e.l[k] = 0 /\ (e.u[k] = LP_INF \/ e.u[k] = 0)  BY DEF BoxInv
  <2> QED BY <1>1, <2>1, InfinityInt
<1>4. /\ e.l[k] = e.lp.l[k[2]] /\ e.u[k] = e.lp.u[k[2]]
      /\ e.l[k] <= -LP_INF \/ Small(e.l[k])
      /\ e.u[k] >= LP_INF \/ Small(e.u[k])
  BY <1>3 DEF BoxInv
<1>5. k[2] \in DOMAIN e.lp.c
  <2>1. k[1] = "x"  BY <1>3 DEF Own
  <2> QED BY <2>1, ColumnKinds
<1>6. e.l[k] > -LP_INF /\ e.u[k] < LP_INF
  BY <1>1, <1>2, <1>4, InfinityInt DEF Small, Abs
<1>7. p[k[2]] \in Int  BY <1>5
<1> QED BY <1>1, <1>2, <1>4, <1>5, <1>6, <1>7, InfinityInt DEF Feasible

(* A solve that finds the box empty.                                       *)
LEMMA EmptyBoxReturns ==
  ASSUME NEW e, StructInv(e), e.rebuild_pending = FALSE, EmptyBox(e),
         ~e.farkas_ok, ~e.dfarkas_ok, e.unb_ray = NoRay, NEW r, r = Return(e, 1)
  PROVE  Outcome(r) /\ r.lp = e.lp
<1>1. IsStruct(e) /\ FormInv(e) /\ BoxInv(e)  BY DEF StructInv
<1>2. /\ IsStruct(r) /\ r.lane = "idle" /\ r.status_out = 1
      /\ Keeps(r, e, {"lane", "status_out", "iters", "carried"})
  BY <1>1, ReturnIs
<1>3. Keeps(r, e, Aside)  BY <1>2 DEF Keeps, Aside
<1>4. /\ r.lp = e.lp /\ r.split = e.split /\ r.artSign = e.artSign /\ r.l = e.l /\ r.u = e.u
      /\ r.rebuild_pending = e.rebuild_pending /\ r.c0 = e.c0 /\ r.cobj = e.cobj
      /\ r.basis = e.basis /\ r.inv = e.inv /\ r.status = e.status /\ r.x = e.x
  BY <1>3, AsideFields
<1>5. StructInv(r) /\ EmptyBox(r)  BY <1>2, <1>4, AsideKeeps
<1>6. ~r.farkas_ok /\ ~r.dfarkas_ok /\ r.unb_ray = NoRay  BY <1>2 DEF Keeps, Fields
<1>7. \A p \in [DOMAIN r.lp.c -> Int] : ~Feasible(r.lp, p)
  BY <1>1, <1>4, EmptyBoxRefutes
<1>8. Judged(r)  BY <1>2, <1>6, <1>7 DEF Judged
<1> QED BY <1>2, <1>4, <1>5, <1>8 DEF Outcome

(* solver_solve on a struct that stands.                                   *)
LEMMA SolveFromKeeps ==
  ASSUME NEW e, StructInv(e), e.rebuild_pending = FALSE, Stands(e) \/ EmptyBox(e),
         NEW r, r = SolveFrom(e)
  PROVE  Outcome(r) /\ r.lp = e.lp
<1> DEFINE c == ClearEvidence(e)
<1>1. IsStruct(e)  BY DEF StructInv
<1>2. /\ IsStruct(c) /\ ~c.farkas_ok /\ ~c.dfarkas_ok /\ c.unb_ray = NoRay
      /\ Keeps(c, e, {"farkas_ok", "dfarkas_ok", "unb_ray"})
  <2> HIDE DEF c
  <2> QED BY <1>1, ClearIs DEF c
<1>3. r = IF EmptyBox(c) THEN Return(c, 1)
          ELSE IF \E k \in Basic(c) : k[1] = "a"
          THEN [c EXCEPT !.lane = "phase1", !.cobj = PhaseOneCost(c), !.restarted = FALSE]
          ELSE EnterPhaseTwo(c)
  BY DEF SolveFrom
<1> HIDE DEF c
<1>4. Keeps(c, e, Aside)  BY <1>2 DEF Keeps, Aside
<1>5. /\ c.lp = e.lp /\ c.split = e.split /\ c.artSign = e.artSign /\ c.l = e.l /\ c.u = e.u
      /\ c.rebuild_pending = e.rebuild_pending /\ c.c0 = e.c0 /\ c.cobj = e.cobj
      /\ c.basis = e.basis /\ c.inv = e.inv /\ c.status = e.status /\ c.x = e.x
  BY <1>4, AsideFields
<1>6. StructInv(c) /\ (Stands(e) => Stands(c)) /\ (EmptyBox(c) <=> EmptyBox(e))
  BY <1>2, <1>5, AsideKeeps
<1>7. CASE EmptyBox(c)
  BY <1>2, <1>3, <1>5, <1>6, <1>7, EmptyBoxReturns
<1>8. CASE ~EmptyBox(c) /\ \E k \in Basic(c) : k[1] = "a"
  <2> DEFINE one == PhaseOneCost(c)
  <2>1. r = [c EXCEPT !.lane = "phase1", !.cobj = one, !.restarted = FALSE]
    BY <1>3, <1>8
  <2>2. /\ IsStruct(r) /\ Keeps(r, c, {"lane", "cobj", "restarted"})
        /\ r.lane = "phase1" /\ r.cobj = one
    <3> HIDE DEF one
    <3> QED BY <1>2, <2>1, Zenon DEF IsStruct, Fields, Keeps
  <2>3. /\ r.lp = c.lp /\ r.split = c.split /\ r.artSign = c.artSign /\ r.l = c.l /\ r.u = c.u
        /\ r.rebuild_pending = c.rebuild_pending /\ r.c0 = c.c0
        /\ r.basis = c.basis /\ r.inv = c.inv /\ r.status = c.status /\ r.x = c.x
        /\ ~r.farkas_ok /\ ~r.dfarkas_ok /\ r.unb_ray = NoRay
    <3> HIDE DEF one
    <3> QED BY <1>2, <2>2 DEF Keeps, Fields
  <2>4. r.cobj \in {TrueCost(c), PhaseOneCost(c)}  BY <2>2
  <2>5. /\ StructInv(r) /\ (Stands(c) => Stands(r)) /\ (EmptyBox(r) <=> EmptyBox(c))
        /\ PhaseOneCost(r) = PhaseOneCost(c)
    BY <1>6, <2>2, <2>3, <2>4, AsideKeeps
  <2>6. Stands(r) /\ ~EmptyBox(r)  BY <1>6, <1>8, <2>5
  <2>7. RunningInv(r)
    BY <1>5, <2>2, <2>3, <2>5, <2>6 DEF RunningInv
  <2> QED BY <1>5, <2>2, <2>3, <2>5, <2>7 DEF Outcome
<1>9. CASE ~EmptyBox(c) /\ ~\E k \in Basic(c) : k[1] = "a"
  <2>1. r = EnterPhaseTwo(c)  BY <1>3, <1>9
  <2>2. BasicPinned(c)  BY <1>9 DEF BasicPinned
  <2>3. AtBounds(c) /\ ~c.rebuild_pending  BY <1>5, <1>6, <1>9 DEF Stands
  <2>4. StructInv(r) /\ RunningInv(r) /\ r.lp = c.lp /\ r.lane = "phase2"
    BY <1>2, <1>6, <1>9, <2>1, <2>2, <2>3, EnterPhaseTwoIs
  <2>5. r.rebuild_pending = c.rebuild_pending
    <3> DEFINE st == [k \in Columns(c) |->
                            IF k[1] = "a" /\ c.status[k] # "BASIC" THEN "REMOVED" ELSE c.status[k]]
               m == [c EXCEPT !.status = st, !.cobj = c.c0, !.lane = "phase2"]
    <3>1. r = recompute_basic(m)  BY <2>1 DEF EnterPhaseTwo
    <3>2. m.rebuild_pending = c.rebuild_pending
      <4> HIDE DEF st
      <4> QED BY <1>2 DEF IsStruct, Fields
    <3> HIDE DEF m
    <3>3. IsStruct(m)
      <4> HIDE DEF st
      <4> QED BY <1>2 DEF IsStruct, Fields, m
    <3>4. r.rebuild_pending = m.rebuild_pending
      <4> DEFINE rest == [i \in Rows(m) |-> Abs(m.lp.rows[i].b)
                 - MapThenSumSet(LAMBDA k : A(m, k, i) * m.x[k], Parked(m))]
                 xB == Ftran(m, rest)
                 X == [k \in Columns(m) |->
         IF k \in Basic(m) THEN xB[CHOOSE i \in Rows(m) : m.basis[i] = k] ELSE m.x[k]]
      <4>1. r = [m EXCEPT !.x = X]  BY <3>1, Zenon DEF recompute_basic
      <4> HIDE DEF X
      <4> QED BY <3>3, <4>1 DEF IsStruct, Fields
    <3> QED BY <3>2, <3>4
  <2> QED BY <1>5, <2>4, <2>5 DEF Outcome
<1> QED BY <1>7, <1>8, <1>9

(* The exported problem, created and solved anew.                          *)
LEMMA RefreshKeeps ==
  ASSUME NEW e, LinearProgram(e.lp), NEW r, r = solver_refresh(e)
  PROVE  Outcome(r) /\ r.lp = e.lp
<1> DEFINE c == solver_create(e.lp)
           m == [c EXCEPT !.carried = e.iters]
<1>1. r = SolveFrom(m)  BY DEF solver_refresh
<1>2. StructInv(c) /\ Stands(c) /\ c.lp = e.lp /\ c.rebuild_pending = FALSE
  <2> HIDE DEF c
  <2> QED BY CreateKeeps DEF c
<1> HIDE DEF c
<1>3. IsStruct(m) /\ Keeps(m, c, {"carried"})
  <2>1. IsStruct(c)  BY <1>2 DEF StructInv
  <2> QED BY <2>1 DEF IsStruct, Fields, Keeps
<1> HIDE DEF m
<1>4. Keeps(m, c, Aside)  BY <1>3 DEF Keeps, Aside
<1>5. /\ m.lp = c.lp /\ m.split = c.split /\ m.artSign = c.artSign /\ m.l = c.l /\ m.u = c.u
      /\ m.rebuild_pending = c.rebuild_pending /\ m.c0 = c.c0 /\ m.cobj = c.cobj
      /\ m.basis = c.basis /\ m.inv = c.inv /\ m.status = c.status /\ m.x = c.x
  BY <1>4, AsideFields
<1>6. StructInv(m) /\ Stands(m)  BY <1>2, <1>3, <1>5, AsideKeeps
<1>7. Outcome(r) /\ r.lp = m.lp  BY <1>1, <1>2, <1>5, <1>6, SolveFromKeeps
<1> QED BY <1>2, <1>5, <1>7

(* The bound a repaired column goes to.                                    *)
Clamped(e, k) == IF e.x[k] < e.l[k] THEN e.l[k] ELSE IF e.x[k] > e.u[k] THEN e.u[k] ELSE e.x[k]

(* Whether that is the lower one.                                          *)
Low(e, k) == Fixed(e, k) \/ Clamped(e, k) - e.l[k] <= e.u[k] - Clamped(e, k)

(* It is a bound the column has: a value at a bound that was there once is *)
(* nearer to any finite bound than LP_INF is.                              *)
LEMMA LowIsFinite ==
  ASSUME NEW e, FormInv(e), BoxInv(e), ValuesInv(e), ~e.rebuild_pending, ~EmptyBox(e),
         NEW k \in Parked(e)
  PROVE  IF Low(e, k) THEN e.l[k] > -LP_INF ELSE e.u[k] < LP_INF
<1>1. k \in Columns(e)  BY DEF Parked
<1>2. e.l[k] \in Int /\ e.u[k] \in Int /\ e.x[k] \in Int /\ e.l[k] <= e.u[k]
  BY <1>1 DEF BoxInv, ValuesInv, EmptyBox
<1> DEFINE l == e.l[k]
           u == e.u[k]
           x == e.x[k]
<1>3. CASE Own(e, k)
  <2>1. /\ l <= -LP_INF \/ Small(l)
        /\ u >= LP_INF \/ Small(u)
        /\ Small(x) /\ l = e.lp.l[k[2]] /\ u = e.lp.u[k[2]] /\ e.split = Split(e.lp)
    BY <1>1, <1>3 DEF BoxInv, ValuesInv
  <2>2. k[2] \in DOMAIN e.lp.c /\ k[2] \notin Split(e.lp)
    BY <1>1, <1>3, <2>1, ColumnKinds DEF Own
  <2>3. ~(l <= -LP_INF /\ u >= LP_INF)  BY <2>1, <2>2 DEF Split, Free
  <2> HIDE DEF l, u, x
  <2>4. l \in Int /\ u \in Int /\ x \in Int /\ l <= u  BY <1>2 DEF l, u, x
  <2>5. Clamped(e, k) = IF x < l THEN l ELSE IF x > u THEN u ELSE x  BY DEF Clamped, l, u, x
  <2>6. Low(e, k) <=> (u <= l \/ Clamped(e, k) - l <= u - Clamped(e, k))  BY DEF Low, Fixed, l, u
  <2> DEFINE z == Clamped(e, k)
  <2> HIDE DEF z
  <2>7. z = IF x < l THEN l ELSE IF x > u THEN u ELSE x  BY <2>5 DEF z
  <2>8. Low(e, k) <=> (u <= l \/ z - l <= u - z)  BY <2>6 DEF z
  <2>9. 4 * x <= LP_INF /\ -LP_INF <= 4 * x  BY <2>1, <2>4, InfinityInt DEF Small, Abs
  <2>10. l <= -LP_INF \/ (4 * l <= LP_INF /\ -LP_INF <= 4 * l)
    BY <2>1, <2>4, InfinityInt DEF Small, Abs
  <2>11. u >= LP_INF \/ (4 * u <= LP_INF /\ -LP_INF <= 4 * u)
    BY <2>1, <2>4, InfinityInt DEF Small, Abs
  <2>12. ASSUME Low(e, k), l <= -LP_INF PROVE FALSE
    <3>1. 4 * u <= LP_INF /\ -LP_INF <= 4 * u  BY <2>3, <2>11, <2>12
    <3>2. u > l  BY <2>4, <2>12, <3>1, InfinityInt
    <3>3. z - l <= u - z  BY <2>4, <2>8, <2>12, <3>2
    <3>4. x >= l  BY <2>4, <2>9, <2>12, InfinityInt
    <3>5. z # u  BY <2>4, <3>2, <3>3
    <3>6. z = x  BY <2>4, <2>7, <3>4, <3>5
    <3> QED BY <2>4, <2>9, <2>12, <3>1, <3>3, <3>6, InfinityInt
  <2>13. ASSUME ~Low(e, k), u >= LP_INF PROVE FALSE
    <3>1. 4 * l <= LP_INF /\ -LP_INF <= 4 * l  BY <2>3, <2>10, <2>13
    <3>2. ~(z - l <= u - z) /\ ~(u <= l)  BY <2>8, <2>13
    <3>3. x <= u  BY <2>4, <2>9, <2>13, InfinityInt
    <3>4. z # l  BY <2>4, <3>2
    <3>5. z = x  BY <2>4, <2>7, <3>3, <3>4
    <3> QED BY <2>4, <2>9, <2>13, <3>1, <3>2, <3>5, InfinityInt
  <2>14. IF Low(e, k) THEN l > -LP_INF ELSE u < LP_INF
    BY <2>4, <2>12, <2>13, InfinityInt
  <2> QED BY <2>14 DEF l, u
<1>4. CASE ~Own(e, k)
  <2>1. l = 0 /\ (u = LP_INF \/ u = 0) /\ x = 0  BY <1>1, <1>4 DEF BoxInv, ValuesInv
  <2>2. Clamped(e, k) = 0  BY <2>1, InfinityInt DEF Clamped
  <2>3. Low(e, k)  BY <2>1, <2>2, InfinityInt DEF Low
  <2> QED BY <2>1, <2>3, InfinityInt
<1> QED BY <1>3, <1>4

(* The repair parks every column at a bound of the current box.            *)
LEMMA RepairedKeeps ==
  ASSUME NEW e, StructInv(e), ~e.rebuild_pending, ~EmptyBox(e), NEW r, r = Repaired(e)
  PROVE  /\ StructInv(r) /\ AtBounds(r) /\ Keeps(r, e, {"status", "x"})
<1> DEFINE C == Columns(e)
           st == [k \in C |-> IF k \notin Parked(e) THEN e.status[k]
                              ELSE IF Low(e, k) THEN "NBL" ELSE "NBU"]
           X == [k \in C |-> IF k \notin Parked(e) THEN e.x[k]
                             ELSE IF Low(e, k) THEN e.l[k] ELSE e.u[k]]
           clamped(k) == IF e.x[k] < e.l[k] THEN e.l[k]
                         ELSE IF e.x[k] > e.u[k] THEN e.u[k] ELSE e.x[k]
           low(k) == Fixed(e, k) \/ clamped(k) - e.l[k] <= e.u[k] - clamped(k)
           st0 == [k \in C |-> IF k \notin Parked(e) THEN e.status[k]
                               ELSE IF low(k) THEN "NBL" ELSE "NBU"]
           X0 == [k \in C |-> IF k \notin Parked(e) THEN e.x[k]
                              ELSE IF low(k) THEN e.l[k] ELSE e.u[k]]
<1>1. /\ IsStruct(e) /\ FormInv(e) /\ BasisInv(e) /\ BoxInv(e) /\ ValuesInv(e) /\ CostInv(e)
  BY DEF StructInv
<1>2. r = [e EXCEPT !.status = st0, !.x = X0]  BY DEF Repaired
<1>3. st0 = st /\ X0 = X
  <2>1. \A k : low(k) <=> Low(e, k)  BY DEF Low, Clamped
  <2> HIDE DEF low
  <2> QED BY <2>1
<1>4. IsStruct(r) /\ Keeps(r, e, {"status", "x"}) /\ r.status = st /\ r.x = X
  <2> HIDE DEF st, X, st0, X0
  <2> QED BY <1>1, <1>2, <1>3 DEF IsStruct, Fields, Keeps
<1> HIDE DEF st0, X0, low, clamped
<1>5. /\ r.lp = e.lp /\ r.split = e.split /\ r.artSign = e.artSign /\ r.l = e.l /\ r.u = e.u
      /\ r.rebuild_pending = e.rebuild_pending /\ r.c0 = e.c0 /\ r.cobj = e.cobj
      /\ r.basis = e.basis /\ r.inv = e.inv
  BY <1>4 DEF Keeps, Fields
<1>6. /\ Rows(r) = Rows(e) /\ Columns(r) = C /\ \A k : Column(r, k) = Column(e, k)
      /\ TrueCost(r) = TrueCost(e) /\ PhaseOneCost(r) = PhaseOneCost(e)
  BY <1>5, SameShape, SameProgram
<1>7. Basic(r) = Basic(e) /\ BasisMatrix(r) = BasisMatrix(e)
  BY <1>5, <1>6 DEF Basic, BasisMatrix
<1>8. FormInv(r)  BY <1>1, <1>5, <1>6 DEF FormInv
<1>9. \A k \in C : /\ e.status[k] \in {"BASIC", "NBL", "NBU", "REMOVED"}
                   /\ k \in Parked(e) <=> e.status[k] \in {"NBL", "NBU"}
  BY <1>1 DEF BasisInv, Parked
<1>10. /\ st \in [C -> {"BASIC", "NBL", "NBU", "REMOVED"}]
       /\ \A k \in C : /\ st[k] = "BASIC" <=> e.status[k] = "BASIC"
                       /\ st[k] = "REMOVED" <=> e.status[k] = "REMOVED"
                       /\ st[k] \in {"NBL", "NBU"} <=> k \in Parked(e)
                       /\ k \in Parked(e) => st[k] = IF Low(e, k) THEN "NBL" ELSE "NBU"
  BY <1>9
<1>11. BasisInv(r)
  <2> HIDE DEF st
  <2> QED BY <1>1, <1>4, <1>5, <1>6, <1>7, <1>10 DEF BasisInv
<1>12. BoxInv(r)
  <2>1. \A k : Own(r, k) <=> Own(e, k)  BY <1>5 DEF Own
  <2> QED BY <1>1, <1>5, <1>6, <2>1 DEF BoxInv
<1>13. \A k \in Parked(r) : k \in Parked(e) /\ k \in C /\ r.status[k] = st[k]
  <2> HIDE DEF st
  <2> QED BY <1>4, <1>6, <1>10 DEF Parked
<1>14. \A k \in Parked(e) : X[k] = IF Low(e, k) THEN e.l[k] ELSE e.u[k]
  BY DEF Parked
<1>15. AtBounds(r)
  <2> SUFFICES ASSUME NEW k \in Parked(r)
               PROVE  IF r.status[k] = "NBL" THEN r.x[k] = r.l[k] /\ r.l[k] > -LP_INF
                                             ELSE r.x[k] = r.u[k] /\ r.u[k] < LP_INF
    BY DEF AtBounds
  <2>1. k \in Parked(e) /\ k \in C /\ r.status[k] = st[k]  BY <1>13
  <2>2. IF Low(e, k) THEN e.l[k] > -LP_INF ELSE e.u[k] < LP_INF  BY <1>1, <2>1, LowIsFinite
  <2> HIDE DEF st, X
  <2>3. st[k] = IF Low(e, k) THEN "NBL" ELSE "NBU"  BY <1>10, <2>1
  <2>4. X[k] = IF Low(e, k) THEN e.l[k] ELSE e.u[k]  BY <1>14, <2>1
  <2> QED BY <1>4, <1>5, <2>1, <2>2, <2>3, <2>4
<1>16. X \in [C -> Int]
  <2>1. e.x \in [C -> Int] /\ e.l \in [C -> Int] /\ e.u \in [C -> Int]
    BY <1>1 DEF ValuesInv, BoxInv
  <2> QED BY <2>1
<1>17. ValuesInv(r)
  <2> HIDE DEF X
  <2> QED BY <1>4, <1>6, <1>12, <1>15, <1>16, ParkedSmall DEF ValuesInv
<1>18. CostInv(r)  BY <1>1, <1>5, <1>6 DEF CostInv
<1> QED BY <1>4, <1>8, <1>11, <1>12, <1>15, <1>17, <1>18 DEF StructInv

(* Basic values recomputed: parked columns stay, and the rows hold.        *)
LEMMA RecomputeKeeps ==
  ASSUME NEW e, StructInv(e), AtBounds(e), NEW r, r = recompute_basic(e)
  PROVE  StructInv(r) /\ Stands(r) /\ Keeps(r, e, {"x"})
<1>1. /\ IsStruct(e) /\ FormInv(e) /\ BasisInv(e) /\ BoxInv(e) /\ ValuesInv(e) /\ CostInv(e)
  BY DEF StructInv
<1>2. e.x \in [Columns(e) -> Int]  BY <1>1 DEF ValuesInv
<1>3. /\ IsStruct(r) /\ Keeps(r, e, {"x"})
      /\ r.x \in [Columns(e) -> Int]
      /\ \A k \in Columns(e) \ Basic(e) : r.x[k] = e.x[k]
      /\ RowsHold(r)
  BY <1>1, <1>2, RecomputeFacts
<1>4. /\ r.lp = e.lp /\ r.split = e.split /\ r.artSign = e.artSign /\ r.l = e.l /\ r.u = e.u
      /\ r.rebuild_pending = e.rebuild_pending /\ r.c0 = e.c0 /\ r.cobj = e.cobj
      /\ r.basis = e.basis /\ r.inv = e.inv /\ r.status = e.status
  BY <1>3 DEF Keeps, Fields
<1>5. /\ Rows(r) = Rows(e) /\ Columns(r) = Columns(e) /\ \A k : Column(r, k) = Column(e, k)
      /\ TrueCost(r) = TrueCost(e) /\ PhaseOneCost(r) = PhaseOneCost(e)
  BY <1>4, SameShape, SameProgram
<1>6. Basic(r) = Basic(e) /\ BasisMatrix(r) = BasisMatrix(e) /\ Parked(r) = Parked(e)
  BY <1>4, <1>5 DEF Basic, BasisMatrix, Parked
<1>7. FormInv(r)  BY <1>1, <1>4, <1>5 DEF FormInv
<1>8. BasisInv(r)  BY <1>1, <1>4, <1>5, <1>6 DEF BasisInv
<1>9. BoxInv(r)
  <2>1. \A k : Own(r, k) <=> Own(e, k)  BY <1>4 DEF Own
  <2> QED BY <1>1, <1>4, <1>5, <2>1 DEF BoxInv
<1>10. \A k \in Parked(e) : r.x[k] = e.x[k]
  <2>1. \A k \in Parked(e) : k \in Columns(e) /\ k \notin Basic(e)  BY <1>1 DEF Parked, BasisInv
  <2> QED BY <1>3, <2>1
<1>11. AtBounds(r)  BY <1>4, <1>6, <1>10 DEF AtBounds
<1>12. ValuesInv(r)  BY <1>3, <1>5, <1>9, <1>11, ParkedSmall DEF ValuesInv
<1>13. CostInv(r)  BY <1>1, <1>4, <1>5 DEF CostInv
<1> QED BY <1>3, <1>7, <1>8, <1>9, <1>11, <1>12, <1>13 DEF StructInv, Stands

(* solver_warm_solve: rebuilt, refused for an empty box, or set going on   *)
(* the repaired struct.                                                    *)
LEMMA WarmFromKeeps ==
  ASSUME NEW e, StructInv(e), e.rebuild_pending \in BOOLEAN, NEW r, r = WarmFrom(e)
  PROVE  Outcome(r) /\ r.lp = e.lp
<1> DEFINE c == ClearEvidence(e)
           m == [c EXCEPT !.cobj = c.c0]
           a == Repaired(m)
           z == recompute_basic(a)
<1>1. IsStruct(e) /\ FormInv(e)  BY DEF StructInv
<1>2. /\ IsStruct(c) /\ ~c.farkas_ok /\ ~c.dfarkas_ok /\ c.unb_ray = NoRay
      /\ Keeps(c, e, {"farkas_ok", "dfarkas_ok", "unb_ray"})
  <2> HIDE DEF c
  <2> QED BY <1>1, ClearIs DEF c
<1>3. r = IF c.rebuild_pending THEN solver_refresh(c)
          ELSE IF EmptyBox(c) THEN Return(c, 1)
          ELSE IF LiveArtificial(z) THEN solver_refresh(z)
          ELSE IF Entering(z) = {} THEN [z EXCEPT !.lane = "dual", !.local = 0]
          ELSE [z EXCEPT !.lane = "primal"]
  BY DEF WarmFrom
<1> HIDE DEF c
<1>4. Keeps(c, e, Aside)  BY <1>2 DEF Keeps, Aside
<1>5. /\ c.lp = e.lp /\ c.split = e.split /\ c.artSign = e.artSign /\ c.l = e.l /\ c.u = e.u
      /\ c.rebuild_pending = e.rebuild_pending /\ c.c0 = e.c0 /\ c.cobj = e.cobj
      /\ c.basis = e.basis /\ c.inv = e.inv /\ c.status = e.status /\ c.x = e.x
  BY <1>4, AsideFields
<1>6. StructInv(c)  BY <1>2, <1>5, AsideKeeps
<1>7. LinearProgram(c.lp)  BY <1>1, <1>5 DEF FormInv
<1>8. CASE c.rebuild_pending
  <2>1. r = solver_refresh(c)  BY <1>3, <1>8
  <2> QED BY <1>5, <1>7, <2>1, RefreshKeeps
<1>9. CASE ~c.rebuild_pending /\ EmptyBox(c)
  <2>1. r = Return(c, 1) /\ c.rebuild_pending = FALSE  BY <1>3, <1>5, <1>9
  <2> QED BY <1>2, <1>5, <1>6, <1>9, <2>1, EmptyBoxReturns
<1>10. CASE ~c.rebuild_pending /\ ~EmptyBox(c)
  <2>1. c.rebuild_pending = FALSE  BY <1>5, <1>10
  <2>2. IsStruct(m) /\ Keeps(m, c, {"cobj"}) /\ m.cobj = c.c0
    BY <1>2 DEF IsStruct, Fields, Keeps
  <2> HIDE DEF m
  <2>3. /\ m.lp = c.lp /\ m.split = c.split /\ m.artSign = c.artSign /\ m.l = c.l /\ m.u = c.u
        /\ m.rebuild_pending = c.rebuild_pending /\ m.c0 = c.c0
        /\ m.basis = c.basis /\ m.inv = c.inv /\ m.status = c.status /\ m.x = c.x
    BY <2>2 DEF Keeps, Fields
  <2>4. c.c0 = TrueCost(c)  BY <1>6 DEF StructInv, CostInv
  <2>5. m.cobj \in {TrueCost(c), PhaseOneCost(c)}  BY <2>2, <2>4
  <2>6. StructInv(m) /\ (EmptyBox(m) <=> EmptyBox(c)) /\ TrueCost(m) = TrueCost(c)
    BY <1>6, <2>2, <2>3, <2>5, AsideKeeps
  <2>7. ~m.rebuild_pending /\ ~EmptyBox(m)  BY <1>10, <2>3, <2>6
  <2>8. StructInv(a) /\ AtBounds(a) /\ Keeps(a, m, {"status", "x"})
    BY <2>6, <2>7, RepairedKeeps
  <2> HIDE DEF a
  <2>9. StructInv(z) /\ Stands(z) /\ Keeps(z, a, {"x"})
    BY <2>8, RecomputeKeeps
  <2> HIDE DEF z
  <2>10. /\ a.lp = m.lp /\ a.split = m.split /\ a.artSign = m.artSign /\ a.cobj = m.cobj
         /\ a.l = m.l /\ a.u = m.u /\ a.rebuild_pending = m.rebuild_pending
         /\ a.farkas_ok = m.farkas_ok /\ a.dfarkas_ok = m.dfarkas_ok /\ a.unb_ray = m.unb_ray
    BY <2>8 DEF Keeps, Fields
  <2>11. /\ z.lp = m.lp /\ z.split = m.split /\ z.artSign = m.artSign /\ z.cobj = m.cobj
         /\ z.l = m.l /\ z.u = m.u /\ z.rebuild_pending = m.rebuild_pending
         /\ z.farkas_ok = m.farkas_ok /\ z.dfarkas_ok = m.dfarkas_ok /\ z.unb_ray = m.unb_ray
    BY <2>9, <2>10 DEF Keeps, Fields
  <2>12. m.farkas_ok = c.farkas_ok /\ m.dfarkas_ok = c.dfarkas_ok /\ m.unb_ray = c.unb_ray
    BY <2>2 DEF Keeps, Fields
  <2>13. /\ z.lp = e.lp /\ z.rebuild_pending = FALSE /\ z.cobj = TrueCost(z)
         /\ ~z.farkas_ok /\ ~z.dfarkas_ok /\ z.unb_ray = NoRay
    <3>1. TrueCost(z) = TrueCost(m)  BY <2>11, SameProgram
    <3> QED BY <1>2, <1>5, <2>1, <2>2, <2>3, <2>4, <2>6, <2>11, <2>12, <3>1
  <2>14. ~EmptyBox(z)
    <3>1. Columns(z) = Columns(m)
      BY <2>11, SameShape
    <3> QED BY <2>7, <2>11, <3>1 DEF EmptyBox
  <2>15. CASE LiveArtificial(z)
    <3>1. r = solver_refresh(z)  BY <1>3, <1>10, <2>15
    <3>2. LinearProgram(z.lp)  BY <2>9 DEF StructInv, FormInv
    <3> QED BY <2>13, <3>1, <3>2, RefreshKeeps
  <2>16. CASE ~LiveArtificial(z)
    <3>1. Harmless(z)  BY <2>16 DEF Harmless, LiveArtificial
    <3>2. IsStruct(z)  BY <2>9 DEF StructInv
    <3>3. \/ r = [z EXCEPT !.lane = "dual", !.local = 0]
          \/ r = [z EXCEPT !.lane = "primal"]
      BY <1>3, <1>10, <2>16
    <3>4. /\ IsStruct(r) /\ Keeps(r, z, {"lane", "local"}) /\ r.lane \in {"dual", "primal"}
      BY <3>2, <3>3 DEF IsStruct, Fields, Keeps
    <3>5. Keeps(r, z, Aside)  BY <3>4 DEF Keeps, Aside
    <3>6. /\ r.lp = z.lp /\ r.split = z.split /\ r.artSign = z.artSign /\ r.l = z.l /\ r.u = z.u
          /\ r.rebuild_pending = z.rebuild_pending /\ r.c0 = z.c0 /\ r.cobj = z.cobj
          /\ r.basis = z.basis /\ r.inv = z.inv /\ r.status = z.status /\ r.x = z.x
      BY <3>5, AsideFields
    <3>7. /\ StructInv(r) /\ Stands(r) /\ ~EmptyBox(r) /\ Harmless(r) /\ TrueCost(r) = TrueCost(z)
      BY <2>9, <2>14, <3>1, <3>4, <3>6, AsideKeeps
    <3>8. ~r.farkas_ok /\ ~r.dfarkas_ok /\ r.unb_ray = NoRay
      BY <2>13, <3>4 DEF Keeps, Fields
    <3>9. RunningInv(r)
      BY <2>13, <3>4, <3>6, <3>7, <3>8 DEF RunningInv
    <3> QED BY <2>13, <3>4, <3>6, <3>7, <3>9 DEF Outcome
  <2> QED BY <2>15, <2>16
<1> QED BY <1>8, <1>9, <1>10

(* A sum no term of which falls, and one of which grows.                   *)
LEMMA TotalGrowsStrictly ==
  ASSUME NEW f, NEW g, NEW S, IsFiniteSet(S),
         \A j \in S : f[j] \in Int /\ g[j] \in Int /\ f[j] <= g[j], NEW x \in S, f[x] < g[x]
  PROVE  Total(f, S) < Total(g, S)
<1>1. Total(f, S) = f[x] + Total(f, S \ {x}) /\ Total(g, S) = g[x] + Total(g, S \ {x})
  BY TotalTakesOut
<1>2. IsFiniteSet(S \ {x})  BY FS_Subset
<1>3. Total(f, S \ {x}) <= Total(g, S \ {x})  BY <1>2, TotalGrows
<1>4. Total(f, S \ {x}) \in Int /\ Total(g, S \ {x}) \in Int  BY <1>2, TotalInt
<1> QED BY <1>1, <1>3, <1>4

(* What the multipliers get out of the box of variable j.                  *)
Corner(lp, z, j) == IF z[j] > 0 THEN z[j] * lp.l[j] ELSE IF z[j] < 0 THEN z[j] * lp.u[j] ELSE 0

(* They get more out of it than the rows allow.                            *)
CornersBeat(lp, y) ==
  Total([j \in DOMAIN lp.c |-> Corner(lp, Zrow(lp, y), j)], DOMAIN lp.c)
    > Prod(y, [i \in DOMAIN lp.rows |-> lp.rows[i].b], DOMAIN lp.rows)

(* The bounds those corners use are there.                                 *)
CornersExist(lp, y) ==
  \A j \in DOMAIN lp.c : /\ Zrow(lp, y)[j] > 0 => lp.l[j] > -LP_INF
                         /\ Zrow(lp, y)[j] < 0 => lp.u[j] < LP_INF

(* Refutes, in terms of the products of the other lemmas.                  *)
LEMMA RefutesBy ==
  ASSUME NEW lp, LinearProgram(lp), NEW y, Ints(y, DOMAIN lp.rows), RowSigns(lp, y),
         CornersExist(lp, y), CornersBeat(lp, y)
  PROVE  Refutes(lp, y)
<1> DEFINE R == DOMAIN lp.rows
           J == DOMAIN lp.c
           z == Zrow(lp, y)
           h == [i \in R |-> lp.rows[i].b]
           all == [j \in J |-> Corner(lp, z, j)]
           zz(j) == MapThenSumSet(LAMBDA i : y[i] * lp.rows[i].a[j], R)
           set == {j \in J : zz(j) # 0}
           term == [j \in set |-> zz(j) * (IF zz(j) > 0 THEN lp.l[j] ELSE lp.u[j])]
           rhs == MapThenSumSet(LAMBDA i : y[i] * lp.rows[i].b, R)
           lhs == MapThenSumSet(LAMBDA j : zz(j) * (IF zz(j) > 0 THEN lp.l[j] ELSE lp.u[j]), set)
<1>1. /\ IsFiniteSet(R) /\ IsFiniteSet(J)
      /\ \A j \in J : lp.l[j] \in Int /\ lp.u[j] \in Int
  BY ProgramFacts
<1>2. \A j \in J : z[j] \in Int
  <2>1. Ints(Zrow(lp, y), J)
    <3>1. lp.l \in [J -> Int]  BY ProgramFacts
    <3> QED BY <3>1, RowsTimesDuals
  <2> QED BY <2>1 DEF Ints
<1>3. ASSUME NEW j \in J
      PROVE  zz(j) = z[j]
  <2> DEFINE v == [i \in R |-> lp.rows[i].a[j]]
  <2>1. [i \in R |-> y[i] * v[i]] = [i \in R |-> y[i] * lp.rows[i].a[j]]  OBVIOUS
  <2>2. z[j] = Total([i \in R |-> y[i] * lp.rows[i].a[j]], R)  BY <2>1 DEF Zrow, Prod
  <2>3. MapThenSumSet(LAMBDA i : y[i] * lp.rows[i].a[j], R)
          = Total([i \in R |-> y[i] * lp.rows[i].a[j]], R)
    BY DEF Total, MapThenSumSet, MapThenFoldSet
  <2> QED BY <2>2, <2>3, Zenon
<1>4. lhs = Total(term, set)
  <2> HIDE DEF zz
  <2>1. MapThenSumSet(LAMBDA j : zz(j) * (IF zz(j) > 0 THEN lp.l[j] ELSE lp.u[j]), set)
          = Total(term, set)
    BY DEF Total, MapThenSumSet, MapThenFoldSet
  <2> QED BY <2>1, Zenon
<1>5. rhs = Prod(y, h, R)
  <2>1. [i \in R |-> y[i] * h[i]] = [i \in R |-> y[i] * lp.rows[i].b]  OBVIOUS
  <2>2. MapThenSumSet(LAMBDA i : y[i] * lp.rows[i].b, R)
          = Total([i \in R |-> y[i] * lp.rows[i].b], R)
    BY DEF Total, MapThenSumSet, MapThenFoldSet
  <2> QED BY <2>1, <2>2, Zenon DEF Prod
<1>6. lhs > rhs
  <2>1. Total(all, J) > Prod(y, h, R)  BY DEF CornersBeat
  <2>2. \A j \in J : zz(j) = z[j]  BY <1>3, Zenon
  <2> HIDE DEF zz, z, rhs, lhs, h
  <2>3. \A j \in J : all[j] \in Int
    <3> SUFFICES ASSUME NEW j \in J PROVE Corner(lp, z, j) \in Int  OBVIOUS
    <3>1. z[j] \in Int /\ lp.l[j] \in Int /\ lp.u[j] \in Int  BY <1>1, <1>2
    <3>2. z[j] * lp.l[j] \in Int /\ z[j] * lp.u[j] \in Int  BY <3>1
    <3> QED BY <3>2 DEF Corner
  <2>4. \A j \in J \ set : all[j] = 0
    <3> SUFFICES ASSUME NEW j \in J \ set PROVE Corner(lp, z, j) = 0  OBVIOUS
    <3>1. z[j] = 0  BY <2>2
    <3> QED BY <3>1 DEF Corner
  <2>5. \A j \in set : all[j] = term[j]
    <3> SUFFICES ASSUME NEW j \in set PROVE all[j] = term[j]  OBVIOUS
    <3>1. j \in J /\ z[j] # 0 /\ zz(j) = z[j] /\ z[j] \in Int  BY <1>2, <2>2
    <3>2. all[j] = z[j] * (IF z[j] > 0 THEN lp.l[j] ELSE lp.u[j])  BY <3>1 DEF Corner
    <3> QED BY <3>1, <3>2
  <2>6. set \in SUBSET J /\ IsFiniteSet(set)  BY <1>1, FS_Subset
  <2> HIDE DEF all, set, term
  <2>7. Total(all, J) = Total(all, set)  BY <1>1, <2>3, <2>4, <2>6, TotalSkipsZeros
  <2>8. Total(all, set) = Total(term, set)  BY <2>5, <2>6, TotalAgrees
  <2> QED BY <1>4, <1>5, <2>1, <2>7, <2>8
<1>7. \A j \in set : IF zz(j) > 0 THEN lp.l[j] > -LP_INF ELSE lp.u[j] < LP_INF
  <2>1. \A j \in J : zz(j) = z[j]  BY <1>3, Zenon
  <2>2. \A j \in J : (z[j] > 0 => lp.l[j] > -LP_INF) /\ (z[j] < 0 => lp.u[j] < LP_INF)
    BY DEF CornersExist
  <2> HIDE DEF zz, z
  <2> SUFFICES ASSUME NEW j \in set
               PROVE IF zz(j) > 0 THEN lp.l[j] > -LP_INF ELSE lp.u[j] < LP_INF
    OBVIOUS
  <2>3. j \in J /\ zz(j) = z[j] /\ z[j] \in Int /\ z[j] # 0  BY <1>2, <2>1
  <2> QED BY <2>2, <2>3
<1> QED BY <1>6, <1>7, Zenon DEF Refutes, RowSigns

(* y^T (A w) = (y^T A) w on the equality form.                             *)
LEMMA DotOfRows ==
  ASSUME NEW e, FormInv(e), NEW y, Ints(y, Rows(e)), NEW w, \A k \in Columns(e) : w[k] \in Int,
         NEW v, \A i \in Rows(e) : v[i] = RowSum(e, w, i)
  PROVE  /\ \A k \in Columns(e) : Dot(e, y, k) \in Int
         /\ Prod(y, v, Rows(e)) = Total([k \in Columns(e) |-> Dot(e, y, k) * w[k]], Columns(e))
<1> DEFINE R == Rows(e)
           C == Columns(e)
           M == [i \in R |-> [k \in C |-> A(e, k, i)]]
           T == [k \in C |-> Column(e, k)]
           z == [k \in C |-> Dot(e, y, k)]
<1>1. IsFiniteSet(R) /\ IsFiniteSet(C)  BY FormIsFinite, ColumnsFinite
<1>2. IntMatrix(M, R, C)
  <2>1. \A i \in R, k \in C : A(e, k, i) \in Int  BY CoefficientInt
  <2> QED BY <2>1 DEF Ints, IntMatrix
<1>3. Ints(w, C)  BY DEF Ints
<1>4. Transposes(T, M, R, C)  BY DEF Transposes, Column
<1>5. Times(v, M, w, R, C)
  <2> SUFFICES ASSUME NEW i \in R PROVE v[i] = Prod(M[i], w, C)  BY DEF Times
  <2>1. [k \in C |-> M[i][k] * w[k]] = [k \in C |-> A(e, k, i) * w[k]]  OBVIOUS
  <2> QED BY <2>1 DEF Prod, RowSum
<1>6. Times(z, T, y, C, R)
  <2> SUFFICES ASSUME NEW k \in C PROVE z[k] = Prod(T[k], y, R)  BY DEF Times
  <2>1. Dot(e, y, k) = Prod(y, Column(e, k), R)  BY ModelProducts
  <2>2. Ints(Column(e, k), R)  BY ColumnInts
  <2>3. Prod(y, Column(e, k), R) = Prod(Column(e, k), y, R)
    <3> DEFINE c == Column(e, k)
    <3>1. Ints(c, R)  BY <2>2
    <3> HIDE DEF c, R
    <3>2. Ints(y, R)  BY DEF R
    <3>3. Prod(y, c, R) = Prod(c, y, R)  BY <1>1, <3>1, <3>2, ProdSwaps
    <3> QED BY <3>3 DEF c
  <2>4. z[k] = Dot(e, y, k) /\ T[k] = Column(e, k)  OBVIOUS
  <2> HIDE DEF z, T
  <2> QED BY <2>1, <2>3, <2>4
<1>7. Prod(y, v, R) = Prod(z, w, C) /\ Ints(z, C)
  <2>1. Ints(y, R)  OBVIOUS
  <2> HIDE DEF M, T, z, R, C
  <2> QED BY <1>1, <1>2, <1>3, <1>4, <1>5, <1>6, <2>1, ProdTransposed
<1>8. Prod(z, w, C) = Total([k \in C |-> Dot(e, y, k) * w[k]], C)
  <2>1. [k \in C |-> z[k] * w[k]] = [k \in C |-> Dot(e, y, k) * w[k]]  OBVIOUS
  <2> QED BY <2>1 DEF Prod
<1>9. \A k \in C : Dot(e, y, k) \in Int
  <2>1. \A k \in C : z[k] = Dot(e, y, k)  OBVIOUS
  <2> HIDE DEF z
  <2> QED BY <1>7, <2>1 DEF Ints
<1> QED BY <1>7, <1>8, <1>9

(* Multipliers that no column of the struct can satisfy better than it     *)
(* does, w being the values of the columns.                                *)
Grips(e, y, w) ==
  /\ \A k \in Columns(e) :
       IF Own(e, k)
       THEN /\ Dot(e, y, k) > 0 => e.l[k] > -LP_INF /\ w[k] <= e.l[k]
            /\ Dot(e, y, k) < 0 => e.u[k] < LP_INF /\ w[k] >= e.u[k]
       ELSE Dot(e, y, k) * w[k] <= 0 /\ (k[1] # "a" => Dot(e, y, k) >= 0)
  /\ \E k \in Columns(e) :
       IF Own(e, k)
       THEN \/ Dot(e, y, k) > 0 /\ w[k] < e.l[k]
            \/ Dot(e, y, k) < 0 /\ w[k] > e.u[k]
       ELSE Dot(e, y, k) * w[k] < 0

(* The multipliers in the caller's rows.                                   *)
LEMMA GripsInRows ==
  ASSUME NEW e, FormInv(e), BoxInv(e), ~e.rebuild_pending, NEW y, Ints(y, Rows(e)),
         NEW w, Grips(e, y, w)
  PROVE  /\ Ints(Signed(e, y), Rows(e)) /\ RowSigns(e.lp, Signed(e, y))
         /\ CornersExist(e.lp, Signed(e, y))
         /\ \A j \in DOMAIN e.lp.c : /\ Zrow(e.lp, Signed(e, y))[j] = Dot(e, y, <<"x", j>>)
                                     /\ Dot(e, y, <<"x", j>>) \in Int
                                     /\ j \in e.split => Dot(e, y, <<"x", j>>) = 0
<1> DEFINE S == Signed(e, y)
           z == Zrow(e.lp, S)
<1>1. Ints(S, Rows(e))  BY DotOfColumn
<1>2. \A k \in Columns(e) : Dot(e, y, k) \in Int
  <2> SUFFICES ASSUME NEW k \in Columns(e) PROVE Dot(e, y, k) \in Int  OBVIOUS
  <2> DEFINE c == Column(e, k)
             R == Rows(e)
  <2>1. Dot(e, y, k) = Prod(y, c, R) /\ Ints(c, R) /\ IsFiniteSet(R) /\ Ints(y, R)
    BY ModelProducts, ColumnInts, FormIsFinite
  <2> HIDE DEF c, R
  <2>2. Prod(y, c, R) \in Int  BY <2>1, ProdInt
  <2> QED BY <2>1, <2>2
<1>3. \A j \in DOMAIN e.lp.c : z[j] = Dot(e, y, <<"x", j>>)
  <2> SUFFICES ASSUME NEW j \in DOMAIN e.lp.c PROVE z[j] = Dot(e, y, <<"x", j>>)  BY Zenon
  <2>1. Dot(e, y, <<"x", j>>)
          = Prod(Signed(e, y), [i \in Rows(e) |-> e.lp.rows[i].a[j]], Rows(e))
    BY DotOfColumn
  <2>2. z[j] = Prod(S, [i \in Rows(e) |-> e.lp.rows[i].a[j]], Rows(e))  BY DEF Zrow, Rows
  <2> QED BY <2>1, <2>2
<1>4. \A j \in DOMAIN e.lp.c : <<"x", j>> \in Columns(e) /\ Dot(e, y, <<"x", j>>) \in Int
  BY <1>2, ColumnKinds, Zenon
<1>5. ASSUME NEW j \in DOMAIN e.lp.c, j \in e.split
      PROVE  Dot(e, y, <<"x", j>>) = 0
  <2>1. <<"x", j>> \in Columns(e) /\ <<"n", j>> \in Columns(e)  BY <1>5, ColumnKinds
  <2>2. ~Own(e, <<"x", j>>) /\ ~Own(e, <<"n", j>>)  BY <1>5 DEF Own
  <2>3. Dot(e, y, <<"x", j>>) >= 0 /\ Dot(e, y, <<"n", j>>) >= 0  BY <2>1, <2>2 DEF Grips
  <2>4. Dot(e, y, <<"n", j>>) = -Dot(e, y, <<"x", j>>)  BY <1>5, DotOfColumn
  <2> QED BY <1>4, <2>3, <2>4
<1>6. RowSigns(e.lp, S)
  <2> SUFFICES ASSUME NEW i \in Rows(e)
               PROVE  /\ e.lp.rows[i].rel = "<" => S[i] >= 0
                      /\ e.lp.rows[i].rel = ">" => S[i] <= 0
    BY DEF RowSigns, Rows
  <2>1. S[i] = Mlt(e.lp.rows[i]) * y[i]  BY DEF Signed
  <2>2. y[i] \in Int /\ Mlt(e.lp.rows[i]) \in {-1, 1}  BY Signs DEF Ints
  <2>3. Dot(e, y, <<"s", i>>) = y[i] * SlackSign(e.lp.rows[i])  BY DotOfColumn
  <2>4. ASSUME e.lp.rows[i].rel # "=" PROVE Dot(e, y, <<"s", i>>) >= 0
    <3>1. <<"s", i>> \in Columns(e)  BY <2>4, ColumnKinds
    <3>2. ~Own(e, <<"s", i>>)  BY DEF Own
    <3> QED BY <3>1, <3>2 DEF Grips
  <2>5. /\ e.lp.rows[i].rel = "<" => SlackSign(e.lp.rows[i]) = Mlt(e.lp.rows[i])
        /\ e.lp.rows[i].rel = ">" => SlackSign(e.lp.rows[i]) = -Mlt(e.lp.rows[i])
    BY Signs
  <2> DEFINE m == Mlt(e.lp.rows[i])
             yi == y[i]
             sg == SlackSign(e.lp.rows[i])
  <2> HIDE DEF S, m, yi, sg
  <2>6. S[i] = m * yi /\ yi \in Int /\ m \in {-1, 1}  BY <2>1, <2>2 DEF m, yi
  <2>7. ASSUME e.lp.rows[i].rel = "<" PROVE S[i] >= 0
    <3>1. yi * m >= 0  BY <2>3, <2>4, <2>5, <2>7 DEF m, yi
    <3> QED BY <2>6, <3>1
  <2>8. ASSUME e.lp.rows[i].rel = ">" PROVE S[i] <= 0
    <3>1. yi * (-m) >= 0  BY <2>3, <2>4, <2>5, <2>8 DEF m, yi
    <3> QED BY <2>6, <3>1
  <2> QED BY <2>7, <2>8
<1>7. CornersExist(e.lp, S)
  <2> SUFFICES ASSUME NEW j \in DOMAIN e.lp.c
               PROVE  /\ z[j] > 0 => e.lp.l[j] > -LP_INF
                      /\ z[j] < 0 => e.lp.u[j] < LP_INF
    BY DEF CornersExist
  <2>1. z[j] = Dot(e, y, <<"x", j>>) /\ <<"x", j>> \in Columns(e)  BY <1>3, <1>4
  <2>2. CASE j \in e.split
    <3>1. z[j] = 0  BY <1>5, <2>1, <2>2
    <3> HIDE DEF z
    <3> QED BY <3>1
  <2>3. CASE j \notin e.split
    <3>1. Own(e, <<"x", j>>)  BY <2>3 DEF Own
    <3>2. e.l[<<"x", j>>] = e.lp.l[j] /\ e.u[<<"x", j>>] = e.lp.u[j]
      BY <2>1, <3>1 DEF BoxInv
    <3>3. /\ Dot(e, y, <<"x", j>>) > 0 => e.l[<<"x", j>>] > -LP_INF
          /\ Dot(e, y, <<"x", j>>) < 0 => e.u[<<"x", j>>] < LP_INF
      BY <2>1, <3>1 DEF Grips
    <3> HIDE DEF z
    <3> QED BY <2>1, <3>2, <3>3
  <2> QED BY <2>2, <2>3
<1> QED BY <1>1, <1>3, <1>4, <1>5, <1>6, <1>7

(* Such multipliers refute the caller's program.                           *)
LEMMA GripsRefute ==
  ASSUME NEW e, FormInv(e), BoxInv(e), ~e.rebuild_pending, NEW y, Ints(y, Rows(e)),
         NEW w, \A k \in Columns(e) : w[k] \in Int, Grips(e, y, w),
         \A i \in Rows(e) : RowSum(e, w, i) = Abs(e.lp.rows[i].b)
  PROVE  Refutes(e.lp, Signed(e, y))
<1> DEFINE R == Rows(e)
           C == Columns(e)
           J == DOMAIN e.lp.c
           S == Signed(e, y)
           z == Zrow(e.lp, S)
           h == [i \in DOMAIN e.lp.rows |-> e.lp.rows[i].b]
           v == [i \in R |-> Abs(e.lp.rows[i].b)]
           f == [k \in C |-> Dot(e, y, k) * w[k]]
           g == [k \in C |-> IF Own(e, k) THEN Corner(e.lp, z, k[2]) ELSE 0]
           corner == [j \in J |-> Corner(e.lp, z, j)]
<1>1. /\ Ints(S, R) /\ RowSigns(e.lp, S) /\ CornersExist(e.lp, S)
      /\ \A j \in J : /\ z[j] = Dot(e, y, <<"x", j>>) /\ Dot(e, y, <<"x", j>>) \in Int
                      /\ j \in e.split => Dot(e, y, <<"x", j>>) = 0
  BY GripsInRows
<1>2. /\ \A k \in C : Dot(e, y, k) \in Int
      /\ Prod(y, v, R) = Total(f, C)
  <2>1. \A i \in R : v[i] = RowSum(e, w, i)  OBVIOUS
  <2> HIDE DEF v
  <2>2. /\ \A k \in Columns(e) : Dot(e, y, k) \in Int
        /\ Prod(y, v, Rows(e)) = Total([k \in Columns(e) |-> Dot(e, y, k) * w[k]], Columns(e))
    BY <2>1, DotOfRows
  <2> QED BY <2>2
<1>3. Prod(y, v, R) = Prod(S, h, R)
  <2>1. \A i \in R : y[i] * v[i] = S[i] * h[i]
    <3> SUFFICES ASSUME NEW i \in R PROVE y[i] * v[i] = S[i] * h[i]  OBVIOUS
    <3>1. /\ Mlt(e.lp.rows[i]) * e.lp.rows[i].b = Abs(e.lp.rows[i].b)
          /\ Mlt(e.lp.rows[i]) \in Int /\ e.lp.rows[i].b \in Int /\ y[i] \in Int
      BY Signs, FormIsFinite DEF Ints
    <3>2. v[i] = Abs(e.lp.rows[i].b) /\ h[i] = e.lp.rows[i].b /\ S[i] = Mlt(e.lp.rows[i]) * y[i]
      BY DEF Rows, Signed
    <3> DEFINE m == Mlt(e.lp.rows[i])
               b == e.lp.rows[i].b
               yi == y[i]
    <3>3. v[i] = m * b /\ h[i] = b /\ S[i] = m * yi /\ m \in Int /\ b \in Int /\ yi \in Int
      BY <3>1, <3>2
    <3> HIDE DEF m, b, v, h, S
    <3>4. \A p, q, t \in Int : t * (p * q) = (p * t) * q  OBVIOUS
    <3> QED BY <3>3, <3>4
  <2>2. IsFiniteSet(R)  BY FormIsFinite
  <2> HIDE DEF v, S, h, R
  <2> QED BY <2>1, <2>2, ProdAgrees
<1>4. ASSUME NEW k \in C, Own(e, k)
      PROVE  /\ k[2] \in J /\ k = <<"x", k[2]>> /\ z[k[2]] = Dot(e, y, k)
             /\ e.l[k] = e.lp.l[k[2]] /\ e.u[k] = e.lp.u[k[2]]
  <2>1. k[1] = "x"  BY <1>4 DEF Own
  <2>2. k[2] \in J /\ k = <<"x", k[2]>>  BY <2>1, ColumnKinds
  <2>3. e.l[k] = e.lp.l[k[2]] /\ e.u[k] = e.lp.u[k[2]]  BY <1>4 DEF BoxInv
  <2> HIDE DEF z
  <2>4. z[k[2]] = Dot(e, y, <<"x", k[2]>>)  BY <1>1, <2>2
  <2> QED BY <2>2, <2>3, <2>4
<1>5. \A k \in C : /\ f[k] \in Int /\ g[k] \in Int /\ f[k] <= g[k]
  <2> SUFFICES ASSUME NEW k \in C PROVE f[k] \in Int /\ g[k] \in Int /\ f[k] <= g[k]  OBVIOUS
  <2> DEFINE d == Dot(e, y, k)
             x == w[k]
             l == e.l[k]
             u == e.u[k]
  <2>1. d \in Int /\ x \in Int /\ l \in Int /\ u \in Int  BY <1>2 DEF BoxInv
  <2>2. f[k] = d * x  OBVIOUS
  <2>3. CASE Own(e, k)
    <3>1. g[k] = IF d > 0 THEN d * l ELSE IF d < 0 THEN d * u ELSE 0
      <4>1. z[k[2]] = d /\ e.lp.l[k[2]] = l /\ e.lp.u[k[2]] = u  BY <1>4, <2>3
      <4>2. g[k] = Corner(e.lp, z, k[2])  BY <2>3
      <4> HIDE DEF z, g, d, l, u
      <4> QED BY <4>1, <4>2 DEF Corner
    <3>2. (d > 0 => x <= l) /\ (d < 0 => x >= u)  BY <2>3 DEF Grips
    <3> HIDE DEF f, g, d, x, l, u
    <3>3. d > 0 => d * x <= d * l  BY <2>1, <3>2
    <3>4. d < 0 => d * x <= d * u  BY <2>1, <3>2
    <3>5. d * x \in Int /\ d * l \in Int /\ d * u \in Int /\ (d = 0 => d * x = 0)  BY <2>1
    <3> QED BY <2>1, <2>2, <3>1, <3>3, <3>4, <3>5
  <2>4. CASE ~Own(e, k)
    <3>1. g[k] = 0 /\ d * x <= 0  BY <2>4 DEF Grips
    <3> HIDE DEF f, g, d, x
    <3> QED BY <2>1, <2>2, <3>1
  <2> QED BY <2>3, <2>4
<1>6. \E k \in C : f[k] < g[k]
  <2>1. PICK k \in C : IF Own(e, k)
                       THEN \/ Dot(e, y, k) > 0 /\ w[k] < e.l[k]
                            \/ Dot(e, y, k) < 0 /\ w[k] > e.u[k]
                       ELSE Dot(e, y, k) * w[k] < 0
    BY DEF Grips
  <2> DEFINE d == Dot(e, y, k)
             x == w[k]
             l == e.l[k]
             u == e.u[k]
  <2>2. d \in Int /\ x \in Int /\ l \in Int /\ u \in Int  BY <1>2 DEF BoxInv
  <2>3. f[k] = d * x  OBVIOUS
  <2>4. CASE Own(e, k)
    <3>1. g[k] = IF d > 0 THEN d * l ELSE IF d < 0 THEN d * u ELSE 0
      <4>1. z[k[2]] = d /\ e.lp.l[k[2]] = l /\ e.lp.u[k[2]] = u  BY <1>4, <2>4
      <4>2. g[k] = Corner(e.lp, z, k[2])  BY <2>4
      <4> HIDE DEF z, g, d, l, u
      <4> QED BY <4>1, <4>2 DEF Corner
    <3>2. (d > 0 /\ x < l) \/ (d < 0 /\ x > u)  BY <2>1, <2>4
    <3> HIDE DEF f, g, d, x, l, u
    <3>3. d > 0 /\ x < l => d * x < d * l  BY <2>2
    <3>4. d < 0 /\ x > u => d * x < d * u  BY <2>2
    <3>5. f[k] < g[k]  BY <2>2, <2>3, <3>1, <3>2, <3>3, <3>4
    <3> QED BY <3>5
  <2>5. CASE ~Own(e, k)
    <3>1. g[k] = 0 /\ d * x < 0  BY <2>1, <2>5
    <3> HIDE DEF f, g, d, x
    <3> QED BY <2>3, <3>1
  <2> QED BY <2>4, <2>5
<1>7. Total(f, C) < Total(g, C)
  <2>1. IsFiniteSet(C)  BY ColumnsFinite
  <2> HIDE DEF f, g, C
  <2>2. PICK k \in C : f[k] < g[k]  BY <1>6
  <2> QED BY <1>5, <2>1, <2>2, TotalGrowsStrictly
<1>8. Total(g, C) = Total(corner, J)
  <2>1. \A k \in C \ Core(e) : g[k] = 0
    <3> SUFFICES ASSUME NEW k \in C \ Core(e) PROVE ~Own(e, k)  OBVIOUS
    <3>1. k[1] # "x"  BY ColumnKinds
    <3> QED BY <3>1 DEF Own
  <2>2. Core(e) \subseteq C /\ IsFiniteSet(C)  BY ColumnsFinite DEF Columns
  <2>3. \A j \in J : Joined(e, g)[j] = corner[j]
    <3> SUFFICES ASSUME NEW j \in J PROVE Joined(e, g)[j] = corner[j]  OBVIOUS
    <3>1. <<"x", j>> \in C /\ (j \in e.split => <<"n", j>> \in C)  BY ColumnKinds
    <3>2. Joined(e, g)[j] = g[<<"x", j>>] + (IF j \in e.split THEN g[<<"n", j>>] ELSE 0)
      BY DEF Joined
    <3>3. CASE j \in e.split
      <4>1. g[<<"x", j>>] = 0 /\ g[<<"n", j>>] = 0  BY <3>1, <3>3 DEF Own
      <4>2. z[j] = 0  BY <1>1, <3>3
      <4>3. corner[j] = Corner(e.lp, z, j)  OBVIOUS
      <4> HIDE DEF g, z, corner
      <4> QED BY <3>2, <3>3, <4>1, <4>2, <4>3 DEF Corner
    <3>4. CASE j \notin e.split
      <4>1. Own(e, <<"x", j>>)  BY <3>4 DEF Own
      <4>2. g[<<"x", j>>] = Corner(e.lp, z, j)  BY <3>1, <4>1
      <4>3. corner[j] = Corner(e.lp, z, j)  OBVIOUS
      <4>4. g[<<"x", j>>] \in Int  BY <1>5, <3>1
      <4> HIDE DEF g, z, corner
      <4> QED BY <3>2, <3>4, <4>2, <4>3, <4>4
    <3> QED BY <3>3, <3>4
  <2>4. IsFiniteSet(J)  BY FormIsFinite
  <2> HIDE DEF g, corner
  <2>5. \A k \in Core(e) : g[k] \in Int  BY <1>5, <2>2
  <2>6. Total(g, Core(e)) = Total(Joined(e, g), J)  BY <2>5, CoreSum
  <2>7. Total(g, C) = Total(g, Core(e))
    <3> DEFINE K == Core(e)
    <3>1. K \in SUBSET C /\ \A k \in C \ K : g[k] = 0  BY <2>1, <2>2
    <3> HIDE DEF K, C
    <3>2. \A k \in C : g[k] \in Int  BY <1>5
    <3>3. Total(g, C) = Total(g, K)  BY <2>2, <3>1, <3>2, TotalSkipsZeros
    <3> QED BY <3>3 DEF K
  <2>8. Total(Joined(e, g), J) = Total(corner, J)
    <3> DEFINE jg == Joined(e, g)
    <3>1. \A j \in J : jg[j] = corner[j]  BY <2>3
    <3> HIDE DEF jg, J
    <3>2. Total(jg, J) = Total(corner, J)  BY <2>4, <3>1, TotalAgrees
    <3> QED BY <3>2 DEF jg
  <2> QED BY <2>6, <2>7, <2>8
<1>9. CornersBeat(e.lp, S)
  <2>1. Total(corner, J) > Prod(S, h, R)
    <3>1. Prod(S, h, R) = Total(f, C)  BY <1>2, <1>3
    <3>2. Total(f, C) \in Int /\ Total(g, C) \in Int
      <4>1. IsFiniteSet(C)  BY ColumnsFinite
      <4> HIDE DEF f, g, C
      <4> QED BY <1>5, <4>1, TotalInt
    <3> HIDE DEF f, g, S, h, corner, C, R, J
    <3> QED BY <1>7, <1>8, <3>1, <3>2
  <2> QED BY <2>1 DEF CornersBeat, Rows
<1>10. LinearProgram(e.lp) /\ Ints(S, DOMAIN e.lp.rows)  BY <1>1 DEF FormInv, Rows
<1> HIDE DEF S
<1>11. Refutes(e.lp, S)  BY <1>1, <1>9, <1>10, RefutesBy
<1> QED BY <1>11 DEF S

(* Multipliers under which no parked column wants to leave its bound.      *)
Leans(e, y) ==
  \A k \in Parked(e) :
    k[1] # "a" /\ ~Fixed(e, k) =>
      IF e.status[k] = "NBL" THEN Dot(e, y, k) >= 0 ELSE Dot(e, y, k) <= 0

(* What Grips asks of the basic columns.                                   *)
BasicGrips(e, y) ==
  /\ \A k \in Basic(e) :
       IF Own(e, k)
       THEN /\ Dot(e, y, k) > 0 => e.l[k] > -LP_INF /\ e.x[k] <= e.l[k]
            /\ Dot(e, y, k) < 0 => e.u[k] < LP_INF /\ e.x[k] >= e.u[k]
       ELSE Dot(e, y, k) * e.x[k] <= 0 /\ (k[1] # "a" => Dot(e, y, k) >= 0)
  /\ \E k \in Basic(e) :
       IF Own(e, k)
       THEN \/ Dot(e, y, k) > 0 /\ e.x[k] < e.l[k]
            \/ Dot(e, y, k) < 0 /\ e.x[k] > e.u[k]
       ELSE Dot(e, y, k) * e.x[k] < 0

(* So are products of a vector with a column.                              *)
LEMMA DotInt ==
  ASSUME NEW e, FormInv(e), NEW y, Ints(y, Rows(e)), NEW k \in Columns(e)
  PROVE  Dot(e, y, k) \in Int
<1> DEFINE c == Column(e, k)
           R == Rows(e)
<1>1. Dot(e, y, k) = Prod(y, c, R) /\ Ints(c, R) /\ IsFiniteSet(R) /\ Ints(y, R)
  BY ModelProducts, ColumnInts, FormIsFinite
<1> HIDE DEF c, R
<1>2. Prod(y, c, R) \in Int  BY <1>1, ProdInt
<1> QED BY <1>1, <1>2

(* A vector that leans on the parked columns and on the basic ones grips   *)
(* the values of the struct.                                               *)
LEMMA LeansGrips ==
  ASSUME NEW e, FormInv(e), BasisInv(e), BoxInv(e), ValuesInv(e), AtBounds(e), ~EmptyBox(e),
         NEW y, Ints(y, Rows(e)), Leans(e, y), BasicGrips(e, y)
  PROVE  Grips(e, y, Present(e))
<1> DEFINE w == Present(e)
<1>1. \A k \in Columns(e) : w[k] = IF e.status[k] = "REMOVED" THEN 0 ELSE e.x[k]
  BY DEF Present
<1>2. \A k \in Basic(e) : k \in Columns(e) /\ e.status[k] = "BASIC" /\ w[k] = e.x[k]
  BY <1>1 DEF Basic, BasisInv
<1> HIDE DEF w
<1>3. \E k \in Columns(e) :
       IF Own(e, k)
       THEN \/ Dot(e, y, k) > 0 /\ w[k] < e.l[k]
            \/ Dot(e, y, k) < 0 /\ w[k] > e.u[k]
       ELSE Dot(e, y, k) * w[k] < 0
  <2>1. PICK k \in Basic(e) :
       IF Own(e, k)
       THEN \/ Dot(e, y, k) > 0 /\ e.x[k] < e.l[k]
            \/ Dot(e, y, k) < 0 /\ e.x[k] > e.u[k]
       ELSE Dot(e, y, k) * e.x[k] < 0
    BY DEF BasicGrips
  <2>2. k \in Columns(e) /\ w[k] = e.x[k]  BY <1>2
  <2> QED BY <2>1, <2>2
<1>4. ASSUME NEW k \in Columns(e)
      PROVE  IF Own(e, k)
             THEN /\ Dot(e, y, k) > 0 => e.l[k] > -LP_INF /\ w[k] <= e.l[k]
                  /\ Dot(e, y, k) < 0 => e.u[k] < LP_INF /\ w[k] >= e.u[k]
             ELSE Dot(e, y, k) * w[k] <= 0 /\ (k[1] # "a" => Dot(e, y, k) >= 0)
  <2> DEFINE d == Dot(e, y, k)
             l == e.l[k]
             u == e.u[k]
             x == e.x[k]
  <2>1. d \in Int /\ l \in Int /\ u \in Int /\ x \in Int
    <3>1. l \in Int /\ u \in Int /\ x \in Int  BY DEF BoxInv, ValuesInv
    <3> QED BY <3>1, DotInt
  <2>2. CASE k \in Basic(e)
    <3>1. w[k] = e.x[k]  BY <1>2, <2>2
    <3> QED BY <2>2, <3>1 DEF BasicGrips
  <2>3. CASE e.status[k] = "REMOVED"
    <3>1. k[1] = "a" /\ w[k] = 0  BY <1>1, <2>3 DEF BasisInv
    <3>2. ~Own(e, k)  BY <3>1 DEF Own
    <3> HIDE DEF d
    <3>3. d * 0 = 0  BY <2>1
    <3> QED BY <3>1, <3>2, <3>3 DEF d
  <2>4. CASE k \in Parked(e)
    <3>1. e.status[k] \in {"NBL", "NBU"} /\ w[k] = x  BY <1>1, <2>4 DEF Parked
    <3>2. IF e.status[k] = "NBL" THEN x = l /\ l > -LP_INF ELSE x = u /\ u < LP_INF
      BY <2>4 DEF AtBounds
    <3>3. l <= u  BY <2>1 DEF EmptyBox
    <3>4. k[1] # "a" /\ ~(u <= l) =>
            IF e.status[k] = "NBL" THEN d >= 0 ELSE d <= 0
      BY <2>4 DEF Leans, Fixed
    <3>5. CASE Own(e, k)
      <4>1. k[1] # "a" /\ (l <= -LP_INF \/ Small(l)) /\ (u >= LP_INF \/ Small(u))
        BY <3>5 DEF Own, BoxInv
      <4> HIDE DEF d, l, u, x
      <4>2. (l > -LP_INF => l < LP_INF) /\ (u < LP_INF => u > -LP_INF)
        BY <2>1, <4>1, InfinityInt DEF Small, Abs
      <4>3. CASE u <= l
        <5>1. u = l  BY <2>1, <3>3, <4>3
        <5> QED BY <2>1, <3>1, <3>2, <3>5, <4>2, <5>1 DEF d, l, u
      <4>4. CASE ~(u <= l)
        <5>1. IF e.status[k] = "NBL" THEN d >= 0 ELSE d <= 0  BY <3>4, <4>1, <4>4
        <5> QED BY <2>1, <3>1, <3>2, <3>5, <5>1 DEF d, l, u
      <4> QED BY <4>3, <4>4
    <3>6. CASE ~Own(e, k)
      <4>1. l = 0 /\ (u = LP_INF \/ (k[1] = "a" /\ u = 0)) /\ x = 0
        BY <2>4, <3>6 DEF BoxInv, ValuesInv
      <4>2. k[1] # "a" => d >= 0
        <5> SUFFICES ASSUME k[1] # "a" PROVE d >= 0  OBVIOUS
        <5>1. u = LP_INF  BY <4>1
        <5>2. e.status[k] = "NBL"  BY <3>1, <3>2, <4>1, <5>1, InfinityInt
        <5>3. ~(u <= l)  BY <4>1, <5>1, InfinityInt
        <5> HIDE DEF d, l, u, x
        <5> QED BY <3>4, <5>2, <5>3
      <4>3. d * 0 = 0
        <5> HIDE DEF d
        <5> QED BY <2>1
      <4> HIDE DEF d, x
      <4> QED BY <3>1, <3>6, <4>1, <4>2, <4>3 DEF d
    <3> QED BY <3>5, <3>6
  <2>5. k \in Basic(e) \/ e.status[k] = "REMOVED" \/ k \in Parked(e)
    BY DEF BasisInv, Parked
  <2> QED BY <2>2, <2>3, <2>4, <2>5
<1> QED BY <1>3, <1>4 DEF Grips, w

(* The costs that are priced are integers.                                 *)
LEMMA CostInts ==
  ASSUME NEW e, FormInv(e), CostInv(e)
  PROVE  \A k \in Columns(e) : e.cobj[k] \in Int
<1>1. \A k \in Columns(e) : TrueCost(e)[k] \in Int
  <2> SUFFICES ASSUME NEW k \in Columns(e) PROVE TrueCost(e)[k] \in Int  OBVIOUS
  <2>1. \A j \in DOMAIN e.lp.c : e.lp.c[j] \in Int  BY FormIsFinite
  <2>2. k[1] \in {"x", "n"} => k[2] \in DOMAIN e.lp.c
    <3>1. e.split \subseteq DOMAIN e.lp.c  BY DEF FormInv
    <3> QED BY <3>1, ColumnKinds
  <2> QED BY <2>1, <2>2 DEF TrueCost
<1>2. \A k \in Columns(e) : PhaseOneCost(e)[k] \in Int  BY DEF PhaseOneCost
<1> QED BY <1>1, <1>2 DEF CostInv

(* The duals price the basic columns at their costs.                       *)
LEMMA DualsPriceBasis ==
  ASSUME NEW e, FormInv(e), BasisInv(e), CostInv(e)
  PROVE  /\ Ints(Duals(e), Rows(e))
         /\ \A t \in Rows(e) : Dot(e, Duals(e), e.basis[t]) = e.cobj[e.basis[t]]
         /\ \A k \in Parked(e) : Price(e)[k] = e.cobj[k] - Dot(e, Duals(e), k)
<1> DEFINE R == Rows(e)
           G == e.inv
           B == BasisMatrix(e)
           c == [i \in R |-> e.cobj[e.basis[i]]]
           y == Duals(e)
<1>1. /\ IsFiniteSet(R) /\ Matrix(G, R) /\ Matrix(B, R) /\ IsLeftInverse(G, B, R)
      /\ \A t \in R : e.basis[t] \in Columns(e) /\ B[t] = Column(e, e.basis[t])
  BY FormIsFinite, BasisMatrixFacts DEF BasisInv
<1>2. Ints(c, R)  BY <1>1, CostInts DEF Ints
<1>3. y = [r \in R |-> Prod(c, [i \in R |-> G[i][r]], R)]  BY ModelProducts DEF Duals
<1>4. \A r \in R : y[r] = Prod(c, [i \in R |-> G[i][r]], R)
  <2> HIDE DEF y, c
  <2> QED BY <1>3
<1>5. ASSUME NEW t \in R PROVE Dot(e, y, e.basis[t]) = e.cobj[e.basis[t]]
  <2>1. Prod(y, B[t], R) = c[t]
    <3>1. Prices(y, c, G, R)  BY <1>4 DEF Prices
    <3> HIDE DEF R, G, B, c, y
    <3> QED BY <1>1, <1>2, <3>1, PricesBasis
  <2>2. Dot(e, y, e.basis[t]) = Prod(y, Column(e, e.basis[t]), R)  BY ModelProducts
  <2>3. c[t] = e.cobj[e.basis[t]]  OBVIOUS
  <2> HIDE DEF y, B, c
  <2> QED BY <1>1, <2>1, <2>2, <2>3
<1>6. Ints(y, R)
  <2> SUFFICES ASSUME NEW r \in R PROVE y[r] \in Int  BY DEF Ints
  <2> DEFINE g == [i \in R |-> G[i][r]]
  <2>1. Ints(g, R)  BY <1>1 DEF Matrix, Ints
  <2>2. y[r] = Prod(c, g, R)  BY <1>4
  <2> HIDE DEF g, y, c, R
  <2> QED BY <1>1, <1>2, <2>1, <2>2, ProdInt
<1>7. \A k \in Parked(e) : Price(e)[k] = e.cobj[k] - Dot(e, Duals(e), k)  BY DEF Price
<1> QED BY <1>5, <1>6, <1>7

(* The duals of an iteration with nothing to enter.                        *)
LEMMA NothingEnters ==
  ASSUME NEW e, FormInv(e), BasisInv(e), CostInv(e), Entering(e) = {}, NEW k \in Parked(e),
         ~Fixed(e, k)
  PROVE  /\ e.cobj[k] \in Int /\ Dot(e, Duals(e), k) \in Int
         /\ IF e.status[k] = "NBL" THEN e.cobj[k] <= Dot(e, Duals(e), k)
                                   ELSE e.cobj[k] >= Dot(e, Duals(e), k)
<1>1. k \in Columns(e) /\ e.status[k] \in {"NBL", "NBU"}  BY DEF Parked
<1>2. e.cobj[k] \in Int /\ Dot(e, Duals(e), k) \in Int
  BY <1>1, CostInts, DualsPriceBasis, DotInt
<1> DEFINE rc == Price(e)
<1>3. rc[k] = e.cobj[k] - Dot(e, Duals(e), k)  BY DualsPriceBasis
<1>4. ~Improves(e, rc, k)  BY DEF Entering
<1> HIDE DEF rc
<1> QED BY <1>1, <1>2, <1>3, <1>4 DEF Improves

(* The end of Phase I with a positive artificial: its duals refute the     *)
(* program (solver_farkas_duals).                                          *)
LEMMA PhaseOneRefutes ==
  ASSUME NEW e, StructInv(e), Stands(e), ~EmptyBox(e), ~e.rebuild_pending,
         e.cobj = PhaseOneCost(e), Entering(e) = {},
         \A k \in Columns(e) : e.status[k] # "REMOVED" => Violation(e, k) = 0,
         NEW a \in Basic(e) \cap Artificials(e), e.x[a] > 0
  PROVE  Refutes(e.lp, Signed(e, Duals(e)))
<1> DEFINE y == Duals(e)
           w == Present(e)
<1>1. /\ FormInv(e) /\ BasisInv(e) /\ BoxInv(e) /\ ValuesInv(e) /\ CostInv(e)
      /\ AtBounds(e) /\ RowsHold(e)
  BY DEF StructInv, Stands
<1>2. /\ Ints(y, Rows(e))
      /\ \A t \in Rows(e) : Dot(e, y, e.basis[t]) = e.cobj[e.basis[t]]
  BY <1>1, DualsPriceBasis
<1>3. \A k \in Columns(e) : e.cobj[k] = IF k[1] = "a" THEN -1 ELSE 0
  BY DEF PhaseOneCost
<1>4. \A k \in Basic(e) : k \in Columns(e) /\ e.status[k] = "BASIC"
  BY <1>1 DEF Basic, BasisInv
<1>5. \A k \in Basic(e) : Dot(e, y, k) = IF k[1] = "a" THEN -1 ELSE 0
  <2> HIDE DEF y
  <2> QED BY <1>2, <1>3, <1>4 DEF Basic
<1>6. Leans(e, y)
  <2> SUFFICES ASSUME NEW k \in Parked(e), k[1] # "a", ~Fixed(e, k)
               PROVE  IF e.status[k] = "NBL" THEN Dot(e, y, k) >= 0 ELSE Dot(e, y, k) <= 0
    BY DEF Leans
  <2>1. e.cobj[k] = 0  BY <1>3 DEF Parked
  <2>2. /\ Dot(e, Duals(e), k) \in Int
        /\ IF e.status[k] = "NBL" THEN e.cobj[k] <= Dot(e, Duals(e), k)
                                  ELSE e.cobj[k] >= Dot(e, Duals(e), k)
    BY <1>1, NothingEnters
  <2> HIDE DEF y
  <2> QED BY <2>1, <2>2 DEF y
<1>7. \A k \in Basic(e) : k[1] = "a" => e.x[k] >= 0 /\ e.x[k] \in Int
  <2> SUFFICES ASSUME NEW k \in Basic(e), k[1] = "a" PROVE e.x[k] >= 0 /\ e.x[k] \in Int
    OBVIOUS
  <2>1. k \in Columns(e) /\ e.status[k] = "BASIC"  BY <1>4
  <2>2. Violation(e, k) = 0  BY <2>1
  <2>3. e.x[k] \in Int /\ e.l[k] = 0
    <3>1. ~Own(e, k)  BY DEF Own
    <3> QED BY <1>1, <2>1, <3>1 DEF ValuesInv, BoxInv
  <2>4. ~(e.x[k] < e.l[k])
    <3> SUFFICES ASSUME e.x[k] < e.l[k] PROVE FALSE  OBVIOUS
    <3>1. e.u[k] \in Int /\ e.u[k] >= 0
      <4>1. ~Own(e, k)  BY DEF Own
      <4> QED BY <1>1, <2>1, <4>1, InfinityInt DEF BoxInv
    <3>2. ~(e.x[k] > e.u[k])  BY <2>3, <3>1
    <3>3. Violation(e, k) = e.l[k] - e.x[k]  BY <3>2 DEF Violation
    <3> QED BY <2>2, <2>3, <3>3
  <2> QED BY <2>3, <2>4
<1>8. BasicGrips(e, y)
  <2>1. ASSUME NEW k \in Basic(e)
        PROVE  IF Own(e, k) THEN Dot(e, y, k) = 0
               ELSE Dot(e, y, k) * e.x[k] <= 0 /\ (k[1] # "a" => Dot(e, y, k) >= 0)
    <3>1. CASE k[1] = "a"
      <4>1. ~Own(e, k) /\ Dot(e, y, k) = -1  BY <1>5, <3>1 DEF Own
      <4> HIDE DEF y
      <4> QED BY <1>7, <3>1, <4>1
    <3>2. CASE k[1] # "a"
      <4>1. Dot(e, y, k) = 0 /\ e.x[k] \in Int  BY <1>1, <1>4, <1>5, <3>2 DEF ValuesInv
      <4> HIDE DEF y
      <4> QED BY <4>1
    <3> QED BY <3>1, <3>2
  <2>2. ~Own(e, a) /\ Dot(e, y, a) * e.x[a] < 0
    <3>1. a[1] = "a"  BY DEF Artificials
    <3>2. ~Own(e, a) /\ Dot(e, y, a) = -1  BY <1>5, <3>1 DEF Own
    <3> HIDE DEF y
    <3> QED BY <1>7, <3>1, <3>2
  <2> HIDE DEF y
  <2> QED BY <2>1, <2>2 DEF BasicGrips
<1>9. Grips(e, y, w)
  <2> HIDE DEF y
  <2> QED BY <1>1, <1>2, <1>6, <1>8, LeansGrips
<1>10. \A k \in Columns(e) : w[k] \in Int  BY <1>1 DEF ValuesInv, Present
<1>11. \A i \in Rows(e) : RowSum(e, w, i) = Abs(e.lp.rows[i].b)  BY <1>1 DEF RowsHold
<1>12. Refutes(e.lp, Signed(e, y))
  <2> HIDE DEF y, w
  <2> QED BY <1>1, <1>2, <1>9, <1>10, <1>11, GripsRefute
<1> QED BY <1>12

(* A sum of terms, none larger than its bound.                             *)
LEMMA TotalWithin ==
  ASSUME NEW f, NEW g, NEW S, IsFiniteSet(S),
         \A j \in S : f[j] \in Int /\ g[j] \in Int /\ -g[j] <= f[j] /\ f[j] <= g[j]
  PROVE  /\ Total(f, S) \in Int /\ Total(g, S) \in Int
         /\ -Total(g, S) <= Total(f, S) /\ Total(f, S) <= Total(g, S)
<1> DEFINE h == [j \in S |-> -1 * g[j]]
<1>1. Total(f, S) <= Total(g, S)  BY TotalGrows
<1>2. \A j \in S : h[j] \in Int /\ h[j] = -1 * g[j] /\ h[j] <= f[j]  OBVIOUS
<1> HIDE DEF h
<1>3. Total(h, S) = -1 * Total(g, S)
  <2> PICK a \in Int : a = -1  OBVIOUS
  <2>1. \A j \in S : g[j] \in Int /\ h[j] = a * g[j]  BY <1>2
  <2>2. Total(h, S) = a * Total(g, S)  BY <2>1, TotalScales
  <2>3. Total(g, S) \in Int  BY TotalInt
  <2> QED BY <2>2, <2>3
<1>4. Total(h, S) <= Total(f, S)  BY <1>2, TotalGrows
<1>5. Total(f, S) \in Int /\ Total(g, S) \in Int  BY TotalInt
<1> QED BY <1>1, <1>3, <1>4, <1>5

(* A sum over the columns that have bounds of their own.                   *)
LEMMA OwnSum ==
  ASSUME NEW e, FormInv(e), NEW g, \A k \in Columns(e) : g[k] \in Int,
         \A k \in Columns(e) : ~Own(e, k) => g[k] = 0,
         NEW c, \A j \in DOMAIN e.lp.c : c[j] = IF j \in e.split THEN 0 ELSE g[<<"x", j>>]
  PROVE  Total(g, Columns(e)) = Total(c, DOMAIN e.lp.c)
<1> DEFINE C == Columns(e)
           J == DOMAIN e.lp.c
           K == Core(e)
<1>1. \A k \in C \ K : g[k] = 0
  <2> SUFFICES ASSUME NEW k \in C \ K PROVE ~Own(e, k)  OBVIOUS
  <2>1. k[1] # "x"  BY ColumnKinds
  <2> QED BY <2>1 DEF Own
<1>2. K \in SUBSET C /\ IsFiniteSet(C) /\ IsFiniteSet(J)  BY ColumnsFinite, FormIsFinite DEF Columns
<1>3. \A j \in J : Joined(e, g)[j] = c[j]
  <2> SUFFICES ASSUME NEW j \in J PROVE Joined(e, g)[j] = c[j]  OBVIOUS
  <2>1. <<"x", j>> \in C /\ (j \in e.split => <<"n", j>> \in C)  BY ColumnKinds
  <2>2. Joined(e, g)[j] = g[<<"x", j>>] + (IF j \in e.split THEN g[<<"n", j>>] ELSE 0)
    BY DEF Joined
  <2>3. CASE j \in e.split
    <3>1. g[<<"x", j>>] = 0 /\ g[<<"n", j>>] = 0  BY <2>1, <2>3 DEF Own
    <3> QED BY <2>2, <2>3, <3>1
  <2>4. CASE j \notin e.split
    <3>1. g[<<"x", j>>] \in Int  BY <2>1
    <3> QED BY <2>2, <2>4, <3>1
  <2> QED BY <2>3, <2>4
<1>4. Total(g, K) = Total(Joined(e, g), J)  BY <1>2, CoreSum
<1>5. Total(g, C) = Total(g, K)
  <2> HIDE DEF K
  <2>1. \A k \in C : g[k] \in Int  OBVIOUS
  <2> HIDE DEF C
  <2> QED BY <1>1, <1>2, <2>1, TotalSkipsZeros
<1>6. Total(Joined(e, g), J) = Total(c, J)
  <2> DEFINE jg == Joined(e, g)
  <2>1. \A j \in J : jg[j] = c[j]  BY <1>3
  <2> HIDE DEF jg, J
  <2>2. Total(jg, J) = Total(c, J)  BY <1>2, <2>1, TotalAgrees
  <2> QED BY <2>2 DEF jg
<1> QED BY <1>4, <1>5, <1>6

(* No basic value of a program with modest data is as large as LP_INF.     *)
LEMMA BasicIsModest ==
  ASSUME NEW e, StructInv(e), Stands(e), ~e.rebuild_pending, Described(e.lp), NEW p \in Rows(e)
  PROVE  -LP_INF < e.x[e.basis[p]] /\ e.x[e.basis[p]] < LP_INF
<1> DEFINE R == Rows(e)
           C == Columns(e)
           J == DOMAIN e.lp.c
           y == e.inv[p]
           w == Present(e)
           v == [i \in R |-> Abs(e.lp.rows[i].b)]
           f == [k \in C |-> Dot(e, y, k) * w[k]]
           m == [j \in J |-> Magnitude(e.lp.l[j]) + Magnitude(e.lp.u[j])]
           N == C \ Basic(e)
           h == [k \in C |-> IF Own(e, k) THEN m[k[2]] ELSE 0]
           o == [k \in C |-> IF k \in N THEN f[k] ELSE 0]
           c == [j \in J |-> IF j \in e.split THEN 0 ELSE m[j]]
<1>1. /\ FormInv(e) /\ BasisInv(e) /\ BoxInv(e) /\ ValuesInv(e)
      /\ AtBounds(e) /\ RowsHold(e)
  BY DEF StructInv, Stands
<1>2. /\ IsFiniteSet(R) /\ IsFiniteSet(C) /\ IsFiniteSet(J)
      /\ e.lp.l \in [J -> Int] /\ e.lp.u \in [J -> Int]
  BY <1>1, FormIsFinite, ColumnsFinite
<1>3. /\ Unimodular(e.lp.rows, Len(e.lp.c))
      /\ Total([i \in DOMAIN e.lp.rows |-> Abs(e.lp.rows[i].b)], DOMAIN e.lp.rows)
           + Total([j \in DOMAIN e.lp.l |-> Magnitude(e.lp.l[j]) + Magnitude(e.lp.u[j])], DOMAIN e.lp.l)
           < LP_INF
  BY DescribedFacts
<1>4. Total(v, R) + Total(m, J) < LP_INF
  <2>1. DOMAIN e.lp.l = J  BY <1>2
  <2> QED BY <1>3, <2>1 DEF Rows
<1>5. /\ y \in [R -> {-1, 0, 1}] /\ \A k \in C : Dot(e, y, k) \in {-1, 0, 1}
  <2>1. e.inv \in [R -> [R -> {-1, 0, 1}]]  BY <1>1 DEF BasisInv
  <2>2. e.inv \in [R -> [R -> -2 .. 2]]  BY <2>1
  <2>3. e.basis \in [R -> C] /\ IsLeftInverse(e.inv, BasisMatrix(e), R)  BY <1>1 DEF BasisInv
  <2>4. \A i \in R, k \in C : Prod(e.inv[i], Column(e, k), R) \in {-1, 0, 1}
    BY <1>1, <1>3, <2>2, <2>3, TableauIsUnit
  <2>5. \A k \in C : Dot(e, y, k) = Prod(e.inv[p], Column(e, k), R)  BY ModelProducts
  <2> QED BY <2>1, <2>4, <2>5
<1>6. \A k \in C : w[k] \in Int /\ w[k] = IF e.status[k] = "REMOVED" THEN 0 ELSE e.x[k]
  BY <1>1 DEF ValuesInv, Present
<1>7. Prod(y, v, R) = Total(f, C)
  <2>1. \A i \in R : v[i] = RowSum(e, w, i)  BY <1>1 DEF RowsHold
  <2>2. Ints(y, R)  BY <1>5 DEF Ints
  <2> HIDE DEF v, w, y
  <2>3. Prod(y, v, Rows(e)) = Total([k \in Columns(e) |-> Dot(e, y, k) * w[k]], Columns(e))
    BY <1>1, <1>6, <2>1, <2>2, DotOfRows
  <2> QED BY <2>3
<1>8. \A k \in C : f[k] \in Int
  <2> SUFFICES ASSUME NEW k \in C PROVE Dot(e, y, k) * w[k] \in Int  OBVIOUS
  <2> HIDE DEF w, y
  <2> QED BY <1>5, <1>6
<1> DEFINE fb == [t \in R |-> f[e.basis[t]]]
<1>9. /\ Total(f, C) = Total(fb, R) + Total(f, N)
      /\ Total(fb, R) \in Int /\ Total(f, N) \in Int /\ Basic(e) \subseteq C /\ IsFiniteSet(N)
  <2> HIDE DEF f
  <2> QED BY <1>1, <1>8, SplitByBasis
<1>10. Total(fb, R) = e.x[e.basis[p]]
  <2>1. \A t \in R : e.basis[t] \in C /\ e.basis[t] \in Basic(e) /\ BasisMatrix(e)[t] = Column(e, e.basis[t])
    BY <1>1, BasisMatrixFacts
  <2>2. \A t \in R : Dot(e, y, e.basis[t]) = Delta(p, t)
    <3> SUFFICES ASSUME NEW t \in R PROVE Dot(e, y, e.basis[t]) = Delta(p, t)  OBVIOUS
    <3>1. Dot(e, y, e.basis[t]) = Prod(e.inv[p], BasisMatrix(e)[t], R)  BY <2>1, ModelProducts
    <3>2. Prod(e.inv[p], BasisMatrix(e)[t], R) = Delta(p, t)  BY <1>1 DEF BasisInv, IsLeftInverse
    <3> QED BY <3>1, <3>2
  <2>3. \A t \in R : fb[t] = Delta(p, t) * w[e.basis[t]]
    <3> SUFFICES ASSUME NEW t \in R PROVE fb[t] = Delta(p, t) * w[e.basis[t]]  OBVIOUS
    <3>1. fb[t] = Dot(e, y, e.basis[t]) * w[e.basis[t]]  BY <2>1
    <3> HIDE DEF fb, y, w
    <3> QED BY <2>2, <3>1
  <2>4. \A t \in R : w[e.basis[t]] \in Int  BY <1>6, <2>1
  <2>5. w[e.basis[p]] = e.x[e.basis[p]]
    <3>1. e.status[e.basis[p]] = "BASIC"  BY <1>1, <2>1 DEF BasisInv
    <3> HIDE DEF w
    <3> QED BY <1>6, <2>1, <3>1
  <2> HIDE DEF fb, w
  <2>6. fb[p] = e.x[e.basis[p]] /\ fb[p] \in Int  BY <2>3, <2>4, <2>5 DEF Delta
  <2>7. \A t \in R \ {p} : fb[t] = 0  BY <2>3, <2>4 DEF Delta
  <2> HIDE DEF R
  <2>8. p \in R  BY DEF R
  <2> QED BY <1>2, <2>6, <2>7, <2>8, TotalOfOne
<1>11. -Total(v, R) <= Prod(y, v, R) /\ Prod(y, v, R) <= Total(v, R) /\ Total(v, R) \in Int
       /\ Prod(y, v, R) \in Int
  <2> DEFINE yv == [i \in R |-> y[i] * v[i]]
  <2>1. \A i \in R : v[i] \in Int /\ v[i] >= 0
    <3>1. \A i \in R : e.lp.rows[i].b \in Int  BY <1>1, FormIsFinite
    <3> QED BY <3>1 DEF Abs
  <2>2. \A i \in R : yv[i] \in Int /\ v[i] \in Int /\ -v[i] <= yv[i] /\ yv[i] <= v[i]
    <3> SUFFICES ASSUME NEW i \in R
                 PROVE y[i] * v[i] \in Int /\ -v[i] <= y[i] * v[i] /\ y[i] * v[i] <= v[i]
      BY <2>1
    <3>1. y[i] \in {-1, 0, 1}  BY <1>5
    <3> HIDE DEF y, v
    <3> QED BY <2>1, <3>1
  <2>3. Prod(y, v, R) = Total(yv, R)  BY DEF Prod
  <2> HIDE DEF yv, v, y, R
  <2> QED BY <1>2, <2>2, <2>3, TotalWithin
<1>12. \A j \in J : m[j] \in Int /\ m[j] >= 0 /\ m[j] = Magnitude(e.lp.l[j]) + Magnitude(e.lp.u[j])
  <2> SUFFICES ASSUME NEW j \in J
               PROVE  /\ Magnitude(e.lp.l[j]) \in Int /\ Magnitude(e.lp.l[j]) >= 0
                      /\ Magnitude(e.lp.u[j]) \in Int /\ Magnitude(e.lp.u[j]) >= 0
    OBVIOUS
  <2>1. e.lp.l[j] \in Int /\ e.lp.u[j] \in Int  BY <1>2
  <2> QED BY <2>1, InfinityInt DEF Magnitude, Abs
<1>13. \A k \in C : Own(e, k) => k[2] \in J /\ k = <<"x", k[2]>>
  <2> SUFFICES ASSUME NEW k \in C, Own(e, k) PROVE k[2] \in J /\ k = <<"x", k[2]>>  OBVIOUS
  <2>1. k[1] = "x"  BY DEF Own
  <2> QED BY <1>1, <2>1, ColumnKinds
<1>14. \A k \in C : o[k] \in Int /\ h[k] \in Int /\ h[k] >= 0 /\ -h[k] <= o[k] /\ o[k] <= h[k]
  <2> SUFFICES ASSUME NEW k \in C
               PROVE o[k] \in Int /\ h[k] \in Int /\ h[k] >= 0 /\ -h[k] <= o[k] /\ o[k] <= h[k]
    OBVIOUS
  <2>1. h[k] \in Int /\ h[k] >= 0
    <3> HIDE DEF m
    <3> QED BY <1>12, <1>13
  <2>2. o[k] = IF k \in N THEN f[k] ELSE 0  OBVIOUS
  <2>3. CASE k \notin N
    <3> HIDE DEF o, h
    <3> QED BY <2>1, <2>2, <2>3
  <2>4. CASE k \in N /\ k \in Parked(e)
    <3>1. w[k] = e.x[k]
      <4> HIDE DEF w
      <4> QED BY <1>6, <2>4 DEF Parked
    <3>2. f[k] = Dot(e, y, k) * w[k]  OBVIOUS
    <3>3. -h[k] <= w[k] /\ w[k] <= h[k]
      <4>1. CASE Own(e, k)
        <5>1. h[k] = Magnitude(e.lp.l[k[2]]) + Magnitude(e.lp.u[k[2]])
          <6>1. h[k] = m[k[2]]  BY <4>1
          <6> HIDE DEF h, m
          <6> QED BY <1>12, <1>13, <4>1, <6>1
        <5>2. /\ e.l[k] = e.lp.l[k[2]] /\ e.u[k] = e.lp.u[k[2]] /\ e.l[k] \in Int /\ e.u[k] \in Int
              /\ e.l[k] <= -LP_INF \/ Small(e.l[k])
              /\ e.u[k] >= LP_INF \/ Small(e.u[k])
          BY <1>1, <4>1 DEF BoxInv
        <5>3. IF e.status[k] = "NBL" THEN e.x[k] = e.l[k] /\ e.l[k] > -LP_INF
                                     ELSE e.x[k] = e.u[k] /\ e.u[k] < LP_INF
          BY <1>1, <2>4 DEF AtBounds
        <5> DEFINE l == e.l[k]
                   u == e.u[k]
                   x == e.x[k]
        <5>4. (x = l /\ l > -LP_INF) \/ (x = u /\ u < LP_INF)  BY <5>3
        <5>5. h[k] = Magnitude(l) + Magnitude(u) /\ l \in Int /\ u \in Int
              /\ (l <= -LP_INF \/ Small(l)) /\ (u >= LP_INF \/ Small(u))
          BY <5>1, <5>2
        <5> HIDE DEF l, u, x, h, w
        <5>6. Magnitude(l) >= 0 /\ Magnitude(u) >= 0 /\ Magnitude(l) \in Int /\ Magnitude(u) \in Int
          BY <5>5, InfinityInt DEF Magnitude, Abs
        <5>7. CASE x = l /\ l > -LP_INF
          <6>1. Small(l)  BY <5>5, <5>7, InfinityInt
          <6>2. -Magnitude(l) <= l /\ l <= Magnitude(l)
            BY <5>5, <6>1, InfinityInt DEF Magnitude, Abs, Small
          <6> QED BY <3>1, <5>5, <5>6, <5>7, <6>2 DEF x
        <5>8. CASE x = u /\ u < LP_INF
          <6>1. Small(u)  BY <5>5, <5>8, InfinityInt
          <6>2. -Magnitude(u) <= u /\ u <= Magnitude(u)
            BY <5>5, <6>1, InfinityInt DEF Magnitude, Abs, Small
          <6> QED BY <3>1, <5>5, <5>6, <5>8, <6>2 DEF x
        <5> QED BY <5>4, <5>7, <5>8
      <4>2. CASE ~Own(e, k)
        <5>1. e.x[k] = 0 /\ h[k] = 0  BY <1>1, <2>4, <4>2 DEF ValuesInv
        <5> HIDE DEF h, w
        <5> QED BY <3>1, <5>1
      <4> QED BY <4>1, <4>2
    <3>4. Dot(e, y, k) \in {-1, 0, 1}  BY <1>5
    <3>5. w[k] \in Int  BY <1>6
    <3> HIDE DEF o, h, w, y, f
    <3> QED BY <2>1, <2>2, <2>4, <3>2, <3>3, <3>4, <3>5
  <2>5. CASE k \in N /\ k \notin Parked(e)
    <3>1. e.status[k] = "REMOVED"  BY <1>1, <2>5 DEF BasisInv, Parked
    <3>2. w[k] = 0  BY <1>6, <3>1
    <3>3. f[k] = Dot(e, y, k) * w[k]  OBVIOUS
    <3>4. Dot(e, y, k) \in Int  BY <1>5
    <3> HIDE DEF o, h, w, y, f
    <3> QED BY <2>1, <2>2, <2>5, <3>2, <3>3, <3>4
  <2> QED BY <2>3, <2>4, <2>5
<1>15. Total(f, N) = Total(o, C)
  <2>1. \A k \in C : o[k] \in Int  BY <1>14
  <2>2. \A k \in N : o[k] = f[k]  BY <1>9
  <2>3. \A k \in C \ N : o[k] = 0  OBVIOUS
  <2>4. N \in SUBSET C  OBVIOUS
  <2> HIDE DEF o, N, C, f
  <2>5. Total(o, C) = Total(o, N)  BY <1>2, <2>1, <2>3, <2>4, TotalSkipsZeros
  <2>6. Total(o, N) = Total(f, N)  BY <1>9, <2>2, TotalAgrees
  <2> QED BY <2>5, <2>6
<1>16. /\ -Total(h, C) <= Total(o, C) /\ Total(o, C) <= Total(h, C)
       /\ Total(h, C) \in Int /\ Total(o, C) \in Int
  <2> HIDE DEF o, h, C
  <2> QED BY <1>2, <1>14, TotalWithin
<1>17. Total(h, C) = Total(c, J)
  <2>1. \A k \in C : h[k] \in Int  BY <1>14
  <2>2. \A k \in C : ~Own(e, k) => h[k] = 0  OBVIOUS
  <2>3. \A j \in J : c[j] = IF j \in e.split THEN 0 ELSE h[<<"x", j>>]
    <3> SUFFICES ASSUME NEW j \in J, j \notin e.split PROVE m[j] = h[<<"x", j>>]  BY Zenon
    <3>1. <<"x", j>> \in C /\ Own(e, <<"x", j>>)  BY <1>1, ColumnKinds DEF Own
    <3> QED BY <3>1
  <2> HIDE DEF h, c
  <2> QED BY <1>1, <2>1, <2>2, <2>3, OwnSum
<1>18. Total(c, J) <= Total(m, J) /\ Total(m, J) \in Int
  <2>1. \A j \in J : c[j] \in Int /\ m[j] \in Int /\ c[j] <= m[j]
    <3> HIDE DEF m
    <3> QED BY <1>12
  <2> HIDE DEF c, m, J
  <2> QED BY <1>2, <2>1, TotalGrows, TotalInt
<1> HIDE DEF f, fb, N, h, o, c, v, y, m, C, J, R
<1> QED BY <1>4, <1>7, <1>9, <1>10, <1>11, <1>15, <1>16, <1>17, <1>18, InfinityInt

(* The column in slot p leaves in direction D: it is beyond that bound.    *)
Leaving(e, p, D) ==
  /\ p \in Rows(e)
  /\ \/ D = 1 /\ e.x[e.basis[p]] < e.l[e.basis[p]]
     \/ D = -1 /\ e.x[e.basis[p]] > e.u[e.basis[p]]

(* The bound it leaves at.                                                 *)
Target(e, p, D) == IF D > 0 THEN e.l[e.basis[p]] ELSE e.u[e.basis[p]]

(* The entries of the tableau, and the numbers of a basic column.          *)
LEMMA TableauFacts ==
  ASSUME NEW e, StructInv(e), Unimodular(e.lp.rows, Len(e.lp.c))
  PROVE  /\ \A p \in Rows(e), k \in Columns(e) :
              /\ Dot(e, e.inv[p], k) = Ftran(e, Column(e, k))[p]
              /\ Dot(e, e.inv[p], k) \in {-1, 0, 1}
         /\ \A p \in Rows(e) :
              /\ e.basis[p] \in Columns(e) /\ e.basis[p] \in Basic(e)
              /\ e.x[e.basis[p]] \in Int /\ e.l[e.basis[p]] \in Int /\ e.u[e.basis[p]] \in Int
<1>1. FormInv(e) /\ BasisInv(e) /\ BoxInv(e) /\ ValuesInv(e)  BY DEF StructInv
<1>2. e.inv \in [Rows(e) -> [Rows(e) -> -2 .. 2]]
  <2>1. e.inv \in [Rows(e) -> [Rows(e) -> {-1, 0, 1}]]  BY <1>1 DEF BasisInv
  <2>2. \A i, k \in Rows(e) : e.inv[i][k] \in -2 .. 2  BY <2>1
  <2> QED BY <2>1, <2>2
<1>3. \A i \in Rows(e), k \in Columns(e) : Prod(e.inv[i], Column(e, k), Rows(e)) \in {-1, 0, 1}
  BY <1>1, <1>2, TableauIsUnit DEF BasisInv
<1>4. \A i \in Rows(e), k \in Columns(e) :
        /\ Dot(e, e.inv[i], k) = Prod(e.inv[i], Column(e, k), Rows(e))
        /\ Ftran(e, Column(e, k))[i] = Prod(e.inv[i], Column(e, k), Rows(e))
  BY <1>1, ModelProducts, TableauInt
<1>5. \A p \in Rows(e) : e.basis[p] \in Columns(e) /\ e.basis[p] \in Basic(e)
  BY <1>1, BasisMatrixFacts
<1> QED BY <1>1, <1>3, <1>4, <1>5 DEF BoxInv, ValuesInv

(* A pivot of the dual simplex is a step along the ray of the entering     *)
(* column to the violated bound of the leaving one.                        *)
LEMMA DualMoveIs ==
  ASSUME NEW e, StructInv(e), AtBounds(e), Unimodular(e.lp.rows, Len(e.lp.c)),
         NEW p, NEW D, Leaving(e, p, D), NEW q \in Pushes(e, p, D), NEW r, r = DualMove(e, p, D, q)
  PROVE  /\ q \in Parked(e) /\ r.x[e.basis[p]] = Target(e, p, D)
         /\ \E th : Exchanged(e, q, r, th, p, IF D > 0 THEN "NBL" ELSE "NBU")
<1> DEFINE C == Columns(e)
           sq == IF e.status[q] = "NBU" THEN -1 ELSE 1
           d == Ftran(e, Column(e, q))
           k == e.basis[p]
           target == IF D > 0 THEN e.l[k] ELSE e.u[k]
           t == (e.x[k] - target) * sq * d[p]
           at == IF D > 0 THEN "NBL" ELSE "NBU"
           X == [c \in Columns(e) |->
                  IF c = q THEN (IF sq > 0 THEN e.l[q] ELSE e.u[q]) + sq * t
                  ELSE IF c = k THEN target
                  ELSE IF c \in Basic(e)
                  THEN e.x[c] - sq * t * d[CHOOSE i \in Rows(e) : e.basis[i] = c]
                  ELSE e.x[c]]
           moved == [e EXCEPT !.x = X, !.iters = @ + 1]
<1>1. r = Exchange(moved, q, d, p, at)  BY DEF DualMove
<1>2. FormInv(e) /\ BasisInv(e) /\ BoxInv(e) /\ ValuesInv(e) /\ IsStruct(e)  BY DEF StructInv
<1>3. /\ q \in Parked(e) /\ q \in C /\ q \in C \ Basic(e) /\ e.status[q] \in {"NBL", "NBU"}
      /\ sq = Dir(e, q) /\ sq \in {-1, 1} /\ p \in Rows(e) /\ D \in {-1, 1}
  BY <1>2 DEF Parked, BasisInv, Dir, Pushes, Leaving
<1>4. /\ \A i \in Rows(e) : d[i] \in {-1, 0, 1} /\ e.basis[i] \in C /\ e.basis[i] \in Basic(e)
                            /\ e.x[e.basis[i]] \in Int
      /\ k \in C /\ k \in Basic(e) /\ e.x[k] \in Int /\ target \in Int /\ k # q
  BY <1>3, TableauFacts
<1>5. d[p] \in {-1, 1}
  <2>1. D * (IF e.status[q] = "NBU" THEN -1 ELSE 1) * Dot(e, e.inv[p], q) < 0  BY DEF Pushes
  <2>2. Dot(e, e.inv[p], q) = d[p] /\ d[p] \in {-1, 0, 1}  BY <1>3, <1>4, TableauFacts
  <2> HIDE DEF d
  <2> QED BY <1>3, <2>1, <2>2
<1>6. t \in Int /\ sq * t \in Int /\ e.x[k] - sq * t * d[p] = target
  <2> DEFINE a == d[p]
             g == e.x[k] - target
  <2>1. a \in {-1, 1} /\ sq \in {-1, 1} /\ g \in Int /\ t = g * sq * a  BY <1>3, <1>4, <1>5
  <2>2. target = e.x[k] - g  BY <1>4
  <2> HIDE DEF a, sq, g
  <2>3. t \in Int /\ sq * t \in Int /\ sq * t * a = g  BY <2>1
  <2> HIDE DEF t
  <2> QED BY <1>4, <2>2, <2>3 DEF a
<1>7. IsRay(e, q, sq, Ray(e, q)) /\ \A c \in C : Ray(e, q)[c] \in Int
  BY <1>2, <1>3, RayIs
<1>8. e.x[q] = IF sq > 0 THEN e.l[q] ELSE e.u[q]
  <2>1. sq > 0 <=> e.status[q] = "NBL"  BY <1>3
  <2> HIDE DEF sq
  <2> QED BY <1>3, <2>1 DEF AtBounds
<1>9. \A c \in C : e.x[c] \in Int  BY <1>2 DEF ValuesInv
<1>10. ASSUME NEW c \in C PROVE X[c] = e.x[c] + t * Ray(e, q)[c] /\ X[c] \in Int
  <2>1. CASE c = q
    <3>1. X[c] = e.x[q] + sq * t  BY <1>8, <2>1
    <3>2. Ray(e, q)[c] = sq  BY <1>7, <2>1 DEF IsRay
    <3> HIDE DEF X, t, sq
    <3> QED BY <1>3, <1>6, <1>9, <2>1, <3>1, <3>2
  <2>2. CASE c \in Basic(e)
    <3> PICK i \in Rows(e) : c = e.basis[i]  BY <2>2 DEF Basic
    <3>1. (CHOOSE h \in Rows(e) : e.basis[h] = c) = i  BY <1>2, SlotOf
    <3>2. Ray(e, q)[c] = -sq * d[i]  BY <1>7 DEF IsRay
    <3>3. c # q  BY <1>3, <2>2
    <3>4. X[c] = e.x[c] - sq * t * d[i]
      <4>1. CASE c = k
        <5>1. i = p  BY <1>2, <1>3, <4>1 DEF BasisInv
        <5>2. X[c] = target  BY <3>3, <4>1
        <5> HIDE DEF X, t, sq, d, target
        <5> QED BY <1>6, <4>1, <5>1, <5>2
      <4>2. CASE c # k
        <5>1. X[c] = e.x[c] - sq * t * d[CHOOSE h \in Rows(e) : e.basis[h] = c]  BY <2>2, <3>3, <4>2
        <5> HIDE DEF X, t, sq, d
        <5> QED BY <3>1, <5>1
      <4> QED BY <4>1, <4>2
    <3>5. d[i] \in {-1, 0, 1} /\ e.x[c] \in Int  BY <1>4, <1>9
    <3> DEFINE a == d[i]
    <3>6. a \in {-1, 0, 1} /\ X[c] = e.x[c] - sq * t * a /\ Ray(e, q)[c] = -sq * a
      BY <3>2, <3>4, <3>5, Zenon
    <3> HIDE DEF X, t, sq, a
    <3>7. \A g \in {-1, 1}, b \in {-1, 0, 1}, u, x \in Int :
            x - g * u * b = x + u * (-g * b) /\ x - g * u * b \in Int
      OBVIOUS
    <3> DEFINE x == e.x[c]
    <3>8. x \in Int /\ t \in Int /\ sq \in {-1, 1} /\ a \in {-1, 0, 1}  BY <1>3, <1>6, <3>5, <3>6
    <3>9. X[c] = x - sq * t * a /\ Ray(e, q)[c] = -sq * a  BY <3>6
    <3> HIDE DEF x
    <3>10. x - sq * t * a = x + t * (-sq * a) /\ x - sq * t * a \in Int  BY <3>7, <3>8
    <3>11. X[c] = x + t * Ray(e, q)[c] /\ X[c] \in Int  BY <3>9, <3>10
    <3> QED BY <3>11 DEF x
  <2>3. CASE c # q /\ c \notin Basic(e)
    <3>1. X[c] = e.x[c]  BY <1>4, <2>3
    <3>2. Ray(e, q)[c] = 0  BY <1>7, <2>3 DEF IsRay
    <3> HIDE DEF X, t
    <3> QED BY <1>6, <1>9, <3>1, <3>2
  <2> QED BY <1>3, <2>1, <2>2, <2>3
<1>11. X \in [C -> Int] /\ X[k] = target
  <2>1. X[k] = target  BY <1>4
  <2>2. X = [c \in C |-> X[c]]  OBVIOUS
  <2> HIDE DEF X
  <2> QED BY <1>10, <2>1, <2>2
<1>12. /\ IsStruct(r) /\ Keeps(r, e, Moving) /\ r.x = X /\ r.basis = [e.basis EXCEPT ![p] = q]
       /\ r.inv = Eta(moved, d, p)
       /\ r.status = [[e.status EXCEPT ![e.basis[p]] = at] EXCEPT ![q] = "BASIC"]
  <2> HIDE DEF X, d, at
  <2> QED BY <1>1, <1>2, Zenon DEF IsStruct, Fields, Keeps, Moving, Exchange
<1>13. Eta(moved, d, p) = Eta(e, d, p)
  <2>1. moved.inv = e.inv /\ moved.lp = e.lp
    <3> HIDE DEF X
    <3> QED BY <1>2 DEF IsStruct, Fields
  <2> HIDE DEF moved, d
  <2> QED BY <2>1 DEF Eta, Rows
<1>14. Advanced(e, q, r, t)
  <2> HIDE DEF X, t, moved
  <2> QED BY <1>6, <1>10, <1>11, <1>12 DEF Advanced
<1>15. Swapped(e, q, r, p, at)
  <2>1. d[p] # 0 /\ at \in {"NBL", "NBU"}  BY <1>5
  <2> HIDE DEF at, X, moved
  <2> QED BY <1>3, <1>12, <1>13, <2>1 DEF Swapped
<1>16. Exchanged(e, q, r, t, p, at)  BY <1>14, <1>15 DEF Exchanged
<1> HIDE DEF X, t, moved
<1> QED BY <1>3, <1>11, <1>12, <1>16 DEF Target

(* The bound the leaving column is beyond is a bound.                      *)
LEMMA TargetIsFinite ==
  ASSUME NEW e, StructInv(e), Stands(e), ~e.rebuild_pending, Described(e.lp),
         NEW p, NEW D, Leaving(e, p, D)
  PROVE  IF D > 0 THEN e.l[e.basis[p]] > -LP_INF ELSE e.u[e.basis[p]] < LP_INF
<1>1. p \in Rows(e)  BY DEF Leaving
<1>2. -LP_INF < e.x[e.basis[p]] /\ e.x[e.basis[p]] < LP_INF  BY <1>1, BasicIsModest
<1>3. e.x[e.basis[p]] \in Int /\ e.l[e.basis[p]] \in Int /\ e.u[e.basis[p]] \in Int
  BY <1>1, DescribedFacts, TableauFacts
<1> QED BY <1>2, <1>3, InfinityInt DEF Leaving

(* A pivot of the dual simplex keeps the simplex state standing.           *)
LEMMA DualMoveKeeps ==
  ASSUME NEW e, StructInv(e), RunningInv(e), Described(e.lp),
         NEW p, NEW D, Leaving(e, p, D), NEW q \in Pushes(e, p, D), NEW r, r = DualMove(e, p, D, q)
  PROVE  StructInv(r) /\ RunningInv(r) /\ Keeps(r, e, Moving) /\ IsStruct(r)
<1>1. /\ Stands(e) /\ AtBounds(e) /\ ~e.rebuild_pending /\ Unimodular(e.lp.rows, Len(e.lp.c))
  BY DescribedFacts DEF RunningInv, Stands
<1> DEFINE at == IF D > 0 THEN "NBL" ELSE "NBU"
<1>2. /\ q \in Parked(e) /\ r.x[e.basis[p]] = Target(e, p, D)
      /\ \E th : Exchanged(e, q, r, th, p, at)
  BY <1>1, DualMoveIs
<1>3. PICK th : Exchanged(e, q, r, th, p, at)  BY <1>2
<1>4. IF D > 0 THEN e.l[e.basis[p]] > -LP_INF ELSE e.u[e.basis[p]] < LP_INF
  BY <1>1, TargetIsFinite
<1>5. IF at = "NBL" THEN r.x[e.basis[p]] = e.l[e.basis[p]] /\ e.l[e.basis[p]] > -LP_INF
                    ELSE r.x[e.basis[p]] = e.u[e.basis[p]] /\ e.u[e.basis[p]] < LP_INF
  BY <1>2, <1>4 DEF Target
<1> HIDE DEF at
<1>6. StructInv(r) /\ RunningInv(r)  BY <1>1, <1>2, <1>3, <1>5, ExchangedKeeps
<1>7. Keeps(r, e, Moving) /\ IsStruct(r)  BY <1>3 DEF Exchanged, Advanced
<1> QED BY <1>6, <1>7

(* The dual ray of slot p in direction D: a row of the factors, signed.    *)
DualRow(e, p, D) == [r \in Rows(e) |-> D * e.inv[p][r]]

(* The row of the tableau that the dual ray of slot p in direction D is.   *)
LEMMA DualRayRow ==
  ASSUME NEW e, StructInv(e), Unimodular(e.lp.rows, Len(e.lp.c)), NEW p \in Rows(e),
         NEW D \in {-1, 1}, NEW y, y = DualRow(e, p, D)
  PROVE  /\ Ints(y, Rows(e))
         /\ \A k \in Columns(e) : Dot(e, y, k) = D * Dot(e, e.inv[p], k) /\ Dot(e, y, k) \in {-1, 0, 1}
         /\ \A t \in Rows(e) : Dot(e, y, e.basis[t]) = D * Delta(p, t)
<1> DEFINE R == Rows(e)
           g == e.inv[p]
<1>1. FormInv(e) /\ BasisInv(e)  BY DEF StructInv
<1>2. IsFiniteSet(R) /\ \A r \in R : g[r] \in {-1, 0, 1}  BY <1>1, FormIsFinite DEF BasisInv
<1>3. \A r \in R : y[r] = D * g[r] /\ y[r] \in Int
  <2>1. \A r \in R : y[r] = D * g[r]  BY DEF DualRow
  <2> HIDE DEF g
  <2> QED BY <1>2, <2>1
<1>4. Ints(y, R) /\ Ints(g, R)  BY <1>2, <1>3 DEF Ints
<1>5. ASSUME NEW k \in Columns(e)
      PROVE  Dot(e, y, k) = D * Dot(e, g, k) /\ Dot(e, y, k) \in {-1, 0, 1}
  <2> DEFINE c == Column(e, k)
  <2>1. Ints(c, R)  BY <1>1, ColumnInts
  <2>2. Dot(e, y, k) = Prod(y, c, R) /\ Dot(e, g, k) = Prod(g, c, R)  BY ModelProducts
  <2>3. Dot(e, g, k) \in {-1, 0, 1}  BY TableauFacts
  <2>4. D \in Int  OBVIOUS
  <2> HIDE DEF c, g, R
  <2>5. Prod(y, c, R) = D * Prod(g, c, R)  BY <1>2, <1>3, <1>4, <2>1, <2>4, ProdScales
  <2> QED BY <2>2, <2>3, <2>5
<1>6. ASSUME NEW t \in R PROVE Dot(e, y, e.basis[t]) = D * Delta(p, t)
  <2>1. /\ e.basis[t] \in Columns(e) /\ BasisMatrix(e)[t] = Column(e, e.basis[t])
    BY <1>1, BasisMatrixFacts
  <2>2. Dot(e, g, e.basis[t]) = Prod(e.inv[p], BasisMatrix(e)[t], R)  BY <2>1, ModelProducts
  <2>3. Prod(e.inv[p], BasisMatrix(e)[t], R) = Delta(p, t)  BY <1>1 DEF BasisInv, IsLeftInverse
  <2> HIDE DEF g
  <2> QED BY <1>5, <2>1, <2>2, <2>3
<1> QED BY <1>4, <1>5, <1>6

(* A violated column that nothing can push back: its row refutes the       *)
(* program (solver_dual_farkas).                                           *)
LEMMA DualRefutes ==
  ASSUME NEW e, StructInv(e), RunningInv(e), Described(e.lp),
         NEW p, NEW D, Leaving(e, p, D), Pushes(e, p, D) = {},
         NEW y, y = DualRow(e, p, D)
  PROVE  Refutes(e.lp, Signed(e, y))
<1> DEFINE w == Present(e)
           b == e.basis[p]
<1>1. /\ FormInv(e) /\ BasisInv(e) /\ BoxInv(e) /\ ValuesInv(e)
      /\ Stands(e) /\ AtBounds(e) /\ RowsHold(e) /\ ~EmptyBox(e) /\ ~e.rebuild_pending
      /\ Unimodular(e.lp.rows, Len(e.lp.c))
  BY DescribedFacts DEF StructInv, RunningInv, Stands
<1>2. p \in Rows(e) /\ D \in {-1, 1}  BY DEF Leaving
<1>3. /\ Ints(y, Rows(e))
      /\ \A k \in Columns(e) : Dot(e, y, k) = D * Dot(e, e.inv[p], k) /\ Dot(e, y, k) \in {-1, 0, 1}
      /\ \A t \in Rows(e) : Dot(e, y, e.basis[t]) = D * Delta(p, t)
  BY <1>1, <1>2, DualRayRow
<1>4. /\ \A t \in Rows(e) : e.basis[t] \in Columns(e) /\ e.basis[t] \in Basic(e) /\ e.x[e.basis[t]] \in Int
      /\ e.l[b] \in Int /\ e.u[b] \in Int
  BY <1>1, <1>2, TableauFacts
<1>5. Leans(e, y)
  <2> SUFFICES ASSUME NEW k \in Parked(e), k[1] # "a", ~Fixed(e, k)
               PROVE  IF e.status[k] = "NBL" THEN Dot(e, y, k) >= 0 ELSE Dot(e, y, k) <= 0
    BY DEF Leans
  <2>1. k \in Columns(e) /\ e.status[k] \in {"NBL", "NBU"}  BY DEF Parked
  <2>2. ~(D * (IF e.status[k] = "NBU" THEN -1 ELSE 1) * Dot(e, e.inv[p], k) < 0)
    BY DEF Pushes
  <2>3. Dot(e, y, k) = D * Dot(e, e.inv[p], k) /\ Dot(e, e.inv[p], k) \in {-1, 0, 1}
    BY <1>1, <1>2, <1>3, <2>1, TableauFacts
  <2> DEFINE a == Dot(e, e.inv[p], k)
  <2>4. a \in {-1, 0, 1} /\ Dot(e, y, k) = D * a
        /\ ~(D * (IF e.status[k] = "NBU" THEN -1 ELSE 1) * a < 0)
    BY <2>2, <2>3
  <2> HIDE DEF a
  <2> QED BY <1>2, <2>1, <2>4
<1>6. IF D > 0 THEN e.l[b] > -LP_INF ELSE e.u[b] < LP_INF
  BY <1>1, TargetIsFinite
<1>7. BasicGrips(e, y)
  <2>1. \A t \in Rows(e) : Dot(e, y, e.basis[t]) = IF t = p THEN D ELSE 0
    BY <1>2, <1>3 DEF Delta
  <2>2. Dot(e, y, b) = D /\ b \in Basic(e) /\ b \in Columns(e) /\ e.x[b] \in Int  BY <1>2, <1>4, <2>1
  <2>3. ~Own(e, b) => e.l[b] = 0 /\ (e.u[b] = LP_INF \/ (b[1] = "a" /\ e.u[b] = 0))
    BY <1>1, <2>2 DEF BoxInv
  <2>4. \/ D = 1 /\ e.x[b] < e.l[b] /\ e.l[b] > -LP_INF
        \/ D = -1 /\ e.x[b] > e.u[b] /\ e.u[b] < LP_INF
    BY <1>6 DEF Leaving
  <2>5. ASSUME NEW k \in Basic(e), k # b
        PROVE  Dot(e, y, k) = 0 /\ e.x[k] \in Int
    <3> PICK t \in Rows(e) : k = e.basis[t]  BY DEF Basic
    <3> QED BY <1>4, <2>1, <2>5
  <2>6. IF Own(e, b)
        THEN /\ Dot(e, y, b) > 0 => e.l[b] > -LP_INF /\ e.x[b] <= e.l[b]
             /\ Dot(e, y, b) < 0 => e.u[b] < LP_INF /\ e.x[b] >= e.u[b]
             /\ \/ Dot(e, y, b) > 0 /\ e.x[b] < e.l[b]
                \/ Dot(e, y, b) < 0 /\ e.x[b] > e.u[b]
        ELSE /\ Dot(e, y, b) * e.x[b] < 0 /\ (b[1] # "a" => Dot(e, y, b) >= 0)
    <3> DEFINE x == e.x[b]
               z == Dot(e, y, b)
    <3>1. /\ z = D /\ x \in Int /\ e.l[b] \in Int /\ e.u[b] \in Int
          /\ (D = 1 /\ x < e.l[b] /\ e.l[b] > -LP_INF) \/ (D = -1 /\ x > e.u[b] /\ e.u[b] < LP_INF)
      BY <1>4, <2>2, <2>4
    <3> HIDE DEF x, z, b
    <3>2. IF Own(e, b)
        THEN /\ z > 0 => e.l[b] > -LP_INF /\ x <= e.l[b]
             /\ z < 0 => e.u[b] < LP_INF /\ x >= e.u[b]
             /\ \/ z > 0 /\ x < e.l[b]
                \/ z < 0 /\ x > e.u[b]
        ELSE /\ z * x < 0 /\ (b[1] # "a" => z >= 0)
      <4>1. CASE D = 1  BY <2>3, <3>1, <4>1, InfinityInt
      <4>2. CASE D = -1  BY <2>3, <3>1, <4>2, InfinityInt
      <4> QED BY <1>2, <4>1, <4>2
    <3> QED BY <3>2 DEF x, z
  <2>7. Own(e, b) => e.x[b] \in Int  BY <2>2
  <2>8. ASSUME NEW k \in Basic(e)
        PROVE  IF Own(e, k)
               THEN /\ Dot(e, y, k) > 0 => e.l[k] > -LP_INF /\ e.x[k] <= e.l[k]
                    /\ Dot(e, y, k) < 0 => e.u[k] < LP_INF /\ e.x[k] >= e.u[k]
               ELSE Dot(e, y, k) * e.x[k] <= 0 /\ (k[1] # "a" => Dot(e, y, k) >= 0)
    <3>1. CASE k = b
      <4>1. Dot(e, y, k) * e.x[k] < 0 => Dot(e, y, k) * e.x[k] <= 0
        <5> DEFINE z == Dot(e, y, k)
                   x == e.x[k]
        <5>1. z \in Int /\ x \in Int  BY <1>2, <2>2, <3>1
        <5> HIDE DEF z, x
        <5>2. z * x < 0 => z * x <= 0  BY <5>1
        <5> QED BY <5>2 DEF z, x
      <4> QED BY <2>6, <3>1, <4>1
    <3>2. CASE k # b
      <4>1. Dot(e, y, k) = 0 /\ e.x[k] \in Int  BY <2>5, <3>2
      <4> QED BY <4>1
    <3> QED BY <3>1, <3>2
  <2> HIDE DEF b
  <2> QED BY <2>2, <2>6, <2>8 DEF BasicGrips
<1>8. Grips(e, y, w)  BY <1>1, <1>3, <1>5, <1>7, LeansGrips
<1>9. \A k \in Columns(e) : w[k] \in Int  BY <1>1 DEF ValuesInv, Present
<1>10. \A i \in Rows(e) : RowSum(e, w, i) = Abs(e.lp.rows[i].b)  BY <1>1 DEF RowsHold
<1> HIDE DEF w
<1> QED BY <1>1, <1>3, <1>8, <1>9, <1>10, GripsRefute

(* What an iteration of the dual simplex returns.                          *)
LEMMA DualIterateIs ==
  ASSUME NEW e, StructInv(e), RunningInv(e), Described(e.lp), NEW o \in dual_iterate(e)
  PROVE  \/ o = <<0, e>>
         \/ o[1] = 1 /\ StructInv(o[2]) /\ RunningInv(o[2]) /\ Keeps(o[2], e, Moving) /\ IsStruct(o[2])
         \/ \E y : /\ o = <<2, [e EXCEPT !.dfarkas_ray = y]>> /\ Refutes(e.lp, Signed(e, y))
                   /\ Ints(Signed(e, y), DOMAIN e.lp.rows)
<1> DEFINE violated == {i \in Rows(e) : Violation(e, e.basis[i]) > 0}
<1>1. o = <<0, e>> \/ \E p \in violated : o \in DualOutcomes(e, p)  BY DEF dual_iterate
<1>2. /\ IsStruct(e) /\ FormInv(e) /\ BasisInv(e) /\ AtBounds(e)
      /\ Unimodular(e.lp.rows, Len(e.lp.c))
  BY DescribedFacts DEF StructInv, RunningInv, Stands
<1>3. ASSUME NEW p \in violated, o \in DualOutcomes(e, p)
      PROVE  \/ o[1] = 1 /\ StructInv(o[2]) /\ RunningInv(o[2]) /\ Keeps(o[2], e, Moving) /\ IsStruct(o[2])
             \/ \E y : /\ o = <<2, [e EXCEPT !.dfarkas_ray = y]>> /\ Refutes(e.lp, Signed(e, y))
                       /\ Ints(Signed(e, y), DOMAIN e.lp.rows)
  <2> DEFINE D == IF e.x[e.basis[p]] < e.l[e.basis[p]] THEN 1 ELSE -1
             y == DualRow(e, p, D)
  <2>1. Leaving(e, p, D)
    <3>1. p \in Rows(e) /\ Violation(e, e.basis[p]) > 0  OBVIOUS
    <3>2. e.x[e.basis[p]] \in Int /\ e.l[e.basis[p]] \in Int /\ e.u[e.basis[p]] \in Int
      BY <1>2, <3>1, TableauFacts
    <3>3. ~(e.x[e.basis[p]] < e.l[e.basis[p]]) /\ ~(e.x[e.basis[p]] > e.u[e.basis[p]])
            => Violation(e, e.basis[p]) = 0
      BY DEF Violation
    <3>4. e.x[e.basis[p]] < e.l[e.basis[p]] \/ e.x[e.basis[p]] > e.u[e.basis[p]]  BY <3>1, <3>3
    <3> QED BY <3>1, <3>4 DEF Leaving
  <2>2. \/ \E q \in Pushes(e, p, D) : o = <<1, DualMove(e, p, D, q)>>
        \/ o = <<1, recompute_basic(e)>>
        \/ Pushes(e, p, D) = {} /\ o = <<2, [e EXCEPT !.dfarkas_ray = y]>>
    BY <1>3 DEF DualOutcomes, DualRow
  <2> HIDE DEF D
  <2>3. ASSUME NEW q \in Pushes(e, p, D), o = <<1, DualMove(e, p, D, q)>>
        PROVE  o[1] = 1 /\ StructInv(o[2]) /\ RunningInv(o[2]) /\ Keeps(o[2], e, Moving) /\ IsStruct(o[2])
    <3> DEFINE r == DualMove(e, p, D, q)
    <3>0. o = <<1, r>>  BY <2>3
    <3>1. o[1] = 1 /\ o[2] = r
      <4> HIDE DEF r
      <4> QED BY <3>0
    <3>2. r = DualMove(e, p, D, q)  OBVIOUS
    <3> HIDE DEF r
    <3>3. StructInv(r) /\ RunningInv(r) /\ Keeps(r, e, Moving) /\ IsStruct(r)
      BY <2>1, <3>2, DualMoveKeeps
    <3> QED BY <3>1, <3>3
  <2>4. ASSUME o = <<1, recompute_basic(e)>>
        PROVE  o[1] = 1 /\ StructInv(o[2]) /\ RunningInv(o[2]) /\ Keeps(o[2], e, Moving) /\ IsStruct(o[2])
    <3> DEFINE r == recompute_basic(e)
    <3>0. o = <<1, r>>  BY <2>4
    <3>1. o[1] = 1 /\ o[2] = r
      <4> HIDE DEF r
      <4> QED BY <3>0
    <3>2. r = recompute_basic(e)  OBVIOUS
    <3> HIDE DEF r
    <3>3. StructInv(r) /\ Stands(r) /\ Keeps(r, e, {"x"})  BY <1>2, <3>2, RecomputeKeeps
    <3>4. Keeps(r, e, Moving) /\ IsStruct(r)  BY <3>3 DEF Keeps, Moving, StructInv
    <3>5. r.lp = e.lp /\ r.split = e.split /\ r.artSign = e.artSign /\ r.status = e.status
      BY <3>3 DEF Keeps, Fields
    <3>6. Columns(r) = Columns(e)  BY <3>5, SameShape
    <3>7. r.x \in [Columns(e) -> Int]  BY <3>3, <3>6 DEF StructInv, ValuesInv
    <3>8. RunningInv(r)
      BY <3>3, <3>4, <3>5, <3>7, KeptInv DEF StructInv
    <3> QED BY <3>1, <3>3, <3>4, <3>8
  <2>5. ASSUME Pushes(e, p, D) = {}, o = <<2, [e EXCEPT !.dfarkas_ray = y]>>
        PROVE  \E z : /\ o = <<2, [e EXCEPT !.dfarkas_ray = z]>> /\ Refutes(e.lp, Signed(e, z))
                      /\ Ints(Signed(e, z), DOMAIN e.lp.rows)
    <3>1. y = DualRow(e, p, D)  OBVIOUS
    <3>4. D \in {-1, 1} /\ p \in Rows(e)  BY DEF D
    <3> HIDE DEF y
    <3>2. Refutes(e.lp, Signed(e, y))  BY <2>1, <2>5, <3>1, DualRefutes
    <3>3. Ints(Signed(e, y), DOMAIN e.lp.rows)
      <4>1. Ints(y, Rows(e))  BY <1>2, <3>1, <3>4, DualRayRow
      <4>2. \A i \in DOMAIN e.lp.rows : Signed(e, y)[i] = Mlt(e.lp.rows[i]) * y[i] /\ i \in Rows(e)
        BY DEF Signed, Rows
      <4>3. \A i : Mlt(e.lp.rows[i]) \in Int  BY DEF Mlt
      <4> QED BY <4>1, <4>2, <4>3 DEF Ints
    <3> QED BY <2>5, <3>2, <3>3
  <2> HIDE DEF y
  <2> QED BY <2>2, <2>3, <2>4, <2>5
<1> QED BY <1>1, <1>3

(* A column without violation is within its bounds.                        *)
LEMMA WithinBounds ==
  ASSUME NEW e, BoxInv(e), ValuesInv(e), ~EmptyBox(e), NEW k \in Columns(e), Violation(e, k) = 0
  PROVE  e.l[k] <= e.x[k] /\ e.x[k] <= e.u[k]
<1> DEFINE l == e.l[k]
           u == e.u[k]
           x == e.x[k]
<1>1. l \in Int /\ u \in Int /\ x \in Int /\ l <= u  BY DEF BoxInv, ValuesInv, EmptyBox
<1>2. x < l => Violation(e, k) = l - x
  <2> SUFFICES ASSUME x < l PROVE Violation(e, k) = l - x  OBVIOUS
  <2>1. ~(x > u)  BY <1>1
  <2> QED BY <2>1 DEF Violation
<1>3. x > u => Violation(e, k) = x - u
  <2> SUFFICES ASSUME x > u PROVE Violation(e, k) = x - u  OBVIOUS
  <2>1. ~(x < l)  BY <1>1
  <2> QED BY <2>1 DEF Violation
<1> HIDE DEF l, u, x
<1>4. l <= x /\ x <= u  BY <1>1, <1>2, <1>3
<1> QED BY <1>4 DEF l, u, x

(* No column of the struct that takes part is beyond its bounds.           *)
AllWithin(e) ==
  \A k \in Columns(e) : e.status[k] # "REMOVED" => e.l[k] <= e.x[k] /\ e.x[k] <= e.u[k]

(* If no column violates its bounds all are within them.                   *)
LEMMA FeasibleIsWithin ==
  ASSUME NEW e, StructInv(e), ~EmptyBox(e),
         \A k \in Columns(e) : e.status[k] # "REMOVED" => Violation(e, k) = 0
  PROVE  AllWithin(e)
BY WithinBounds DEF AllWithin, StructInv

(* The caller's rows at the point of a struct whose artificials are at     *)
(* rest.                                                                   *)
LEMMA RowsOfPoint ==
  ASSUME NEW e, StructInv(e), RowsHold(e), Harmless(e), AllWithin(e)
  PROVE  /\ Unsplit(e, e.x) \in [DOMAIN e.lp.c -> Int]
         /\ \A i \in Rows(e) :
              /\ RowAt(e.lp.rows[i], Unsplit(e, e.x)) \in Int
              /\ Mlt(e.lp.rows[i]) * e.lp.rows[i].b
                   = Mlt(e.lp.rows[i]) * RowAt(e.lp.rows[i], Unsplit(e, e.x))
                       + (IF e.lp.rows[i].rel = "=" THEN 0
                          ELSE SlackSign(e.lp.rows[i]) * e.x[<<"s", i>>])
<1> DEFINE w == Present(e)
           x == Unsplit(e, e.x)
<1>1. FormInv(e) /\ BasisInv(e) /\ BoxInv(e) /\ ValuesInv(e)  BY DEF StructInv
<1>2. \A k \in Columns(e) : w[k] \in Int /\ (e.status[k] # "REMOVED" => w[k] = e.x[k])
                            /\ (e.status[k] = "REMOVED" => w[k] = 0)
  BY <1>1 DEF ValuesInv, Present
<1>3. \A k \in Columns(e) : k[1] # "a" => w[k] = e.x[k]  BY <1>1, <1>2 DEF BasisInv
<1>4. Unsplit(e, w) = x
  <2>1. \A j \in DOMAIN e.lp.c : w[<<"x", j>>] = e.x[<<"x", j>>]  BY <1>1, <1>3, ColumnKinds, Zenon
  <2>2. \A j \in e.split : w[<<"n", j>>] = e.x[<<"n", j>>]  BY <1>1, <1>3, ColumnKinds, Zenon
  <2> HIDE DEF w
  <2> QED BY <2>1, <2>2 DEF Unsplit
<1>5. \A i \in Rows(e) : w[<<"a", i>>] = 0
  <2> SUFFICES ASSUME NEW i \in Rows(e) PROVE w[<<"a", i>>] = 0  BY Zenon
  <2> DEFINE k == <<"a", i>>
  <2>1. k \in Columns(e) /\ k \in Artificials(e)  BY <1>1, ColumnKinds
  <2>2. CASE e.status[k] = "REMOVED"  BY <1>2, <2>1, <2>2
  <2>3. CASE e.status[k] # "REMOVED"
    <3> HIDE DEF k
    <3>1. e.l[k] = 0 /\ e.u[k] = 0  BY <2>1, <2>3 DEF Harmless
    <3>2. e.l[k] <= e.x[k] /\ e.x[k] <= e.u[k] /\ e.x[k] \in Int
      BY <1>1, <2>1, <2>3 DEF AllWithin, ValuesInv
    <3>3. w[k] = 0  BY <1>2, <2>1, <2>3, <3>1, <3>2
    <3> QED BY <3>3 DEF k
  <2> QED BY <2>2, <2>3
<1>6. Unsplit(e, w) \in [DOMAIN e.lp.c -> Int]
  <2>1. \A k \in Columns(e) : w[k] \in Int  BY <1>2
  <2> HIDE DEF w
  <2> QED BY <1>1, <2>1, UnsplitInt
<1>7. ASSUME NEW i \in Rows(e)
      PROVE  /\ RowAt(e.lp.rows[i], x) \in Int
             /\ Mlt(e.lp.rows[i]) * e.lp.rows[i].b
                   = Mlt(e.lp.rows[i]) * RowAt(e.lp.rows[i], x)
                       + (IF e.lp.rows[i].rel = "=" THEN 0
                          ELSE SlackSign(e.lp.rows[i]) * e.x[<<"s", i>>])
  <2>1. RowSum(e, w, i) = Abs(e.lp.rows[i].b)  BY DEF RowsHold
  <2>2. RowSum(e, w, i)
           = Mlt(e.lp.rows[i]) * RowAt(e.lp.rows[i], Unsplit(e, w))
             + (IF e.lp.rows[i].rel = "=" THEN 0 ELSE SlackSign(e.lp.rows[i]) * w[<<"s", i>>])
             + e.artSign[i] * w[<<"a", i>>]
    <3>1. \A k \in Columns(e) : w[k] \in Int  BY <1>2
    <3> HIDE DEF w
    <3> QED BY <1>1, <3>1, RowOfColumns DEF RowSum
  <2>3. e.lp.rows[i].rel # "=" => w[<<"s", i>>] = e.x[<<"s", i>>] /\ e.x[<<"s", i>>] \in Int
    <3> SUFFICES ASSUME e.lp.rows[i].rel # "="
                 PROVE w[<<"s", i>>] = e.x[<<"s", i>>] /\ e.x[<<"s", i>>] \in Int
      OBVIOUS
    <3>1. <<"s", i>> \in Columns(e)  BY <1>1, ColumnKinds
    <3> HIDE DEF w
    <3> QED BY <1>1, <1>3, <3>1 DEF ValuesInv
  <2>4. /\ Mlt(e.lp.rows[i]) \in {-1, 1} /\ SlackSign(e.lp.rows[i]) \in {-1, 1}
        /\ e.artSign[i] \in {-1, 1}
        /\ Mlt(e.lp.rows[i]) * e.lp.rows[i].b = Abs(e.lp.rows[i].b)
    BY <1>1, Signs
  <2>5. RowAt(e.lp.rows[i], x) \in Int
    <3>1. LinearProgram(e.lp)  BY <1>1 DEF FormInv
    <3> DEFINE y == [h \in DOMAIN e.lp.rows |-> 0]
    <3>2. Ints(y, DOMAIN e.lp.rows)  BY DEF Ints
    <3>3. x \in [DOMAIN e.lp.c -> Int]  BY <1>4, <1>6
    <3> HIDE DEF y, x
    <3> QED BY <3>1, <3>2, <3>3, RowsTimesDuals DEF Rows
  <2>6. e.artSign[i] * w[<<"a", i>>] = 0  BY <1>5, <2>4
  <2> HIDE DEF w, x
  <2>7. Mlt(e.lp.rows[i]) * e.lp.rows[i].b
          = Mlt(e.lp.rows[i]) * RowAt(e.lp.rows[i], x)
             + (IF e.lp.rows[i].rel = "=" THEN 0 ELSE SlackSign(e.lp.rows[i]) * e.x[<<"s", i>>])
             + e.artSign[i] * w[<<"a", i>>]
    BY <1>4, <2>1, <2>2, <2>3, <2>4
  <2> DEFINE a == Mlt(e.lp.rows[i]) * RowAt(e.lp.rows[i], x)
             g == IF e.lp.rows[i].rel = "=" THEN 0 ELSE SlackSign(e.lp.rows[i]) * e.x[<<"s", i>>]
  <2>8. a \in Int /\ g \in Int
    <3>1. a \in Int  BY <2>4, <2>5
    <3>2. g \in Int  BY <2>3, <2>4
    <3> QED BY <3>1, <3>2
  <2> HIDE DEF a, g
  <2>9. Mlt(e.lp.rows[i]) * e.lp.rows[i].b = a + g + 0  BY <2>6, <2>7 DEF a, g
  <2>10. Mlt(e.lp.rows[i]) * e.lp.rows[i].b = a + g  BY <2>8, <2>9
  <2> QED BY <2>5, <2>10 DEF a, g
<1> QED BY <1>4, <1>6, <1>7

(* What solver_feasible accepts outside Phase I is a point of the program. *)
LEMMA PointIsFeasible ==
  ASSUME NEW e, StructInv(e), ~e.rebuild_pending, RowsHold(e), Harmless(e), AllWithin(e)
  PROVE  Feasible(e.lp, Unsplit(e, e.x))
<1> DEFINE x == Unsplit(e, e.x)
<1>1. FormInv(e) /\ BasisInv(e) /\ BoxInv(e) /\ ValuesInv(e)  BY DEF StructInv
<1>2. \A k \in Columns(e) : k[1] # "a" => e.l[k] <= e.x[k] /\ e.x[k] <= e.u[k] /\ e.x[k] \in Int
  BY <1>1 DEF AllWithin, BasisInv, ValuesInv
<1>3. ASSUME NEW j \in DOMAIN e.lp.c
      PROVE  /\ e.lp.l[j] <= -LP_INF \/ x[j] >= e.lp.l[j]
             /\ e.lp.u[j] >= LP_INF \/ x[j] <= e.lp.u[j]
  <2>1. CASE j \in e.split
    <3>1. j \in Split(e.lp)  BY <1>1, <2>1 DEF BoxInv
    <3> QED BY <3>1 DEF Split, Free
  <2>2. CASE j \notin e.split
    <3> DEFINE k == <<"x", j>>
    <3>1. k \in Columns(e) /\ Own(e, k) /\ k[1] # "a"  BY <1>1, <2>2, ColumnKinds DEF Own
    <3>2. e.l[k] = e.lp.l[j] /\ e.u[k] = e.lp.u[j]  BY <1>1, <3>1 DEF BoxInv
    <3>3. e.l[k] <= e.x[k] /\ e.x[k] <= e.u[k] /\ e.x[k] \in Int  BY <1>2, <3>1
    <3>4. e.l[k] \in Int /\ e.u[k] \in Int  BY <1>1, <3>1 DEF BoxInv
    <3>5. x[j] = e.x[k] - 0  BY <2>2 DEF Unsplit
    <3> HIDE DEF k, x
    <3> QED BY <3>2, <3>3, <3>4, <3>5
  <2> QED BY <2>1, <2>2
<1>4. ASSUME NEW i \in Rows(e)
      PROVE  Meets(e.lp.rows[i].rel, RowAt(e.lp.rows[i], x), e.lp.rows[i].b)
  <2> DEFINE m == Mlt(e.lp.rows[i])
             v == RowAt(e.lp.rows[i], x)
             b == e.lp.rows[i].b
             g == SlackSign(e.lp.rows[i])
             rel == e.lp.rows[i].rel
             k == <<"s", i>>
  <2>1. v \in Int /\ m * b = m * v + (IF rel = "=" THEN 0 ELSE g * e.x[k])  BY RowsOfPoint
  <2>2. /\ m \in {-1, 1} /\ g \in {-1, 1} /\ b \in Int
        /\ rel \in {"<", ">", "="} /\ (rel = "<" => g = m) /\ (rel = ">" => g = -m)
    BY <1>1, Signs, FormIsFinite
  <2>3. rel # "=" => e.x[k] \in Int /\ e.x[k] >= 0
    <3> SUFFICES ASSUME rel # "=" PROVE e.x[k] \in Int /\ e.x[k] >= 0  OBVIOUS
    <3>1. k \in Columns(e) /\ k[1] = "s"  BY <1>1, ColumnKinds
    <3>2. ~Own(e, k)  BY <3>1 DEF Own
    <3>3. e.l[k] = 0  BY <1>1, <3>1, <3>2 DEF BoxInv
    <3> QED BY <1>2, <3>1, <3>3
  <2> DEFINE xs == e.x[k]
  <2>4. m * b = m * v + (IF rel = "=" THEN 0 ELSE g * xs) /\ (rel # "=" => xs \in Int /\ xs >= 0)
    BY <2>1, <2>3
  <2> HIDE DEF m, v, b, g, rel, k, xs
  <2>5. Meets(rel, v, b)
    <3>1. CASE rel = "<"
      <4>1. m * b = m * v + m * xs /\ xs \in Int /\ xs >= 0  BY <2>2, <2>4, <3>1
      <4>2. v <= b
        <5>1. CASE m = 1  BY <2>1, <2>2, <4>1, <5>1
        <5>2. CASE m = -1  BY <2>1, <2>2, <4>1, <5>2
        <5> QED BY <2>2, <5>1, <5>2
      <4> QED BY <3>1, <4>2 DEF Meets
    <3>2. CASE rel = ">"
      <4>1. m * b = m * v + (-m) * xs /\ xs \in Int /\ xs >= 0  BY <2>2, <2>4, <3>2
      <4>2. v >= b
        <5>1. CASE m = 1  BY <2>1, <2>2, <4>1, <5>1
        <5>2. CASE m = -1  BY <2>1, <2>2, <4>1, <5>2
        <5> QED BY <2>2, <5>1, <5>2
      <4> QED BY <3>2, <4>2 DEF Meets
    <3>3. CASE rel = "="
      <4>1. m * b = m * v + 0  BY <2>4, <3>3
      <4>2. v = b
        <5>1. CASE m = 1  BY <2>1, <2>2, <4>1, <5>1
        <5>2. CASE m = -1  BY <2>1, <2>2, <4>1, <5>2
        <5> QED BY <2>2, <5>1, <5>2
      <4> QED BY <3>3, <4>2 DEF Meets
    <3> QED BY <2>2, <3>1, <3>2, <3>3
  <2> QED BY <2>5 DEF rel, v, b
<1> HIDE DEF x
<1>5. Feasible(e.lp, x)  BY <1>3, <1>4 DEF Feasible, Rows
<1> QED BY <1>5 DEF x

(* The reduced cost of column k at y.                                      *)
Rest(e, y, k) == TrueCost(e)[k] - Dot(e, y, k)

(* Every column that could gain at the prices y is at the bound that stops *)
(* it.                                                                     *)
Backs(e, y) ==
  \A k \in Columns(e) : k[1] # "a" =>
    /\ Rest(e, y, k) > 0 => e.x[k] = e.u[k] /\ e.u[k] < LP_INF
    /\ Rest(e, y, k) < 0 => e.x[k] = e.l[k] /\ e.l[k] > -LP_INF

(* When nothing enters, the duals back the point.                          *)
LEMMA DualsBack ==
  ASSUME NEW e, StructInv(e), AtBounds(e), ~EmptyBox(e), e.cobj = TrueCost(e), Entering(e) = {}
  PROVE  Backs(e, Duals(e))
<1> DEFINE y == Duals(e)
<1>1. FormInv(e) /\ BasisInv(e) /\ BoxInv(e) /\ ValuesInv(e) /\ CostInv(e)  BY DEF StructInv
<1>2. SUFFICES ASSUME NEW k \in Columns(e), k[1] # "a"
               PROVE  /\ Rest(e, y, k) > 0 => e.x[k] = e.u[k] /\ e.u[k] < LP_INF
                      /\ Rest(e, y, k) < 0 => e.x[k] = e.l[k] /\ e.l[k] > -LP_INF
  BY DEF Backs
<1>3. e.cobj[k] \in Int /\ Dot(e, y, k) \in Int
  <2>1. Ints(y, Rows(e))  BY <1>1, DualsPriceBasis
  <2> HIDE DEF y
  <2> QED BY <1>1, <2>1, CostInts, DotInt
<1>4. Rest(e, y, k) = e.cobj[k] - Dot(e, y, k)  BY DEF Rest
<1>5. CASE k \in Basic(e)
  <2> PICK t \in Rows(e) : k = e.basis[t]  BY <1>5 DEF Basic
  <2>1. Dot(e, y, k) = e.cobj[k]  BY <1>1, DualsPriceBasis
  <2> HIDE DEF y
  <2> QED BY <1>3, <1>4, <2>1
<1>6. CASE k \notin Basic(e)
  <2>1. k \in Parked(e)  BY <1>1, <1>2, <1>6 DEF BasisInv, Parked
  <2>2. IF e.status[k] = "NBL" THEN e.x[k] = e.l[k] /\ e.l[k] > -LP_INF
                               ELSE e.x[k] = e.u[k] /\ e.u[k] < LP_INF
    BY <2>1 DEF AtBounds
  <2>3. e.l[k] \in Int /\ e.u[k] \in Int /\ e.l[k] <= e.u[k]  BY <1>1 DEF BoxInv, EmptyBox
  <2>4. CASE ~Fixed(e, k)
    <3>1. IF e.status[k] = "NBL" THEN e.cobj[k] <= Dot(e, Duals(e), k)
                                 ELSE e.cobj[k] >= Dot(e, Duals(e), k)
      BY <1>1, <2>1, <2>4, NothingEnters
    <3>2. IF e.status[k] = "NBL" THEN e.cobj[k] <= Dot(e, y, k) ELSE e.cobj[k] >= Dot(e, y, k)
      BY <3>1
    <3> HIDE DEF y
    <3> QED BY <1>3, <1>4, <2>2, <3>2
  <2>5. CASE Fixed(e, k)
    <3>1. e.l[k] = e.u[k]  BY <2>3, <2>5 DEF Fixed
    <3>2. Own(e, k)
      <4>1. ~Own(e, k) => e.l[k] = 0 /\ e.u[k] = LP_INF  BY <1>1, <1>2 DEF BoxInv
      <4> QED BY <3>1, <4>1, InfinityInt
    <3>3. (e.l[k] <= -LP_INF \/ Small(e.l[k])) /\ (e.u[k] >= LP_INF \/ Small(e.u[k]))
      BY <1>1, <3>2 DEF BoxInv
    <3> DEFINE v == e.l[k]
    <3>4. v \in Int /\ (v <= -LP_INF \/ Small(v)) /\ (v >= LP_INF \/ Small(v))
      BY <2>3, <3>1, <3>3
    <3> HIDE DEF v
    <3>5. v > -LP_INF /\ v < LP_INF
      BY <3>4, InfinityInt DEF Small, Abs
    <3> QED BY <2>2, <3>1, <3>5 DEF v
  <2> QED BY <2>4, <2>5
<1> QED BY <1>5, <1>6

(* The signs of the multipliers of the rows, from the slacks.              *)
LEMMA BacksSigns ==
  ASSUME NEW e, StructInv(e), NEW y, Ints(y, Rows(e)), Backs(e, y), NEW i \in Rows(e)
  PROVE  /\ e.lp.rows[i].rel = "<" => Signed(e, y)[i] >= 0
         /\ e.lp.rows[i].rel = ">" => Signed(e, y)[i] <= 0
         /\ e.lp.rows[i].rel # "=" /\ Signed(e, y)[i] # 0 => e.x[<<"s", i>>] = 0
<1> DEFINE m == Mlt(e.lp.rows[i])
           g == SlackSign(e.lp.rows[i])
           v == y[i]
           k == <<"s", i>>
           z == Dot(e, y, k)
<1>1. FormInv(e) /\ BasisInv(e) /\ BoxInv(e) /\ ValuesInv(e)  BY DEF StructInv
<1>2. Signed(e, y)[i] = m * v  BY DEF Signed
<1>3. /\ m \in {-1, 1} /\ g \in {-1, 1} /\ v \in Int
      /\ e.lp.rows[i].rel = "<" => g = m
      /\ e.lp.rows[i].rel = ">" => g = -m
  BY <1>1, Signs DEF Ints
<1>4. z = v * g  BY <1>1, DotOfColumn
<1>5. ASSUME e.lp.rows[i].rel # "="
      PROVE  z >= 0 /\ (z # 0 => e.x[k] = 0)
  <2>1. k \in Columns(e) /\ k[1] = "s"  BY <1>1, <1>5, ColumnKinds
  <2>2. ~Own(e, k)  BY <2>1 DEF Own
  <2>3. e.l[k] = 0 /\ e.u[k] = LP_INF  BY <1>1, <2>1, <2>2 DEF BoxInv
  <2>4. TrueCost(e)[k] = 0  BY <2>1 DEF TrueCost
  <2>5. Rest(e, y, k) = 0 - z  BY <2>4 DEF Rest
  <2>6. /\ Rest(e, y, k) > 0 => e.u[k] < LP_INF
        /\ Rest(e, y, k) < 0 => e.x[k] = e.l[k]
    BY <2>1 DEF Backs
  <2> HIDE DEF m, g, v, k
  <2>7. z \in Int  BY <1>3, <1>4
  <2> HIDE DEF z
  <2>8. ~(0 - z > 0) /\ (0 - z < 0 => e.x[k] = 0)  BY <2>3, <2>5, <2>6, InfinityInt
  <2> QED BY <2>7, <2>8
<1> HIDE DEF m, g, v, z, k
<1>6. /\ e.lp.rows[i].rel = "<" => Signed(e, y)[i] >= 0
      /\ e.lp.rows[i].rel = ">" => Signed(e, y)[i] <= 0
      /\ e.lp.rows[i].rel # "=" /\ Signed(e, y)[i] # 0 => e.x[k] = 0
  <2>1. CASE m = 1  BY <1>2, <1>3, <1>4, <1>5, <2>1
  <2>2. CASE m = -1  BY <1>2, <1>3, <1>4, <1>5, <2>2
  <2> QED BY <1>3, <2>1, <2>2
<1> QED BY <1>6 DEF k

(* Prices that back the point of a struct support it in the program.       *)
LEMMA BacksSupports ==
  ASSUME NEW e, StructInv(e), ~e.rebuild_pending, RowsHold(e), Harmless(e), AllWithin(e),
         NEW y, Ints(y, Rows(e)), Backs(e, y)
  PROVE  Supports(e.lp, Unsplit(e, e.x), Signed(e, y))
<1> DEFINE x == Unsplit(e, e.x)
           S == Signed(e, y)
<1>1. FormInv(e) /\ BasisInv(e) /\ BoxInv(e) /\ ValuesInv(e)  BY DEF StructInv
<1>2. \A i \in Rows(e) : e.lp.rows[i].rel \in {"<", ">", "="} /\ e.lp.rows[i].b \in Int
  BY <1>1, FormIsFinite
<1>3. RowSigns(e.lp, S)
  <2>1. \A i \in Rows(e) : /\ e.lp.rows[i].rel = "<" => S[i] >= 0
                           /\ e.lp.rows[i].rel = ">" => S[i] <= 0
    BY BacksSigns
  <2> HIDE DEF S
  <2> QED BY <2>1 DEF RowSigns, Rows
<1>4. ASSUME NEW i \in Rows(e), S[i] # 0
      PROVE  RowAt(e.lp.rows[i], x) = e.lp.rows[i].b
  <2> DEFINE m == Mlt(e.lp.rows[i])
             v == RowAt(e.lp.rows[i], x)
             b == e.lp.rows[i].b
             g == SlackSign(e.lp.rows[i])
  <2>1. v \in Int /\ m * b = m * v + (IF e.lp.rows[i].rel = "=" THEN 0 ELSE g * e.x[<<"s", i>>])
    BY RowsOfPoint
  <2>2. e.lp.rows[i].rel # "=" => e.x[<<"s", i>>] = 0  BY <1>4, BacksSigns
  <2>3. m \in {-1, 1} /\ g \in {-1, 1} /\ b \in Int  BY <1>1, <1>2, Signs
  <2> HIDE DEF m, v, b, g
  <2>4. m * b = m * v + 0
    <3>1. g * 0 = 0  BY <2>3
    <3> QED BY <2>1, <2>2, <3>1
  <2>5. v = b
    <3>1. CASE m = 1  BY <2>1, <2>3, <2>4, <3>1
    <3>2. CASE m = -1  BY <2>1, <2>3, <2>4, <3>2
    <3> QED BY <2>3, <3>1, <3>2
  <2> QED BY <2>5 DEF v, b
<1>5. ASSUME NEW j \in DOMAIN e.lp.c
      PROVE  /\ ReducedCost(e.lp, S, j) > 0 => x[j] = e.lp.u[j] /\ e.lp.u[j] < LP_INF
             /\ ReducedCost(e.lp, S, j) < 0 => x[j] = e.lp.l[j] /\ e.lp.l[j] > -LP_INF
  <2> DEFINE k == <<"x", j>>
             n == <<"n", j>>
  <2>1. k \in Columns(e) /\ k[1] = "x" /\ k[2] = j  BY <1>1, ColumnKinds
  <2>2. ReducedCost(e.lp, S, j) = Rest(e, y, k)
    <3>1. Zrow(e.lp, S)[j] = Dot(e, y, k)
      <4>1. Dot(e, y, <<"x", j>>)
              = Prod(Signed(e, y), [i \in Rows(e) |-> e.lp.rows[i].a[j]], Rows(e))
        BY <1>1, DotOfColumn
      <4>2. Zrow(e.lp, S)[j] = Prod(S, [i \in Rows(e) |-> e.lp.rows[i].a[j]], Rows(e))
        BY DEF Zrow, Rows
      <4> QED BY <4>1, <4>2
    <3>2. TrueCost(e)[k] = Gain(e.lp, e.lp.c[j])  BY <2>1 DEF TrueCost, Gain
    <3> HIDE DEF S
    <3> QED BY <3>1, <3>2 DEF ReducedCost, Rest
  <2>3. Dot(e, y, k) \in Int /\ TrueCost(e)[k] \in Int
    <3>1. Dot(e, y, k) \in Int  BY <1>1, <2>1, DotInt
    <3>2. TrueCost(e)[k] \in Int
      <4>1. e.lp.c[j] \in Int  BY <1>1, FormIsFinite
      <4> QED BY <2>1, <4>1 DEF TrueCost
    <3> QED BY <3>1, <3>2
  <2>4. /\ Rest(e, y, k) > 0 => e.x[k] = e.u[k] /\ e.u[k] < LP_INF
        /\ Rest(e, y, k) < 0 => e.x[k] = e.l[k] /\ e.l[k] > -LP_INF
    BY <2>1 DEF Backs
  <2>5. CASE j \in e.split
    <3>1. n \in Columns(e) /\ n[1] = "n" /\ n[2] = j  BY <1>1, <2>5, ColumnKinds
    <3>2. ~Own(e, k) /\ ~Own(e, n)  BY <2>5 DEF Own
    <3>3. e.u[k] = LP_INF /\ e.u[n] = LP_INF
      BY <1>1, <2>1, <3>1, <3>2 DEF BoxInv
    <3>4. TrueCost(e)[n] = -TrueCost(e)[k]  BY <2>1, <3>1 DEF TrueCost
    <3>5. Dot(e, y, n) = -Dot(e, y, k)  BY <1>1, <2>5, DotOfColumn
    <3>6. Rest(e, y, n) > 0 => e.u[n] < LP_INF  BY <3>1 DEF Backs
    <3> DEFINE c == TrueCost(e)[k]
               z == Dot(e, y, k)
    <3>7. /\ Rest(e, y, n) = (-c) - (-z) /\ Rest(e, y, k) = c - z /\ c \in Int /\ z \in Int
      BY <2>3, <3>4, <3>5 DEF Rest
    <3> HIDE DEF c, z, k, n
    <3>8. ~(Rest(e, y, n) > 0) /\ ~(Rest(e, y, k) > 0)  BY <2>4, <3>3, <3>6, InfinityInt
    <3>9. Rest(e, y, k) = 0  BY <3>7, <3>8
    <3> QED BY <2>2, <3>9
  <2>6. CASE j \notin e.split
    <3>1. Own(e, k)  BY <2>1, <2>6 DEF Own
    <3>2. e.l[k] = e.lp.l[j] /\ e.u[k] = e.lp.u[j]  BY <1>1, <2>1, <3>1 DEF BoxInv
    <3>3. x[j] = e.x[k]
      <4>1. x[j] = e.x[k] - 0  BY <2>6 DEF Unsplit
      <4>2. e.x[k] \in Int  BY <1>1, <2>1 DEF ValuesInv
      <4> HIDE DEF x
      <4> QED BY <4>1, <4>2
    <3> HIDE DEF x, S, k
    <3> QED BY <2>2, <2>4, <3>2, <3>3
  <2> QED BY <2>5, <2>6
<1> HIDE DEF x, S
<1>6. Supports(e.lp, x, S)  BY <1>3, <1>4, <1>5 DEF Supports, Rows
<1> QED BY <1>6 DEF x, S

(* An optimum of the struct is an optimum of the program.                  *)
LEMMA OptimumIs ==
  ASSUME NEW e, StructInv(e), RunningInv(e), e.cobj = TrueCost(e), Harmless(e),
         Entering(e) = {}, AllWithin(e)
  PROVE  /\ Feasible(e.lp, Unsplit(e, e.x))
         /\ \A p \in [DOMAIN e.lp.c -> Int] :
              Feasible(e.lp, p) => Gain(e.lp, Value(e.lp, p)) <= Gain(e.lp, Value(e.lp, Unsplit(e, e.x)))
         /\ \A d \in [DOMAIN e.lp.c -> Int] : ~Improving(e.lp, d)
         /\ Gain(e.lp, Value(e.lp, Unsplit(e, e.x)))
              = Total([k \in Columns(e) |-> e.cobj[k] * e.x[k]], Columns(e))
<1> DEFINE y == Duals(e)
           x == Unsplit(e, e.x)
           S == Signed(e, y)
<1>1. /\ FormInv(e) /\ BasisInv(e) /\ BoxInv(e) /\ ValuesInv(e) /\ CostInv(e)
      /\ AtBounds(e) /\ RowsHold(e) /\ ~EmptyBox(e) /\ ~e.rebuild_pending /\ LinearProgram(e.lp)
  BY DEF StructInv, RunningInv, Stands, FormInv
<1>2. Ints(y, Rows(e)) /\ Backs(e, y)  BY <1>1, DualsPriceBasis, DualsBack
<1> HIDE DEF y
<1>3. Supports(e.lp, x, S) /\ Ints(S, Rows(e)) /\ x \in [DOMAIN e.lp.c -> Int]
  BY <1>1, <1>2, BacksSupports, DotOfColumn, RowsOfPoint
<1>4. Feasible(e.lp, x)  BY <1>1, PointIsFeasible
<1>5. Total([k \in Columns(e) |-> TrueCost(e)[k] * e.x[k]], Columns(e)) = Gain(e.lp, Value(e.lp, x))
  <2> DEFINE w == e.x
  <2>1. \A k \in Columns(e) : w[k] \in Int  BY <1>1 DEF ValuesInv
  <2> HIDE DEF w
  <2>2. Total([k \in Columns(e) |-> TrueCost(e)[k] * w[k]], Columns(e))
           = Gain(e.lp, Value(e.lp, Unsplit(e, w)))
    BY <1>1, <2>1, CostOfColumns
  <2> QED BY <2>2 DEF w
<1> HIDE DEF x, S
<1>6. /\ \A p \in [DOMAIN e.lp.c -> Int] :
           Feasible(e.lp, p) => Gain(e.lp, Value(e.lp, p)) <= Gain(e.lp, Value(e.lp, x))
      /\ \A d \in [DOMAIN e.lp.c -> Int] : ~Improving(e.lp, d)
  <2>1. Ints(S, DOMAIN e.lp.rows)  BY <1>3 DEF Rows
  <2> QED BY <1>1, <1>3, <2>1, SupportedIsOptimal
<1> QED BY <1>4, <1>5, <1>6 DEF x

(* A vector times zeros.                                                   *)
LEMMA ProdOfZeros ==
  ASSUME NEW R, IsFiniteSet(R), NEW y, Ints(y, R), NEW v, \A r \in R : v[r] = 0
  PROVE  Prod(y, v, R) = 0
<1> DEFINE f == [r \in R |-> y[r] * v[r]]
<1>1. \A r \in R : f[r] = 0
  <2> SUFFICES ASSUME NEW r \in R PROVE y[r] * v[r] = 0  OBVIOUS
  <2>1. y[r] \in Int /\ v[r] = 0  BY DEF Ints
  <2> QED BY <2>1
<1>2. Prod(y, v, R) = Total(f, R)  BY DEF Prod
<1> HIDE DEF f
<1> QED BY <1>1, <1>2, TotalOfZeros

(* The active objective grows along the ray of an entering column.         *)
LEMMA RayGains ==
  ASSUME NEW e, StructInv(e), NEW q \in Entering(e)
  PROVE  Total([k \in Columns(e) |-> e.cobj[k] * Ray(e, q)[k]], Columns(e)) > 0
<1> DEFINE R == Rows(e)
           C == Columns(e)
           y == Duals(e)
           w == Ray(e, q)
           v == [i \in R |-> 0]
           f == [k \in C |-> e.cobj[k] * w[k]]
           g == [k \in C |-> Dot(e, y, k) * w[k]]
           h == [k \in C |-> f[k] - g[k]]
<1>1. FormInv(e) /\ BasisInv(e) /\ CostInv(e)  BY DEF StructInv
<1>2. /\ q \in Parked(e) /\ q \in C /\ q \in C \ Basic(e)
      /\ Improves(e, Price(e), q)
  BY <1>1 DEF Entering, Parked, BasisInv
<1>3. /\ IsRay(e, q, Dir(e, q), w) /\ Dir(e, q) \in {-1, 1}
      /\ \A k \in C : w[k] \in Int
      /\ Flat(e, w)
  BY <1>1, <1>2, RayIs
<1>4. /\ Ints(y, R)
      /\ \A t \in R : Dot(e, y, e.basis[t]) = e.cobj[e.basis[t]]
      /\ Price(e)[q] = e.cobj[q] - Dot(e, y, q)
  BY <1>1, <1>2, DualsPriceBasis
<1>5. \A k \in C : e.cobj[k] \in Int  BY <1>1, CostInts
<1>6. IsFiniteSet(R) /\ IsFiniteSet(C)  BY <1>1, FormIsFinite, ColumnsFinite
<1>7. /\ \A k \in C : Dot(e, y, k) \in Int
      /\ Prod(y, v, R) = Total(g, C)
  <2>1. \A i \in R : v[i] = RowSum(e, w, i)  BY <1>3 DEF Flat
  <2> HIDE DEF v, w, y
  <2>2. /\ \A k \in Columns(e) : Dot(e, y, k) \in Int
        /\ Prod(y, v, Rows(e)) = Total([k \in Columns(e) |-> Dot(e, y, k) * w[k]], Columns(e))
    BY <1>1, <1>3, <1>4, <2>1, DotOfRows
  <2> QED BY <2>2
<1>8. Total(g, C) = 0
  <2>1. \A r \in R : v[r] = 0  OBVIOUS
  <2> HIDE DEF v, y, g, R, C
  <2>2. Prod(y, v, R) = 0  BY <1>4, <1>6, <2>1, ProdOfZeros
  <2> QED BY <1>7, <2>2
<1>9. \A k \in C : f[k] \in Int /\ g[k] \in Int /\ h[k] = f[k] - g[k]
  <2> SUFFICES ASSUME NEW k \in C PROVE e.cobj[k] * w[k] \in Int /\ Dot(e, y, k) * w[k] \in Int
    OBVIOUS
  <2> HIDE DEF y, w
  <2> QED BY <1>3, <1>5, <1>7
<1>10. Total(h, C) = Total(f, C) - Total(g, C)
  <2> HIDE DEF f, g, h, C
  <2> QED BY <1>6, <1>9, TotalSubtracts
<1>11. \A k \in C \ {q} : h[k] = 0
  <2> SUFFICES ASSUME NEW k \in C, k # q PROVE h[k] = 0  OBVIOUS
  <2>1. h[k] = e.cobj[k] * w[k] - Dot(e, y, k) * w[k]  OBVIOUS
  <2>2. e.cobj[k] \in Int /\ w[k] \in Int /\ Dot(e, y, k) \in Int  BY <1>3, <1>5, <1>7
  <2>3. CASE k \in Basic(e)
    <3> PICK t \in R : k = e.basis[t]  BY <2>3 DEF Basic
    <3>1. Dot(e, y, k) = e.cobj[k]  BY <1>4
    <3> HIDE DEF h, y, w
    <3>2. e.cobj[k] * w[k] \in Int  BY <2>2
    <3> QED BY <2>1, <3>1, <3>2
  <2>4. CASE k \notin Basic(e)
    <3>1. w[k] = 0  BY <1>3, <2>4 DEF IsRay
    <3> HIDE DEF h, y, w
    <3> QED BY <2>1, <2>2, <3>1
  <2> QED BY <2>3, <2>4
<1>12. h[q] > 0 /\ h[q] \in Int
  <2> DEFINE c == e.cobj[q]
             z == Dot(e, y, q)
             a == w[q]
             rc == Price(e)
  <2>1. h[q] = c * a - z * a /\ c \in Int /\ z \in Int  BY <1>2, <1>5, <1>7
  <2>2. a = Dir(e, q)  BY <1>3 DEF IsRay
  <2>3. \/ e.status[q] = "NBL" /\ c - z > 0
        \/ e.status[q] = "NBU" /\ c - z < 0
    <3>1. rc[q] = c - z /\ Improves(e, rc, q)  BY <1>2, <1>4
    <3> HIDE DEF rc, c, z
    <3> QED BY <3>1 DEF Improves
  <2> HIDE DEF c, z, a, h
  <2>4. CASE e.status[q] = "NBL"
    <3>1. a = 1  BY <2>2, <2>4 DEF Dir
    <3> QED BY <2>1, <2>3, <2>4, <3>1
  <2>5. CASE e.status[q] = "NBU"
    <3>1. a = -1  BY <2>2, <2>5 DEF Dir
    <3> QED BY <2>1, <2>3, <2>5, <3>1
  <2> QED BY <2>3, <2>4, <2>5
<1>13. Total(h, C) = h[q]
  <2> HIDE DEF h, C
  <2> QED BY <1>2, <1>6, <1>11, <1>12, TotalOfOne
<1>14. Total(f, C) \in Int
  <2> HIDE DEF f, C
  <2> QED BY <1>6, <1>9, TotalInt
<1>15. Total(f, C) > 0
  <2> HIDE DEF f, g, h, C
  <2> QED BY <1>8, <1>10, <1>12, <1>13, <1>14
<1> QED BY <1>15

(* What an unblocked ray does to each column.                              *)
LEMMA UnblockedColumns ==
  ASSUME NEW e, StructInv(e), AtBounds(e), NEW q \in Entering(e), Unblocked(e, q), NEW k \in Columns(e)
  PROVE  /\ Ray(e, q)[k] \in Int
         /\ Ray(e, q)[k] > 0 => e.u[k] >= LP_INF
         /\ Ray(e, q)[k] < 0 => e.l[k] <= -LP_INF
         /\ Ray(e, q)[k] # 0 => k \in Basic(e) \/ (k = q /\ k \in Parked(e) /\ ~Fixed(e, k))
<1>1. FormInv(e) /\ BasisInv(e) /\ BoxInv(e)  BY DEF StructInv
<1>2. q \in Parked(e) /\ q \in Columns(e) \ Basic(e) /\ ~Fixed(e, q) /\ e.status[q] \in {"NBL", "NBU"}
  BY <1>1 DEF Entering, Improves, Parked, BasisInv
<1>3. /\ IsRay(e, q, Dir(e, q), Ray(e, q)) /\ Ray(e, q)[k] \in Int
  BY <1>1, <1>2, RayIs
<1>4. CASE k \in Basic(e)
  <2> PICK t \in Rows(e) : k = e.basis[t]  BY <1>4 DEF Basic
  <2> QED BY <1>3, <1>4 DEF Unblocked
<1>5. CASE k = q
  <2>1. Ray(e, q)[k] = IF e.status[q] = "NBL" THEN 1 ELSE -1  BY <1>3, <1>5 DEF IsRay, Dir
  <2>2. IF e.status[q] = "NBL" THEN e.l[q] > -LP_INF ELSE e.u[q] < LP_INF  BY <1>2 DEF AtBounds
  <2>3. ~(e.l[q] > -LP_INF /\ e.u[q] < LP_INF)  BY DEF Unblocked
  <2>4. e.l[q] \in Int /\ e.u[q] \in Int  BY <1>1, <1>2 DEF BoxInv
  <2> QED BY <1>2, <1>5, <2>1, <2>2, <2>3, <2>4, InfinityInt
<1>6. CASE k # q /\ k \notin Basic(e)
  <2>1. Ray(e, q)[k] = 0  BY <1>3, <1>6 DEF IsRay
  <2> QED BY <2>1
<1> QED BY <1>4, <1>5, <1>6

(* Phase I always meets a block: its objective would have to drive an      *)
(* artificial below zero.                                                  *)
LEMMA PhaseOneBlocks ==
  ASSUME NEW e, StructInv(e), AtBounds(e), e.cobj = PhaseOneCost(e), NEW q \in Entering(e)
  PROVE  ~Unblocked(e, q)
<1> SUFFICES ASSUME Unblocked(e, q) PROVE FALSE  OBVIOUS
<1> DEFINE w == Ray(e, q)
           C == Columns(e)
           f == [k \in C |-> e.cobj[k] * w[k]]
           z == [k \in C |-> 0]
<1>1. FormInv(e) /\ BoxInv(e)  BY DEF StructInv
<1>2. Total(f, C) > 0  BY RayGains
<1>3. \A k \in C : f[k] \in Int /\ f[k] <= 0
  <2> SUFFICES ASSUME NEW k \in C PROVE e.cobj[k] * w[k] \in Int /\ e.cobj[k] * w[k] <= 0  OBVIOUS
  <2>1. w[k] \in Int /\ (w[k] < 0 => e.l[k] <= -LP_INF)  BY UnblockedColumns
  <2>2. e.cobj[k] = IF k[1] = "a" THEN -1 ELSE 0  BY DEF PhaseOneCost
  <2>3. CASE k[1] = "a"
    <3>1. ~Own(e, k)  BY <2>3 DEF Own
    <3>2. e.l[k] = 0  BY <1>1, <3>1 DEF BoxInv
    <3>3. e.cobj[k] = -1  BY <2>2, <2>3
    <3> HIDE DEF w
    <3>4. w[k] >= 0  BY <2>1, <3>2, InfinityInt
    <3> QED BY <2>1, <3>3, <3>4
  <2>4. CASE k[1] # "a"
    <3>1. e.cobj[k] = 0  BY <2>2, <2>4
    <3> HIDE DEF w
    <3> QED BY <2>1, <3>1
  <2> QED BY <2>3, <2>4
<1>4. \A k \in C : z[k] = 0  OBVIOUS
<1>5. IsFiniteSet(C)  BY <1>1, ColumnsFinite
<1> HIDE DEF f, z, C
<1>6. Total(z, C) = 0  BY <1>4, <1>5, TotalOfZeros
<1>7. Total(f, C) <= Total(z, C)  BY <1>3, <1>4, <1>5, TotalGrows
<1>8. Total(f, C) \in Int  BY <1>3, <1>5, TotalInt
<1> QED BY <1>2, <1>6, <1>7, <1>8

(* An unblocked ray outside Phase I is a direction in which the program    *)
(* improves for ever (solver_unbounded_ray).                               *)
LEMMA RayImproves ==
  ASSUME NEW e, StructInv(e), AtBounds(e), ~e.rebuild_pending, Harmless(e), e.cobj = TrueCost(e),
         NEW q \in Entering(e), Unblocked(e, q)
  PROVE  Improving(e.lp, Unsplit(e, Ray(e, q)))
<1> DEFINE w == Ray(e, q)
           d == Unsplit(e, w)
<1>1. FormInv(e) /\ BasisInv(e) /\ BoxInv(e) /\ LinearProgram(e.lp)  BY DEF StructInv, FormInv
<1>2. \A k \in Columns(e) : /\ w[k] \in Int
                            /\ w[k] > 0 => e.u[k] >= LP_INF
                            /\ w[k] < 0 => e.l[k] <= -LP_INF
                            /\ w[k] # 0 => k \in Basic(e) \/ (k = q /\ k \in Parked(e) /\ ~Fixed(e, k))
  BY UnblockedColumns
<1>3. \A i \in Rows(e) : RowSum(e, w, i) = 0
  <2>1. q \in Columns(e) \ Basic(e)  BY <1>1 DEF Entering, Parked, BasisInv
  <2> QED BY <1>1, <2>1, RayIs DEF Flat
<1>4. \A i \in Rows(e) : w[<<"a", i>>] = 0
  <2> SUFFICES ASSUME NEW i \in Rows(e) PROVE w[<<"a", i>>] = 0  BY Zenon
  <2> DEFINE k == <<"a", i>>
  <2>1. k \in Columns(e) /\ k \in Artificials(e)  BY <1>1, ColumnKinds
  <2> HIDE DEF k, w
  <2>2. CASE e.status[k] = "REMOVED"
    <3>1. k \notin Basic(e) /\ k \notin Parked(e)  BY <1>1, <2>1, <2>2 DEF BasisInv, Parked
    <3>2. w[k] = 0  BY <1>2, <2>1, <3>1
    <3> QED BY <3>2 DEF k
  <2>3. CASE e.status[k] # "REMOVED"
    <3>1. e.l[k] = 0 /\ e.u[k] = 0  BY <2>1, <2>3 DEF Harmless
    <3>2. ~(w[k] > 0) /\ ~(w[k] < 0) /\ w[k] \in Int  BY <1>2, <2>1, <3>1, InfinityInt
    <3>3. w[k] = 0  BY <3>2
    <3> QED BY <3>3 DEF k
  <2> QED BY <2>2, <2>3
<1>5. \A i \in Rows(e) : e.lp.rows[i].rel # "=" => w[<<"s", i>>] >= 0 /\ w[<<"s", i>>] \in Int
  <2> SUFFICES ASSUME NEW i \in Rows(e), e.lp.rows[i].rel # "="
               PROVE w[<<"s", i>>] >= 0 /\ w[<<"s", i>>] \in Int
    OBVIOUS
  <2> DEFINE k == <<"s", i>>
  <2>1. k \in Columns(e) /\ ~Own(e, k) /\ k[1] = "s"  BY <1>1, ColumnKinds DEF Own
  <2> HIDE DEF k, w
  <2>2. e.l[k] = 0  BY <1>1, <2>1 DEF BoxInv
  <2>3. w[k] >= 0 /\ w[k] \in Int  BY <1>2, <2>1, <2>2, InfinityInt
  <2> QED BY <2>3 DEF k
<1>6. d \in [DOMAIN e.lp.c -> Int]
  <2>1. \A k \in Columns(e) : w[k] \in Int  BY <1>2
  <2> HIDE DEF w
  <2> QED BY <1>1, <2>1, UnsplitInt
<1>7. ASSUME NEW i \in Rows(e)
      PROVE  Meets(e.lp.rows[i].rel, RowAt(e.lp.rows[i], d), 0)
  <2> DEFINE m == Mlt(e.lp.rows[i])
             v == RowAt(e.lp.rows[i], d)
             g == SlackSign(e.lp.rows[i])
             rel == e.lp.rows[i].rel
             ws == w[<<"s", i>>]
             wa == w[<<"a", i>>]
  <2>1. 0 = m * v + (IF rel = "=" THEN 0 ELSE g * ws) + e.artSign[i] * wa
    <3>1. \A k \in Columns(e) : w[k] \in Int  BY <1>2
    <3>2. RowSum(e, w, i) = 0  BY <1>3
    <3> HIDE DEF w
    <3>3. RowSum(e, w, i) = Mlt(e.lp.rows[i]) * RowAt(e.lp.rows[i], Unsplit(e, w))
             + (IF e.lp.rows[i].rel = "=" THEN 0 ELSE SlackSign(e.lp.rows[i]) * w[<<"s", i>>])
             + e.artSign[i] * w[<<"a", i>>]
      BY <1>1, <3>1, RowOfColumns DEF RowSum
    <3> QED BY <3>2, <3>3
  <2>2. /\ m \in {-1, 1} /\ g \in {-1, 1} /\ e.artSign[i] \in {-1, 1}
        /\ rel \in {"<", ">", "="} /\ (rel = "<" => g = m) /\ (rel = ">" => g = -m)
    BY <1>1, Signs, FormIsFinite
  <2>3. wa = 0 /\ (rel # "=" => ws \in Int /\ ws >= 0)  BY <1>4, <1>5
  <2>4. v \in Int
    <3> DEFINE y == [h \in DOMAIN e.lp.rows |-> 0]
    <3>2. Ints(y, DOMAIN e.lp.rows)  BY DEF Ints
    <3> HIDE DEF y, d
    <3> QED BY <1>1, <1>6, <3>2, RowsTimesDuals DEF Rows
  <2>5. e.artSign[i] * wa = 0  BY <2>2, <2>3
  <2> HIDE DEF m, v, g, rel, ws, wa
  <2>6. Meets(rel, v, 0)
    <3>1. CASE rel = "<"
      <4>1. 0 = m * v + m * ws + 0 /\ ws \in Int /\ ws >= 0  BY <2>1, <2>2, <2>3, <2>5, <3>1
      <4>2. v <= 0
        <5>1. CASE m = 1  BY <2>4, <4>1, <5>1
        <5>2. CASE m = -1  BY <2>4, <4>1, <5>2
        <5> QED BY <2>2, <5>1, <5>2
      <4> QED BY <3>1, <4>2 DEF Meets
    <3>2. CASE rel = ">"
      <4>1. 0 = m * v + (-m) * ws + 0 /\ ws \in Int /\ ws >= 0  BY <2>1, <2>2, <2>3, <2>5, <3>2
      <4>2. v >= 0
        <5>1. CASE m = 1  BY <2>4, <4>1, <5>1
        <5>2. CASE m = -1  BY <2>4, <4>1, <5>2
        <5> QED BY <2>2, <5>1, <5>2
      <4> QED BY <3>2, <4>2 DEF Meets
    <3>3. CASE rel = "="
      <4>1. 0 = m * v + 0 + 0  BY <2>1, <2>5, <3>3
      <4>2. v = 0
        <5>1. CASE m = 1  BY <2>4, <4>1, <5>1
        <5>2. CASE m = -1  BY <2>4, <4>1, <5>2
        <5> QED BY <2>2, <5>1, <5>2
      <4> QED BY <3>3, <4>2 DEF Meets
    <3> QED BY <2>2, <3>1, <3>2, <3>3
  <2> QED BY <2>6 DEF rel, v
<1>8. ASSUME NEW j \in DOMAIN e.lp.c
      PROVE  /\ d[j] > 0 => e.lp.u[j] >= LP_INF
             /\ d[j] < 0 => e.lp.l[j] <= -LP_INF
  <2>1. CASE j \in e.split
    <3>1. j \in Split(e.lp)  BY <1>1, <2>1 DEF BoxInv
    <3> QED BY <3>1 DEF Split, Free
  <2>2. CASE j \notin e.split
    <3> DEFINE k == <<"x", j>>
    <3>1. k \in Columns(e) /\ Own(e, k)  BY <1>1, <2>2, ColumnKinds DEF Own
    <3>2. e.l[k] = e.lp.l[j] /\ e.u[k] = e.lp.u[j]  BY <1>1, <3>1 DEF BoxInv
    <3>3. d[j] = w[k] - 0  BY <2>2 DEF Unsplit
    <3>4. /\ w[k] \in Int /\ (w[k] > 0 => e.u[k] >= LP_INF) /\ (w[k] < 0 => e.l[k] <= -LP_INF)
      BY <1>2, <3>1
    <3> HIDE DEF k, d, w
    <3> QED BY <3>2, <3>3, <3>4
  <2> QED BY <2>1, <2>2
<1>9. Gain(e.lp, Value(e.lp, d)) > 0
  <2>1. \A k \in Columns(e) : w[k] \in Int  BY <1>2
  <2>2. Total([k \in Columns(e) |-> e.cobj[k] * w[k]], Columns(e)) > 0  BY RayGains
  <2> HIDE DEF w
  <2>3. Total([k \in Columns(e) |-> TrueCost(e)[k] * w[k]], Columns(e))
           = Gain(e.lp, Value(e.lp, Unsplit(e, w)))
    BY <1>1, <2>1, CostOfColumns
  <2> QED BY <2>2, <2>3
<1> HIDE DEF d
<1>10. Improving(e.lp, d)  BY <1>7, <1>8, <1>9 DEF Improving, Rows
<1> QED BY <1>10 DEF d

(* What an iteration of the primal simplex returns.                        *)
LEMMA IterateIs ==
  ASSUME NEW e, StructInv(e), RunningInv(e), Described(e.lp), NEW o \in iterate(e)
  PROVE  \/ o = <<0, e>> /\ Entering(e) = {}
         \/ o[1] = 1 /\ StructInv(o[2]) /\ RunningInv(o[2]) /\ Keeps(o[2], e, Moving) /\ IsStruct(o[2])
         \/ /\ o[1] = 2 /\ IsStruct(o[2]) /\ Keeps(o[2], e, {"unb_ray"}) /\ e.lane # "phase1"
            /\ o[2].unb_ray # NoRay /\ Improving(e.lp, Unsplit(e, o[2].unb_ray))
<1>1. \/ o = <<0, e>> /\ Entering(e) = {}
      \/ \E q \in Entering(e) : o = Move(e, q)
  BY DEF iterate
<1>2. /\ FormInv(e) /\ AtBounds(e) /\ ~e.rebuild_pending /\ Unimodular(e.lp.rows, Len(e.lp.c))
      /\ IF e.lane = "phase1" THEN e.cobj = PhaseOneCost(e) ELSE e.cobj = TrueCost(e) /\ Harmless(e)
  BY DescribedFacts DEF StructInv, RunningInv, Stands
<1>3. ASSUME NEW q \in Entering(e), o = Move(e, q)
      PROVE  \/ o[1] = 1 /\ StructInv(o[2]) /\ RunningInv(o[2]) /\ Keeps(o[2], e, Moving) /\ IsStruct(o[2])
             \/ /\ o[1] = 2 /\ IsStruct(o[2]) /\ Keeps(o[2], e, {"unb_ray"}) /\ e.lane # "phase1"
                /\ o[2].unb_ray # NoRay /\ Improving(e.lp, Unsplit(e, o[2].unb_ray))
  <2>1. q \in Parked(e) /\ q \in Columns(e)  BY DEF Entering, Parked
  <2>2. \/ /\ o[1] = 2 /\ IsStruct(o[2]) /\ Keeps(o[2], e, {"unb_ray"})
           /\ o[2].unb_ray = Ray(e, q) /\ Unblocked(e, q)
        \/ o[1] = 1 /\ StructInv(o[2]) /\ RunningInv(o[2]) /\ Keeps(o[2], e, Moving) /\ IsStruct(o[2])
    BY <1>2, <1>3, <2>1, MoveKeeps
  <2>3. Ray(e, q) # NoRay
    <3>1. DOMAIN Ray(e, q) = Columns(e)  BY DEF Ray
    <3>2. DOMAIN NoRay = {}  BY DEF NoRay
    <3> QED BY <2>1, <3>1, <3>2
  <2>4. ASSUME Unblocked(e, q)
        PROVE  e.lane # "phase1" /\ Improving(e.lp, Unsplit(e, Ray(e, q)))
    <3>1. e.lane # "phase1"  BY <1>2, <2>4, PhaseOneBlocks
    <3> QED BY <1>2, <2>4, <3>1, RayImproves
  <2> QED BY <2>2, <2>3, <2>4
<1> QED BY <1>1, <1>3

(* What a verdict is about depends on no field that it sets.               *)
LEMMA SameEvidence ==
  ASSUME NEW e, NEW r, Keeps(r, e, Aside)
  PROVE  /\ Duals(r) = Duals(e) /\ \A y : Signed(r, y) = Signed(e, y)
         /\ \A x : Unsplit(r, x) = Unsplit(e, x)
         /\ Rows(r) = Rows(e) /\ Columns(r) = Columns(e)
<1>1. /\ r.lp = e.lp /\ r.split = e.split /\ r.artSign = e.artSign /\ r.cobj = e.cobj
      /\ r.basis = e.basis /\ r.inv = e.inv
  BY AsideFields
<1>2. Rows(r) = Rows(e) /\ Columns(r) = Columns(e)  BY <1>1, SameShape
<1>3. Duals(r) = Duals(e)
  <2> DEFINE v == [i \in Rows(e) |-> e.cobj[e.basis[i]]]
  <2>1. Duals(r) = Btran(r, v) /\ Duals(e) = Btran(e, v)  BY <1>1, <1>2 DEF Duals
  <2> HIDE DEF v
  <2>2. /\ Btran(r, v) = [h \in Rows(r) |-> Prod(v, [i \in Rows(r) |-> r.inv[i][h]], Rows(r))]
        /\ Btran(e, v) = [h \in Rows(e) |-> Prod(v, [i \in Rows(e) |-> e.inv[i][h]], Rows(e))]
    BY ModelProducts
  <2>3. Btran(r, v) = Btran(e, v)  BY <1>1, <1>2, <2>2
  <2> QED BY <2>1, <2>3
<1>4. \A y : Signed(r, y) = Signed(e, y)  BY <1>1, <1>2 DEF Signed
<1>5. \A x : Unsplit(r, x) = Unsplit(e, x)  BY <1>1 DEF Unsplit
<1> QED BY <1>2, <1>3, <1>4, <1>5

(* The end of a call.                                                      *)
LEMMA Ends ==
  ASSUME NEW e, StructInv(e), Stands(e), e.rebuild_pending = FALSE, NEW r, IsStruct(r),
         Keeps(r, e, Aside), r.lane = "idle", Judged(r)
  PROVE  Outcome(r) /\ r.lp = e.lp
<1>1. /\ r.lp = e.lp /\ r.split = e.split /\ r.artSign = e.artSign /\ r.l = e.l /\ r.u = e.u
      /\ r.rebuild_pending = e.rebuild_pending /\ r.c0 = e.c0 /\ r.cobj = e.cobj
      /\ r.basis = e.basis /\ r.inv = e.inv /\ r.status = e.status /\ r.x = e.x
  BY AsideFields
<1>2. StructInv(r) /\ Stands(r)  BY <1>1, AsideKeeps
<1> QED BY <1>1, <1>2 DEF Outcome

(* A call that gives up, with or without a ray.                            *)
LEMMA GivesUp ==
  ASSUME NEW e, StructInv(e), Stands(e), e.rebuild_pending = FALSE, NEW r, IsStruct(r),
         Keeps(r, e, Aside), r.lane = "idle", r.status_out \in {3, 4, 5},
         ~r.farkas_ok, ~r.dfarkas_ok,
         r.unb_ray = NoRay \/ (r.status_out = 5 /\ Improving(e.lp, Unsplit(e, r.unb_ray)))
  PROVE  Outcome(r) /\ r.lp = e.lp
<1>1. r.lp = e.lp /\ \A x : Unsplit(r, x) = Unsplit(e, x)  BY AsideFields, SameEvidence
<1>2. Judged(r)  BY <1>1 DEF Judged
<1> QED BY <1>2, Ends

(* A call that ends with a refutation.                                     *)
LEMMA EndsInfeasible ==
  ASSUME NEW e, StructInv(e), Stands(e), e.rebuild_pending = FALSE, NEW r, IsStruct(r),
         Keeps(r, e, Aside), r.lane = "idle", r.status_out = 1, r.unb_ray = NoRay,
         NEW y, Ints(y, DOMAIN e.lp.rows), Refutes(e.lp, y),
         r.farkas_ok => Signed(e, Duals(e)) = y,
         r.dfarkas_ok => Signed(e, r.dfarkas_ray) = y
  PROVE  Outcome(r) /\ r.lp = e.lp
<1>1. /\ r.lp = e.lp /\ Duals(r) = Duals(e) /\ \A z : Signed(r, z) = Signed(e, z)
  BY AsideFields, SameEvidence
<1>2. LinearProgram(e.lp)  BY DEF StructInv, FormInv
<1>3. \A p \in [DOMAIN e.lp.c -> Int] : ~Feasible(e.lp, p)  BY <1>2, RefutedHasNoPoint
<1>4. Judged(r)  BY <1>1, <1>3 DEF Judged
<1> QED BY <1>4, Ends

(* A call that ends at an optimum.                                         *)
LEMMA EndsOptimal ==
  ASSUME NEW e, StructInv(e), RunningInv(e), e.rebuild_pending = FALSE, e.cobj = TrueCost(e),
         Harmless(e), Entering(e) = {}, AllWithin(e),
         NEW r, IsStruct(r), Keeps(r, e, Aside), r.lane = "idle", r.status_out = 0,
         ~r.farkas_ok, ~r.dfarkas_ok, r.unb_ray = NoRay,
         r.objval = Total([k \in Columns(e) |-> e.cobj[k] * e.x[k]], Columns(e))
  PROVE  Outcome(r) /\ r.lp = e.lp
<1> DEFINE x == Unsplit(e, e.x)
<1>1. r.lp = e.lp /\ r.x = e.x /\ \A z : Unsplit(r, z) = Unsplit(e, z)  BY AsideFields, SameEvidence
<1>2. /\ Feasible(e.lp, x)
      /\ \A p \in [DOMAIN e.lp.c -> Int] :
           Feasible(e.lp, p) => Gain(e.lp, Value(e.lp, p)) <= Gain(e.lp, Value(e.lp, x))
      /\ \A d \in [DOMAIN e.lp.c -> Int] : ~Improving(e.lp, d)
      /\ Gain(e.lp, Value(e.lp, x)) = r.objval
  BY OptimumIs
<1>3. Unsplit(r, r.x) = x  BY <1>1
<1> HIDE DEF x
<1>4. Judged(r)  BY <1>1, <1>2, <1>3 DEF Judged
<1>5. Stands(e)  BY DEF RunningInv
<1> QED BY <1>4, <1>5, Ends

(* A call that ends with a point and a ray.                                *)
LEMMA EndsUnbounded ==
  ASSUME NEW e, StructInv(e), Stands(e), e.rebuild_pending = FALSE, Harmless(e), AllWithin(e),
         NEW r, IsStruct(r), Keeps(r, e, Aside), r.lane = "idle", r.status_out = 2,
         ~r.farkas_ok, ~r.dfarkas_ok, r.unb_ray # NoRay, Improving(e.lp, Unsplit(e, r.unb_ray))
  PROVE  Outcome(r) /\ r.lp = e.lp
<1>1. r.lp = e.lp /\ r.x = e.x /\ \A z : Unsplit(r, z) = Unsplit(e, z)  BY AsideFields, SameEvidence
<1>2. RowsHold(e) /\ ~e.rebuild_pending  BY DEF Stands
<1>3. Feasible(e.lp, Unsplit(e, e.x))  BY <1>2, PointIsFeasible
<1>4. Judged(r)  BY <1>1, <1>3 DEF Judged
<1> QED BY <1>2, <1>4, Ends

(* How an optimum is reported.                                             *)
LEMMA SolvedIs ==
  ASSUME NEW e, IsStruct(e), NEW r, r = Solved(e)
  PROVE  /\ IsStruct(r) /\ r.lane = "idle" /\ r.status_out = 0
         /\ Keeps(r, e, {"objval", "lane", "status_out", "iters", "carried"})
         /\ r.objval = Total([k \in Columns(e) |-> e.cobj[k] * e.x[k]], Columns(e))
<1> DEFINE v == MapThenSumSet(LAMBDA k : e.cobj[k] * e.x[k], Columns(e))
           m == [e EXCEPT !.objval = v]
<1>1. r = Return(m, 0)  BY Zenon DEF Solved
<1>2. v = Total([k \in Columns(e) |-> e.cobj[k] * e.x[k]], Columns(e))  BY TotalOfProducts, Zenon
<1> HIDE DEF v
<1>3. IsStruct(m) /\ Keeps(m, e, {"objval"}) /\ m.objval = v  BY DEF IsStruct, Fields, Keeps
<1> HIDE DEF m
<1>4. /\ IsStruct(r) /\ r.lane = "idle" /\ r.status_out = 0
      /\ Keeps(r, m, {"lane", "status_out", "iters", "carried"})
  BY <1>1, <1>3, ReturnIs
<1>5. Keeps(r, e, {"objval", "lane", "status_out", "iters", "carried"}) /\ r.objval = m.objval
  BY <1>3, <1>4 DEF Keeps, Fields
<1> QED BY <1>2, <1>3, <1>4, <1>5

(* The end of a cold solve sets duals and objective from the basis.        *)
LEMMA SolvedColdIs ==
  ASSUME NEW e, IsStruct(e), NEW r, r = SolvedCold(e)
  PROVE  /\ IsStruct(r) /\ r.lane = "idle" /\ r.status_out = 0
         /\ Keeps(r, e, {"duals", "objval", "lane", "status_out", "iters", "carried"})
         /\ r.objval = Total([k \in Columns(e) |-> e.cobj[k] * e.x[k]], Columns(e))
<1> DEFINE y == Duals(e)
           m == [e EXCEPT !.duals = y]
<1>1. r = Solved(m)  BY DEF SolvedCold
<1> HIDE DEF y
<1>2. IsStruct(m) /\ Keeps(m, e, {"duals"})  BY DEF IsStruct, Fields, Keeps
<1> HIDE DEF m
<1>3. /\ IsStruct(r) /\ r.lane = "idle" /\ r.status_out = 0
      /\ Keeps(r, m, {"objval", "lane", "status_out", "iters", "carried"})
      /\ r.objval = Total([k \in Columns(m) |-> m.cobj[k] * m.x[k]], Columns(m))
  BY <1>1, <1>2, SolvedIs
<1>4. Keeps(m, e, Aside)  BY <1>2 DEF Keeps, Aside
<1>5. m.cobj = e.cobj /\ m.x = e.x /\ Columns(m) = Columns(e)  BY <1>4, AsideFields, SameEvidence
<1>6. Keeps(r, e, {"duals", "objval", "lane", "status_out", "iters", "carried"})
  BY <1>2, <1>3 DEF Keeps
<1> QED BY <1>3, <1>5, <1>6

(* An optimum outside Phase I is reported as it is.                        *)
LEMMA ReportsOptimum ==
  ASSUME NEW e, StructInv(e), RunningInv(e), e.rebuild_pending = FALSE, e.lane # "phase1",
         Entering(e) = {}, AllWithin(e), NEW r, r \in {Solved(e), SolvedCold(e)}
  PROVE  Outcome(r) /\ r.lp = e.lp
<1>1. IsStruct(e)  BY DEF StructInv
<1>2. /\ IsStruct(r) /\ r.lane = "idle" /\ r.status_out = 0
      /\ Keeps(r, e, {"duals", "objval", "lane", "status_out", "iters", "carried"})
      /\ r.objval = Total([k \in Columns(e) |-> e.cobj[k] * e.x[k]], Columns(e))
  <2>1. CASE r = Solved(e)
    <3>1. /\ IsStruct(r) /\ r.lane = "idle" /\ r.status_out = 0
          /\ Keeps(r, e, {"objval", "lane", "status_out", "iters", "carried"})
          /\ r.objval = Total([k \in Columns(e) |-> e.cobj[k] * e.x[k]], Columns(e))
      BY <1>1, <2>1, SolvedIs
    <3> QED BY <3>1 DEF Keeps
  <2>2. CASE r = SolvedCold(e)  BY <1>1, <2>2, SolvedColdIs
  <2> QED BY <2>1, <2>2
<1>3. Keeps(r, e, Aside)  BY <1>2 DEF Keeps, Aside
<1>4. ~r.farkas_ok /\ ~r.dfarkas_ok /\ r.unb_ray = NoRay
  <2>1. r.farkas_ok = e.farkas_ok /\ r.dfarkas_ok = e.dfarkas_ok /\ r.unb_ray = e.unb_ray
    BY <1>2 DEF Keeps, Fields
  <2> QED BY <2>1 DEF RunningInv
<1>5. e.cobj = TrueCost(e) /\ Harmless(e)  BY DEF RunningInv
<1> QED BY <1>2, <1>3, <1>4, <1>5, EndsOptimal

(* The sum of the artificials is positive only if one of them is.          *)
LEMMA SomePositive ==
  ASSUME NEW f, NEW S, IsFiniteSet(S), \A j \in S : f[j] \in Int, Total(f, S) > 0
  PROVE  \E j \in S : f[j] > 0
<1> SUFFICES ASSUME \A j \in S : ~(f[j] > 0) PROVE FALSE  OBVIOUS
<1> DEFINE z == [j \in S |-> 0]
<1>1. \A j \in S : z[j] = 0 /\ f[j] <= z[j]  OBVIOUS
<1> HIDE DEF z
<1>2. Total(z, S) = 0  BY <1>1, TotalOfZeros
<1>3. Total(f, S) <= Total(z, S)  BY <1>1, TotalGrows
<1>4. Total(f, S) \in Int  BY TotalInt
<1> QED BY <1>2, <1>3, <1>4

(* A sum of terms that are not negative is not negative.                   *)
LEMMA NoneNegative ==
  ASSUME NEW f, NEW S, IsFiniteSet(S), \A j \in S : f[j] \in Int /\ f[j] >= 0
  PROVE  Total(f, S) \in Int /\ Total(f, S) >= 0
<1> DEFINE z == [j \in S |-> 0]
<1>1. \A j \in S : z[j] = 0 /\ z[j] <= f[j]  OBVIOUS
<1> HIDE DEF z
<1>2. Total(z, S) = 0  BY <1>1, TotalOfZeros
<1>3. Total(z, S) <= Total(f, S)  BY <1>1, TotalGrows
<1>4. Total(f, S) \in Int  BY TotalInt
<1> QED BY <1>2, <1>3, <1>4

(* A basic artificial that is pinned: the struct stands as it stood.       *)
LEMMA PinnedIs ==
  ASSUME NEW e, StructInv(e), RunningInv(e), AllWithin(e), NEW r, r = Pinned(e)
  PROVE  /\ StructInv(r) /\ AtBounds(r) /\ ~EmptyBox(r) /\ BasicPinned(r)
         /\ Keeps(r, e, {"l", "u"})
<1> DEFINE C == Columns(e)
           pin == {k \in Basic(e) : k[1] = "a"}
           lo == [k \in C |-> IF k \in pin THEN 0 ELSE e.l[k]]
           hi == [k \in C |-> IF k \in pin THEN 0 ELSE e.u[k]]
<1>1. /\ IsStruct(e) /\ FormInv(e) /\ BasisInv(e) /\ BoxInv(e) /\ ValuesInv(e) /\ CostInv(e)
      /\ AtBounds(e) /\ ~EmptyBox(e) /\ ~e.rebuild_pending
  BY DEF StructInv, RunningInv, Stands
<1>2. r = [e EXCEPT !.l = lo, !.u = hi]  BY DEF Pinned
<1>3. IsStruct(r) /\ Keeps(r, e, {"l", "u"}) /\ r.l = lo /\ r.u = hi
  <2> HIDE DEF lo, hi
  <2> QED BY <1>1, <1>2 DEF IsStruct, Fields, Keeps
<1>4. /\ r.lp = e.lp /\ r.split = e.split /\ r.artSign = e.artSign
      /\ r.rebuild_pending = e.rebuild_pending /\ r.c0 = e.c0 /\ r.cobj = e.cobj
      /\ r.basis = e.basis /\ r.inv = e.inv /\ r.status = e.status /\ r.x = e.x
  BY <1>3 DEF Keeps, Fields
<1>5. /\ Rows(r) = Rows(e) /\ Columns(r) = C /\ \A k : Column(r, k) = Column(e, k)
      /\ TrueCost(r) = TrueCost(e) /\ PhaseOneCost(r) = PhaseOneCost(e)
  BY <1>4, SameShape, SameProgram
<1>6. Basic(r) = Basic(e) /\ BasisMatrix(r) = BasisMatrix(e) /\ Parked(r) = Parked(e)
      /\ \A k : Own(r, k) <=> Own(e, k)
  BY <1>4, <1>5 DEF Basic, BasisMatrix, Parked, Own
<1>7. FormInv(r)  BY <1>1, <1>4, <1>5 DEF FormInv
<1>8. BasisInv(r)  BY <1>1, <1>4, <1>5, <1>6 DEF BasisInv
<1>9. ValuesInv(r) /\ CostInv(r)  BY <1>1, <1>4, <1>5, <1>6 DEF ValuesInv, CostInv
<1>10. \A k \in C : /\ lo[k] = IF k \in pin THEN 0 ELSE e.l[k]
                    /\ hi[k] = IF k \in pin THEN 0 ELSE e.u[k]
                    /\ lo[k] \in Int /\ hi[k] \in Int /\ (k \in pin => k[1] = "a")
  BY <1>1 DEF BoxInv
<1>11. lo \in [C -> Int] /\ hi \in [C -> Int]  BY <1>10
<1>12. \A k \in Basic(e) : k \in C /\ e.status[k] = "BASIC"  BY <1>1 DEF Basic, BasisInv
<1>13. \A k \in Parked(e) : k \in C /\ k \notin pin  BY <1>12 DEF Parked
<1>14. BasicPinned(r)
  <2> SUFFICES ASSUME NEW k \in Basic(e), k[1] = "a" PROVE lo[k] = 0 /\ hi[k] = 0
    BY <1>3, <1>6 DEF BasicPinned
  <2>1. k \in C /\ k \in pin  BY <1>12
  <2> HIDE DEF lo, hi, pin
  <2> QED BY <1>10, <2>1
<1> HIDE DEF lo, hi, pin
<1>15. BoxInv(r)
  <2>1. ASSUME NEW k \in C, Own(e, k) PROVE lo[k] = e.l[k] /\ hi[k] = e.u[k]
    <3>1. k[1] # "a"  BY <2>1 DEF Own
    <3> QED BY <1>10, <3>1
  <2>2. ASSUME NEW k \in C, ~Own(e, k)
        PROVE lo[k] = 0 /\ (hi[k] = LP_INF \/ (k[1] = "a" /\ hi[k] = 0))
    <3>1. e.l[k] = 0 /\ (e.u[k] = LP_INF \/ (k[1] = "a" /\ e.u[k] = 0))  BY <1>1, <2>2 DEF BoxInv
    <3> QED BY <1>10, <3>1
  <2> QED BY <1>1, <1>3, <1>4, <1>5, <1>6, <1>11, <2>1, <2>2 DEF BoxInv
<1>16. AtBounds(r)
  <2>1. \A k \in Parked(e) : lo[k] = e.l[k] /\ hi[k] = e.u[k]  BY <1>10, <1>13
  <2> QED BY <1>1, <1>3, <1>4, <1>6, <2>1 DEF AtBounds
<1>17. ~EmptyBox(r)
  <2> SUFFICES ASSUME NEW k \in C, lo[k] > hi[k] PROVE FALSE  BY <1>3, <1>5 DEF EmptyBox
  <2>1. ~(e.l[k] > e.u[k])  BY <1>1 DEF EmptyBox
  <2> QED BY <1>10, <2>1
<1> QED BY <1>3, <1>7, <1>8, <1>9, <1>14, <1>15, <1>16, <1>17 DEF StructInv

(* solver_feasible speaks of every column that is present.                 *)
LEMMA FeasibleMeans ==
  ASSUME NEW e, StructInv(e), ~EmptyBox(e), solver_feasible(e)
  PROVE  AllWithin(e)
<1>1. \A k \in Columns(e) : e.status[k] # "REMOVED" => Violation(e, k) = 0
  BY Zenon DEF solver_feasible
<1> QED BY <1>1, FeasibleIsWithin

(* The end of Phase I.                                                     *)
LEMMA PhaseOneTrusted ==
  ASSUME NEW e, StructInv(e), RunningInv(e), e.rebuild_pending = FALSE, e.lane = "phase1",
         Entering(e) = {}, \A k \in Columns(e) : e.status[k] # "REMOVED" => Violation(e, k) = 0,
         NEW S, S = Total(e.x, Basic(e) \cap Artificials(e))
  PROVE  /\ S \in Int /\ S >= 0 /\ AllWithin(e)
         /\ S > 0 => Refutes(e.lp, Signed(e, Duals(e)))
<1> DEFINE B == Basic(e) \cap Artificials(e)
<1>1. /\ FormInv(e) /\ BasisInv(e) /\ BoxInv(e) /\ ValuesInv(e)
      /\ Stands(e) /\ ~EmptyBox(e) /\ ~e.rebuild_pending /\ e.cobj = PhaseOneCost(e)
  BY DEF StructInv, RunningInv
<1>2. AllWithin(e)  BY <1>1, FeasibleIsWithin
<1>3. IsFiniteSet(B)
  <2>1. IsFiniteSet(Columns(e))  BY <1>1, ColumnsFinite
  <2>2. B \subseteq Columns(e)  BY DEF Columns
  <2> QED BY <2>1, <2>2, FS_Subset
<1>4. \A k \in B : e.x[k] \in Int /\ e.x[k] >= 0
  <2> SUFFICES ASSUME NEW k \in B PROVE e.x[k] \in Int /\ e.x[k] >= 0  OBVIOUS
  <2>1. k \in Columns(e) /\ k[1] = "a"  BY DEF Columns, Artificials
  <2>2. e.status[k] = "BASIC"  BY <1>1, <2>1 DEF BasisInv
  <2>3. ~Own(e, k)  BY <2>1 DEF Own
  <2>4. e.l[k] = 0 /\ e.x[k] \in Int  BY <1>1, <2>1, <2>3 DEF BoxInv, ValuesInv
  <2>5. e.l[k] <= e.x[k]  BY <1>2, <2>1, <2>2 DEF AllWithin
  <2> QED BY <2>4, <2>5
<1>5. S \in Int /\ S >= 0
  <2> HIDE DEF B
  <2>1. S = Total(e.x, B)  BY DEF B
  <2> QED BY <1>3, <1>4, <2>1, NoneNegative
<1>6. ASSUME S > 0 PROVE Refutes(e.lp, Signed(e, Duals(e)))
  <2>1. \E k \in B : e.x[k] > 0
    <3> HIDE DEF B
    <3>1. S = Total(e.x, B)  BY DEF B
    <3> QED BY <1>3, <1>4, <1>6, <3>1, SomePositive
  <2> QED BY <1>1, <2>1, PhaseOneRefutes
<1> QED BY <1>2, <1>5, <1>6

(* Phase II is entered without a word to the pending rebuild.              *)
LEMMA EnterKeepsPending ==
  ASSUME NEW c, IsStruct(c), NEW r, r = EnterPhaseTwo(c)
  PROVE  r.rebuild_pending = c.rebuild_pending
<1> DEFINE st == [k \in Columns(c) |->
                        IF k[1] = "a" /\ c.status[k] # "BASIC" THEN "REMOVED" ELSE c.status[k]]
           m == [c EXCEPT !.status = st, !.cobj = c.c0, !.lane = "phase2"]
<1>1. r = recompute_basic(m)  BY DEF EnterPhaseTwo
<1>2. m.rebuild_pending = c.rebuild_pending /\ IsStruct(m)
  <2> HIDE DEF st
  <2> QED BY DEF IsStruct, Fields
<1> HIDE DEF m
<1> DEFINE rest == [i \in Rows(m) |-> Abs(m.lp.rows[i].b)
                 - MapThenSumSet(LAMBDA k : A(m, k, i) * m.x[k], Parked(m))]
           xB == Ftran(m, rest)
           X == [k \in Columns(m) |->
         IF k \in Basic(m) THEN xB[CHOOSE i \in Rows(m) : m.basis[i] = k] ELSE m.x[k]]
<1>3. r = [m EXCEPT !.x = X]  BY <1>1, Zenon DEF recompute_basic
<1> HIDE DEF X
<1>4. r.rebuild_pending = m.rebuild_pending  BY <1>2, <1>3 DEF IsStruct, Fields
<1> QED BY <1>2, <1>4

(* A struct given another start of Phase I.                                *)
LEMMA RestartKeeps ==
  ASSUME NEW e, StructInv(e), RunningInv(e), e.rebuild_pending = FALSE, e.lane = "phase1",
         NEW r, r = InitialBasis([e EXCEPT !.restarted = TRUE])
  PROVE  Outcome(r) /\ r.lp = e.lp
<1> DEFINE m == [e EXCEPT !.restarted = TRUE]
<1>1. IsStruct(e) /\ ~EmptyBox(e)  BY DEF StructInv, RunningInv
<1>2. IsStruct(m) /\ Keeps(m, e, {"restarted"})  BY <1>1 DEF IsStruct, Fields, Keeps
<1>3. r = InitialBasis(m)  OBVIOUS
<1> HIDE DEF m
<1>4. Keeps(m, e, Aside)  BY <1>2 DEF Keeps, Aside
<1>5. /\ m.lp = e.lp /\ m.split = e.split /\ m.artSign = e.artSign /\ m.l = e.l /\ m.u = e.u
      /\ m.rebuild_pending = e.rebuild_pending /\ m.c0 = e.c0 /\ m.cobj = e.cobj
      /\ m.basis = e.basis /\ m.inv = e.inv /\ m.status = e.status /\ m.x = e.x
  BY <1>4, AsideFields
<1>6. StructInv(m) /\ ~EmptyBox(m) /\ PhaseOneCost(m) = PhaseOneCost(e)
  BY <1>1, <1>2, <1>5, AsideKeeps
<1>7. /\ StructInv(r) /\ Stands(r) /\ ~EmptyBox(r)
      /\ Keeps(r, m, {"artSign", "basis", "inv", "status", "x"})
      /\ PhaseOneCost(r) = PhaseOneCost(m)
  <2>1. IsStruct(m) /\ FormInv(m) /\ BoxInv(m) /\ CostInv(m) /\ ~m.rebuild_pending
    BY <1>5, <1>6 DEF StructInv
  <2> QED BY <1>3, <1>6, <2>1, InitialBasisKeeps
<1>8. /\ r.lane = e.lane /\ r.farkas_ok = e.farkas_ok /\ r.dfarkas_ok = e.dfarkas_ok
      /\ r.unb_ray = e.unb_ray
  <2>1. /\ m.lane = e.lane /\ m.farkas_ok = e.farkas_ok /\ m.dfarkas_ok = e.dfarkas_ok
        /\ m.unb_ray = e.unb_ray
    BY <1>2 DEF Keeps, Fields
  <2>2. /\ r.lane = m.lane /\ r.farkas_ok = m.farkas_ok /\ r.dfarkas_ok = m.dfarkas_ok
        /\ r.unb_ray = m.unb_ray
    BY <1>7 DEF Keeps, Fields
  <2> QED BY <2>1, <2>2
<1>9. r.lp = m.lp /\ r.rebuild_pending = m.rebuild_pending /\ r.cobj = m.cobj
  BY <1>7 DEF Keeps, Fields
<1>10. RunningInv(r)
  BY <1>5, <1>6, <1>7, <1>8, <1>9 DEF RunningInv
<1> QED BY <1>5, <1>7, <1>8, <1>9, <1>10 DEF Outcome

(* Phase II entered with the basic artificials pinned at zero.             *)
LEMMA PinnedPhaseTwo ==
  ASSUME NEW e, StructInv(e), RunningInv(e), e.rebuild_pending = FALSE, AllWithin(e),
         NEW r, r = EnterPhaseTwo(Pinned(e))
  PROVE  Outcome(r) /\ r.lp = e.lp
<1> DEFINE m == Pinned(e)
<1>1. /\ StructInv(m) /\ AtBounds(m) /\ ~EmptyBox(m) /\ BasicPinned(m)
      /\ Keeps(m, e, {"l", "u"})
  <2> HIDE DEF m
  <2> QED BY PinnedIs DEF m
<1>2. r = EnterPhaseTwo(m)  OBVIOUS
<1> HIDE DEF m
<1>3. /\ m.lp = e.lp /\ m.rebuild_pending = e.rebuild_pending /\ m.farkas_ok = e.farkas_ok
      /\ m.dfarkas_ok = e.dfarkas_ok /\ m.unb_ray = e.unb_ray
  BY <1>1 DEF Keeps, Fields
<1>4. ~m.rebuild_pending /\ ~m.farkas_ok /\ ~m.dfarkas_ok /\ m.unb_ray = NoRay
  BY <1>3 DEF RunningInv
<1>5. StructInv(r) /\ RunningInv(r) /\ r.lp = m.lp /\ r.lane = "phase2"
  BY <1>1, <1>2, <1>4, EnterPhaseTwoIs
<1>6. r.rebuild_pending = m.rebuild_pending
  BY <1>1, <1>2, EnterKeepsPending DEF StructInv
<1> QED BY <1>3, <1>5, <1>6 DEF Outcome

(* A call that stops without a verdict.                                    *)
LEMMA StopsWithoutVerdict ==
  ASSUME NEW e, StructInv(e), RunningInv(e), e.rebuild_pending = FALSE,
         NEW code \in {3, 4, 5}, NEW r, r = Return(e, code)
  PROVE  Outcome(r) /\ r.lp = e.lp
<1>1. IsStruct(e) /\ Stands(e)  BY DEF StructInv, RunningInv
<1>2. /\ IsStruct(r) /\ r.lane = "idle" /\ r.status_out = code
      /\ Keeps(r, e, {"lane", "status_out", "iters", "carried"})
  BY <1>1, ReturnIs
<1>3. Keeps(r, e, Aside)  BY <1>2 DEF Keeps, Aside
<1>4. r.farkas_ok = e.farkas_ok /\ r.dfarkas_ok = e.dfarkas_ok /\ r.unb_ray = e.unb_ray
  BY <1>2 DEF Keeps, Fields
<1>5. ~r.farkas_ok /\ ~r.dfarkas_ok /\ r.unb_ray = NoRay  BY <1>4 DEF RunningInv
<1> QED BY <1>1, <1>2, <1>3, <1>5, GivesUp

(* A refutation by the prices of Phase I.                                  *)
LEMMA RefusedKeeps ==
  ASSUME NEW e, StructInv(e), RunningInv(e), e.rebuild_pending = FALSE,
         Refutes(e.lp, Signed(e, Duals(e))), NEW r, r = Return([e EXCEPT !.farkas_ok = TRUE], 1)
  PROVE  Outcome(r) /\ r.lp = e.lp
<1> DEFINE m == [e EXCEPT !.farkas_ok = TRUE]
           y == Signed(e, Duals(e))
<1>1. IsStruct(e) /\ FormInv(e) /\ BasisInv(e) /\ CostInv(e) /\ Stands(e)
  BY DEF StructInv, RunningInv
<1>2. IsStruct(m) /\ Keeps(m, e, {"farkas_ok"})  BY <1>1 DEF IsStruct, Fields, Keeps
<1>3. r = Return(m, 1)  OBVIOUS
<1> HIDE DEF m
<1>4. /\ IsStruct(r) /\ r.lane = "idle" /\ r.status_out = 1
      /\ Keeps(r, m, {"lane", "status_out", "iters", "carried"})
  BY <1>2, <1>3, ReturnIs
<1>5. Keeps(r, e, Aside)  BY <1>2, <1>4 DEF Keeps, Aside
<1>6. r.dfarkas_ok = e.dfarkas_ok /\ r.unb_ray = e.unb_ray
  <2>1. m.dfarkas_ok = e.dfarkas_ok /\ m.unb_ray = e.unb_ray  BY <1>2 DEF Keeps, Fields
  <2>2. r.dfarkas_ok = m.dfarkas_ok /\ r.unb_ray = m.unb_ray  BY <1>4 DEF Keeps, Fields
  <2> QED BY <2>1, <2>2
<1>7. ~r.dfarkas_ok /\ r.unb_ray = NoRay  BY <1>6 DEF RunningInv
<1>8. Ints(y, DOMAIN e.lp.rows)
  <2>1. Ints(Duals(e), Rows(e))  BY <1>1, DualsPriceBasis
  <2>2. \A i \in Rows(e) : y[i] = Mlt(e.lp.rows[i]) * Duals(e)[i]  BY DEF Signed
  <2>3. \A i : Mlt(e.lp.rows[i]) \in Int  BY DEF Mlt
  <2> HIDE DEF y
  <2> QED BY <2>1, <2>2, <2>3 DEF Ints, Rows
<1>9. Refutes(e.lp, y) /\ Signed(e, Duals(e)) = y  OBVIOUS
<1> HIDE DEF y
<1> QED BY <1>1, <1>4, <1>5, <1>7, <1>8, <1>9, EndsInfeasible

(* What follows the last iteration of Phase I.                             *)
LEMMA AfterPhaseOneKeeps ==
  ASSUME NEW e, StructInv(e), RunningInv(e), e.rebuild_pending = FALSE, e.lane = "phase1",
         Entering(e) = {}, NEW r, r = AfterPhaseOne(0, e)
  PROVE  Outcome(r) /\ r.lp = e.lp
<1> DEFINE S == MapThenSumSet(LAMBDA k : e.x[k], Basic(e) \cap Artificials(e))
           T == Total(e.x, Basic(e) \cap Artificials(e))
           ok == \A k \in Columns(e) : e.status[k] # "REMOVED" => Violation(e, k) = 0
<1>1. S = T  BY DEF Total
<1>2. r = CASE ok /\ S > 0 -> Return([e EXCEPT !.farkas_ok = TRUE], 1)
            [] ok /\ S = 0 -> EnterPhaseTwo(Pinned(e))
            [] ~ok /\ e.restarted -> Return(e, 5)
            [] ~ok /\ ~e.restarted -> InitialBasis([e EXCEPT !.restarted = TRUE])
  BY DEF AfterPhaseOne
<1>3. ASSUME ok
      PROVE  T \in Int /\ T >= 0 /\ AllWithin(e) /\ (T > 0 => Refutes(e.lp, Signed(e, Duals(e))))
  <2>1. T = Total(e.x, Basic(e) \cap Artificials(e))  OBVIOUS
  <2> HIDE DEF T
  <2> QED BY <1>3, <2>1, PhaseOneTrusted
<1>4. CASE ok
  <2>1. CASE T > 0
    <3>1. r = Return([e EXCEPT !.farkas_ok = TRUE], 1)  BY <1>1, <1>2, <1>3, <1>4, <2>1
    <3> QED BY <1>3, <1>4, <2>1, <3>1, RefusedKeeps
  <2>2. CASE ~(T > 0)
    <3>1. T = 0  BY <1>3, <1>4, <2>2
    <3>2. r = EnterPhaseTwo(Pinned(e))  BY <1>1, <1>2, <1>4, <3>1
    <3> QED BY <1>3, <1>4, <3>2, PinnedPhaseTwo
  <2> QED BY <2>1, <2>2
<1>5. CASE ~ok /\ e.restarted
  <2>1. r = Return(e, 5)  BY <1>2, <1>5
  <2>2. IsStruct(e) /\ Stands(e)  BY DEF StructInv, RunningInv
  <2> QED BY <2>1, StopsWithoutVerdict
<1>6. CASE ~ok /\ ~e.restarted
  <2>1. r = InitialBasis([e EXCEPT !.restarted = TRUE])  BY <1>2, <1>6
  <2> QED BY <2>1, RestartKeeps
<1> QED BY <1>4, <1>5, <1>6

(* No rebuild is pending.                                                  *)
Settled(e) == e.rebuild_pending = FALSE

(* What follows the last iteration of Phase II.                            *)
LEMMA AfterPhaseTwoKeeps ==
  ASSUME NEW e, StructInv(e), RunningInv(e), Settled(e), e.lane # "phase1",
         NEW code, NEW m, IsStruct(m), Keeps(m, e, {"unb_ray"}),
         \/ code = 0 /\ m = e /\ Entering(e) = {}
         \/ code = 2 /\ m.unb_ray # NoRay /\ Improving(e.lp, Unsplit(e, m.unb_ray)),
         NEW r, r = AfterPhaseTwo(code, m)
  PROVE  Outcome(r) /\ r.lp = e.lp
<1> SUFFICES ASSUME e.rebuild_pending = FALSE PROVE Outcome(r) /\ r.lp = e.lp  BY DEF Settled
<1>1. /\ r = IF ~solver_feasible(m) THEN Return(m, 5)
             ELSE IF code = 2 THEN Return(m, 2) ELSE SolvedCold(m)
  BY DEF AfterPhaseTwo
<1>2. /\ IsStruct(e) /\ Stands(e) /\ ~EmptyBox(e) /\ ~e.farkas_ok /\ ~e.dfarkas_ok /\ e.unb_ray = NoRay
      /\ Harmless(e)
  BY DEF StructInv, RunningInv
<1>3. Keeps(m, e, Aside)  BY DEF Keeps, Aside
<1>4. /\ m.lp = e.lp /\ m.split = e.split /\ m.artSign = e.artSign /\ m.l = e.l /\ m.u = e.u
      /\ m.rebuild_pending = e.rebuild_pending /\ m.c0 = e.c0 /\ m.cobj = e.cobj
      /\ m.basis = e.basis /\ m.inv = e.inv /\ m.status = e.status /\ m.x = e.x
  BY <1>3, AsideFields
<1>5. StructInv(m) /\ Stands(m) /\ ~EmptyBox(m) /\ Harmless(m)
  BY <1>2, <1>4, AsideKeeps
<1>6. m.farkas_ok = e.farkas_ok /\ m.dfarkas_ok = e.dfarkas_ok
  BY DEF Keeps, Fields
<1>7. CASE r \in {Return(m, 5), Return(m, 2)} /\ (r = Return(m, 2) => code = 2 /\ solver_feasible(m))
  <2>1. PICK c \in {5, 2} : r = Return(m, c) /\ (c = 2 => code = 2 /\ solver_feasible(m))
    BY <1>7
  <2>2. /\ IsStruct(r) /\ r.lane = "idle" /\ r.status_out = c
        /\ Keeps(r, m, {"lane", "status_out", "iters", "carried"})
    BY <2>1, ReturnIs
  <2>3. Keeps(r, m, Aside)  BY <2>2 DEF Keeps, Aside
  <2>4. r.farkas_ok = m.farkas_ok /\ r.dfarkas_ok = m.dfarkas_ok /\ r.unb_ray = m.unb_ray
    BY <2>2 DEF Keeps, Fields
  <2>5. \A y : Unsplit(m, y) = Unsplit(e, y)  BY <1>3, SameEvidence
  <2>6. m.unb_ray = NoRay \/ Improving(m.lp, Unsplit(m, m.unb_ray))
    BY <1>2, <1>4, <2>5
  <2>7. CASE c = 5
    <3>1. r.status_out \in {3, 4, 5} /\ r.status_out = 5  BY <2>2, <2>7
    <3>2. ~r.farkas_ok /\ ~r.dfarkas_ok  BY <1>2, <1>6, <2>4
    <3>3. r.unb_ray = NoRay \/ (r.status_out = 5 /\ Improving(m.lp, Unsplit(m, r.unb_ray)))
      BY <2>4, <2>6, <3>1
    <3> QED BY <1>4, <1>5, <2>2, <2>3, <3>1, <3>2, <3>3, GivesUp
  <2>8. CASE c = 2
    <3>1. code = 2 /\ solver_feasible(m)  BY <2>1, <2>8
    <3>2. AllWithin(m)  BY <1>5, <3>1, FeasibleMeans
    <3>3. m.unb_ray # NoRay /\ Improving(m.lp, Unsplit(m, m.unb_ray))  BY <1>4, <2>5, <3>1
    <3>4. ~r.farkas_ok /\ ~r.dfarkas_ok /\ r.unb_ray # NoRay
          /\ Improving(m.lp, Unsplit(m, r.unb_ray))
      BY <1>2, <1>6, <2>4, <3>3
    <3> QED BY <1>4, <1>5, <2>2, <2>3, <2>8, <3>2, <3>4, EndsUnbounded
  <2> QED BY <2>7, <2>8
<1>8. CASE r = SolvedCold(m) /\ solver_feasible(m) /\ code # 2
  <2>1. m = e /\ Entering(e) = {}  BY <1>8
  <2>2. AllWithin(e)  BY <1>2, <1>8, <2>1, FeasibleMeans
  <2> QED BY <1>8, <2>1, <2>2, ReportsOptimum
<1>9. CASE ~solver_feasible(m)
  <2>1. r = Return(m, 5)  BY <1>1, <1>9
  <2>2. Return(m, 2) # Return(m, 5)
    <3>1. Return(m, 2).status_out = 2  BY ReturnIs
    <3>2. Return(m, 5).status_out = 5  BY ReturnIs
    <3> QED BY <3>1, <3>2
  <2> QED BY <1>7, <2>1, <2>2
<1>10. CASE solver_feasible(m) /\ code = 2
  <2>1. r = Return(m, 2)  BY <1>1, <1>10
  <2> QED BY <1>7, <1>10, <2>1
<1>11. CASE solver_feasible(m) /\ code # 2
  <2>1. r = SolvedCold(m)  BY <1>1, <1>11
  <2> QED BY <1>8, <1>11, <2>1
<1> QED BY <1>9, <1>10, <1>11

(* What follows the last iteration of the warm primal.                     *)
LEMMA AfterWarmPrimalKeeps ==
  ASSUME NEW e, StructInv(e), RunningInv(e), Settled(e), e.lane # "phase1",
         NEW code, NEW m, IsStruct(m), Keeps(m, e, {"unb_ray"}),
         code = 2 \/ (m = e /\ Entering(e) = {}),
         NEW r, r = AfterWarmPrimal(code, m)
  PROVE  Outcome(r) /\ r.lp = e.lp
<1> SUFFICES ASSUME e.rebuild_pending = FALSE PROVE Outcome(r) /\ r.lp = e.lp  BY DEF Settled
<1>1. r = IF code = 2 \/ ~solver_feasible(m) THEN solver_refresh(m) ELSE Solved(m)
  BY DEF AfterWarmPrimal
<1>2. m.lp = e.lp  BY DEF Keeps, Fields
<1>3. LinearProgram(m.lp) /\ ~EmptyBox(e)  BY <1>2 DEF StructInv, FormInv, RunningInv
<1>4. CASE code = 2 \/ ~solver_feasible(m)
  <2>1. r = solver_refresh(m)  BY <1>1, <1>4
  <2> QED BY <1>2, <1>3, <2>1, RefreshKeeps
<1>5. CASE ~(code = 2 \/ ~solver_feasible(m))
  <2>1. m = e /\ Entering(e) = {} /\ r = Solved(e) /\ solver_feasible(e)  BY <1>1, <1>5
  <2>2. AllWithin(e)  BY <1>3, <2>1, FeasibleMeans
  <2> QED BY <2>1, <2>2, ReportsOptimum
<1> QED BY <1>4, <1>5

(* What follows the last iteration of the dual.                            *)
LEMMA AfterDualKeeps ==
  ASSUME NEW e, StructInv(e), RunningInv(e), Settled(e), e.lane # "phase1",
         NEW code, NEW m, NEW y,
         \/ code = 0 /\ m = e
         \/ /\ code = 2 /\ m = [e EXCEPT !.dfarkas_ray = y] /\ Refutes(e.lp, Signed(e, y))
            /\ Ints(Signed(e, y), DOMAIN e.lp.rows),
         NEW r, r = AfterDual(code, m)
  PROVE  Outcome(r) /\ r.lp = e.lp
<1> SUFFICES ASSUME e.rebuild_pending = FALSE PROVE Outcome(r) /\ r.lp = e.lp  BY DEF Settled
<1>1. r = CASE code = 2 /\ dual_cert_infeasible(m) -> Return([m EXCEPT !.dfarkas_ok = TRUE], 1)
            [] code = 0 /\ Entering(m) = {} /\ solver_feasible(m) -> Solved(m)
            [] OTHER -> solver_refresh(m)
  BY DEF AfterDual
<1>2. /\ IsStruct(e) /\ Stands(e) /\ ~EmptyBox(e) /\ ~e.farkas_ok /\ e.unb_ray = NoRay
      /\ LinearProgram(e.lp)
  BY DEF StructInv, RunningInv, FormInv
<1>3. m.lp = e.lp /\ IsStruct(m) /\ Keeps(m, e, {"dfarkas_ray"}) /\ (code = 2 => m.dfarkas_ray = y)
  <2>1. CASE code = 0 /\ m = e  BY <1>2, <2>1 DEF Keeps
  <2>2. CASE code = 2 /\ m = [e EXCEPT !.dfarkas_ray = y]
    BY <1>2, <2>2 DEF IsStruct, Fields, Keeps
  <2> QED BY <2>1, <2>2
<1>4. CASE code = 2 /\ dual_cert_infeasible(m)
  <2> DEFINE n == [m EXCEPT !.dfarkas_ok = TRUE]
             g == Signed(e, y)
  <2>1. r = Return(n, 1)  BY <1>1, <1>4
  <2>2. IsStruct(n) /\ Keeps(n, m, {"dfarkas_ok"})  BY <1>3 DEF IsStruct, Fields, Keeps
  <2> HIDE DEF n
  <2>3. /\ IsStruct(r) /\ r.lane = "idle" /\ r.status_out = 1
        /\ Keeps(r, n, {"lane", "status_out", "iters", "carried"})
    BY <2>1, <2>2, ReturnIs
  <2>4. Keeps(n, e, {"dfarkas_ray", "dfarkas_ok"}) /\ n.dfarkas_ray = y
    <3>1. n.dfarkas_ray = m.dfarkas_ray  BY <2>2 DEF Keeps, Fields
    <3> QED BY <1>3, <1>4, <2>2, <3>1 DEF Keeps
  <2>5. Keeps(r, e, Aside)  BY <2>3, <2>4 DEF Keeps, Aside
  <2>6. r.farkas_ok = e.farkas_ok /\ r.unb_ray = e.unb_ray /\ r.dfarkas_ray = y
    <3>1. r.farkas_ok = n.farkas_ok /\ r.unb_ray = n.unb_ray /\ r.dfarkas_ray = n.dfarkas_ray
      BY <2>3 DEF Keeps, Fields
    <3>2. n.farkas_ok = e.farkas_ok /\ n.unb_ray = e.unb_ray
      BY <2>4 DEF Keeps, Fields
    <3> QED BY <2>4, <3>1, <3>2
  <2>7. Ints(g, DOMAIN e.lp.rows) /\ Refutes(e.lp, g) /\ Signed(e, r.dfarkas_ray) = g
    BY <1>4, <2>6
  <2> HIDE DEF g
  <2> QED BY <1>2, <2>3, <2>5, <2>6, <2>7, EndsInfeasible
<1>5. CASE code = 0 /\ Entering(m) = {} /\ solver_feasible(m)
  <2>1. r = Solved(m) /\ m = e  BY <1>1, <1>5
  <2>2. AllWithin(e)  BY <1>2, <1>5, <2>1, FeasibleMeans
  <2> QED BY <1>5, <2>1, <2>2, ReportsOptimum
<1>6. CASE ~(code = 2 /\ dual_cert_infeasible(m)) /\ ~(code = 0 /\ Entering(m) = {} /\ solver_feasible(m))
  <2>1. r = solver_refresh(m)  BY <1>1, <1>6
  <2> QED BY <1>2, <1>3, <2>1, RefreshKeeps
<1> QED BY <1>4, <1>5, <1>6

(* A move, and then the limit and the stop flag.                           *)
LEMMA OnwardKeeps ==
  ASSUME NEW e, StructInv(e), RunningInv(e), e.rebuild_pending = FALSE,
         e.lane \in {"phase1", "phase2", "primal", "dual"}, NEW count, NEW r \in Onward(e, count)
  PROVE  Outcome(r) /\ r.lp = e.lp
<1>1. r = e \/ \E code \in {3, 4, 5} : r = Return(e, code)
  <2>1. r \in {Return(e, 3)} \/ r \in {e, Return(e, 4)}  BY DEF Onward
  <2> QED BY <2>1
<1>2. CASE r = e  BY <1>2 DEF Outcome
<1>3. ASSUME NEW code \in {3, 4, 5}, r = Return(e, code) PROVE Outcome(r) /\ r.lp = e.lp
  BY <1>3, StopsWithoutVerdict
<1> QED BY <1>1, <1>2, <1>3

(* A move of the dual, counted.                                            *)
LEMMA CountedKeeps ==
  ASSUME NEW e, StructInv(e), RunningInv(e), e.rebuild_pending = FALSE,
         NEW r, r = [e EXCEPT !.local = @ + 1]
  PROVE  /\ StructInv(r) /\ RunningInv(r) /\ r.rebuild_pending = FALSE
         /\ r.lane = e.lane /\ r.lp = e.lp
<1>1. IsStruct(e)  BY DEF StructInv
<1>2. IsStruct(r) /\ Keeps(r, e, {"local"})  BY <1>1 DEF IsStruct, Fields, Keeps
<1>3. Keeps(r, e, Aside)  BY <1>2 DEF Keeps, Aside
<1>4. /\ r.lp = e.lp /\ r.split = e.split /\ r.artSign = e.artSign /\ r.l = e.l /\ r.u = e.u
      /\ r.rebuild_pending = e.rebuild_pending /\ r.c0 = e.c0 /\ r.cobj = e.cobj
      /\ r.basis = e.basis /\ r.inv = e.inv /\ r.status = e.status /\ r.x = e.x
  BY <1>3, AsideFields
<1>5. /\ StructInv(r) /\ (Stands(e) => Stands(r)) /\ (EmptyBox(r) <=> EmptyBox(e))
      /\ (Harmless(e) => Harmless(r))
      /\ TrueCost(r) = TrueCost(e) /\ PhaseOneCost(r) = PhaseOneCost(e)
  BY <1>2, <1>4, AsideKeeps
<1>6. /\ r.lane = e.lane /\ r.farkas_ok = e.farkas_ok /\ r.dfarkas_ok = e.dfarkas_ok
      /\ r.unb_ray = e.unb_ray
  BY <1>2 DEF Keeps, Fields
<1>7. RunningInv(r)
  <2>1. CASE e.lane = "phase1"
    BY <1>4, <1>5, <1>6, <2>1 DEF RunningInv
  <2>2. CASE e.lane # "phase1"
    BY <1>4, <1>5, <1>6, <2>2 DEF RunningInv
  <2> QED BY <2>1, <2>2
<1> QED BY <1>4, <1>5, <1>6, <1>7

(* What a move leaves alone.                                               *)
LEMMA MovedStays ==
  ASSUME NEW e, NEW r, Keeps(r, e, Moving)
  PROVE  r.lane = e.lane /\ r.rebuild_pending = e.rebuild_pending /\ r.lp = e.lp
BY DEF Keeps, Moving, Fields

(* Every step of a running solve.                                          *)
Stepped(e, r) ==
  \/ /\ e.lane \in {"phase1", "phase2", "primal"}
     /\ \E o \in iterate(e) : o[1] = 1 /\ r \in Onward(o[2], o[2].iters)
  \/ e.lane = "phase1" /\ \E o \in iterate(e) : o[1] # 1 /\ r = AfterPhaseOne(o[1], o[2])
  \/ e.lane = "phase2" /\ \E o \in iterate(e) : o[1] # 1 /\ r = AfterPhaseTwo(o[1], o[2])
  \/ e.lane = "primal" /\ \E o \in iterate(e) : o[1] # 1 /\ r = AfterWarmPrimal(o[1], o[2])
  \/ /\ e.lane = "dual"
     /\ \E o \in dual_iterate(e) :
          /\ o[1] = 1
          /\ LET c == [o[2] EXCEPT !.local = @ + 1] IN r \in Onward(c, c.local)
  \/ e.lane = "dual" /\ \E o \in dual_iterate(e) : o[1] # 1 /\ r = AfterDual(o[1], o[2])

(* Every step of a lane, counted or not, leaves the struct running or with *)
(* a true verdict.                                                         *)
LEMMA SteppedKeeps ==
  ASSUME NEW e, StructInv(e), RunningInv(e), e.rebuild_pending = FALSE, Described(e.lp),
         NEW r, Stepped(e, r)
  PROVE  Outcome(r) /\ r.lp = e.lp
<1>0. IsStruct(e)  BY DEF StructInv
<1>8. Settled(e)  BY DEF Settled
<1>1. ASSUME e.lane \in {"phase1", "phase2", "primal"}, NEW o \in iterate(e), o[1] = 1,
             r \in Onward(o[2], o[2].iters)
      PROVE  Outcome(r) /\ r.lp = e.lp
  <2> DEFINE m == o[2]
  <2>1. StructInv(m) /\ RunningInv(m) /\ Keeps(m, e, Moving)
    <3>1. <<0, e>>[1] = 0  OBVIOUS
    <3> QED BY <1>1, <3>1, IterateIs
  <2> HIDE DEF m
  <2>2. m.lane = e.lane /\ m.rebuild_pending = e.rebuild_pending /\ m.lp = e.lp
    BY <2>1, MovedStays
  <2>3. r \in Onward(m, m.iters)  BY <1>1 DEF m
  <2>4. m.lane \in {"phase1", "phase2", "primal", "dual"} /\ m.rebuild_pending = FALSE
    BY <1>1, <2>2
  <2>5. Outcome(r) /\ r.lp = m.lp  BY <2>1, <2>3, <2>4, OnwardKeeps
  <2> QED BY <2>2, <2>5
<1>2. ASSUME e.lane = "phase1", NEW o \in iterate(e), o[1] # 1, r = AfterPhaseOne(o[1], o[2])
      PROVE  Outcome(r) /\ r.lp = e.lp
  <2>1. o = <<0, e>> /\ Entering(e) = {}  BY <1>2, IterateIs
  <2>2. r = AfterPhaseOne(0, e)  BY <1>2, <2>1
  <2> QED BY <1>2, <2>1, <2>2, AfterPhaseOneKeeps
<1>3. ASSUME NEW o \in iterate(e), o[1] # 1
      PROVE  /\ IsStruct(o[2]) /\ Keeps(o[2], e, {"unb_ray"})
             /\ \/ o[1] = 0 /\ o[2] = e /\ Entering(e) = {}
                \/ o[1] = 2 /\ o[2].unb_ray # NoRay /\ Improving(e.lp, Unsplit(e, o[2].unb_ray))
  <2>1. CASE o = <<0, e>> /\ Entering(e) = {}
    <3>1. o[1] = 0 /\ o[2] = e  BY <2>1
    <3>2. Keeps(e, e, {"unb_ray"})  BY DEF Keeps
    <3> QED BY <1>0, <2>1, <3>1, <3>2
  <2>2. CASE /\ o[1] = 2 /\ IsStruct(o[2]) /\ Keeps(o[2], e, {"unb_ray"})
             /\ o[2].unb_ray # NoRay /\ Improving(e.lp, Unsplit(e, o[2].unb_ray))
    BY <2>2
  <2> QED BY <1>3, <2>1, <2>2, IterateIs
<1>4. ASSUME e.lane = "phase2", NEW o \in iterate(e), o[1] # 1, r = AfterPhaseTwo(o[1], o[2])
      PROVE  Outcome(r) /\ r.lp = e.lp
  <2>1. e.lane # "phase1"  BY <1>4
  <2> DEFINE m == o[2]
             code == o[1]
  <2>2. /\ IsStruct(m) /\ Keeps(m, e, {"unb_ray"}) /\ r = AfterPhaseTwo(code, m)
        /\ \/ code = 0 /\ m = e /\ Entering(e) = {}
           \/ code = 2 /\ m.unb_ray # NoRay /\ Improving(e.lp, Unsplit(e, m.unb_ray))
    BY <1>3, <1>4
  <2> HIDE DEF m, code
  <2> QED BY <1>8, <2>1, <2>2, AfterPhaseTwoKeeps
<1>5. ASSUME e.lane = "primal", NEW o \in iterate(e), o[1] # 1, r = AfterWarmPrimal(o[1], o[2])
      PROVE  Outcome(r) /\ r.lp = e.lp
  <2>1. e.lane # "phase1"  BY <1>5
  <2> DEFINE m == o[2]
             code == o[1]
  <2>2. /\ IsStruct(m) /\ Keeps(m, e, {"unb_ray"}) /\ r = AfterWarmPrimal(code, m)
        /\ code = 2 \/ (m = e /\ Entering(e) = {})
    BY <1>3, <1>5
  <2> HIDE DEF m, code
  <2> QED BY <1>8, <2>1, <2>2, AfterWarmPrimalKeeps
<1>6. ASSUME e.lane = "dual", NEW o \in dual_iterate(e), o[1] = 1, NEW c,
             c = [o[2] EXCEPT !.local = @ + 1], r \in Onward(c, c.local)
      PROVE  Outcome(r) /\ r.lp = e.lp
  <2> DEFINE m == o[2]
  <2>1. StructInv(m) /\ RunningInv(m) /\ Keeps(m, e, Moving)
    <3>1. <<0, e>>[1] = 0 /\ \A y : <<2, [e EXCEPT !.dfarkas_ray = y]>>[1] = 2  OBVIOUS
    <3> QED BY <1>6, <3>1, DualIterateIs
  <2> HIDE DEF m
  <2>2. m.lane = e.lane /\ m.rebuild_pending = e.rebuild_pending /\ m.lp = e.lp
    BY <2>1, MovedStays
  <2>3. c = [m EXCEPT !.local = @ + 1]  BY <1>6 DEF m
  <2>4. /\ StructInv(c) /\ RunningInv(c) /\ c.rebuild_pending = FALSE
        /\ c.lane = m.lane /\ c.lp = m.lp
    BY <2>1, <2>2, <2>3, CountedKeeps
  <2>5. c.lane \in {"phase1", "phase2", "primal", "dual"}  BY <1>6, <2>2, <2>4
  <2>6. Outcome(r) /\ r.lp = c.lp  BY <1>6, <2>4, <2>5, OnwardKeeps
  <2> QED BY <2>2, <2>4, <2>6
<1>7. ASSUME e.lane = "dual", NEW o \in dual_iterate(e), o[1] # 1, r = AfterDual(o[1], o[2])
      PROVE  Outcome(r) /\ r.lp = e.lp
  <2>1. e.lane # "phase1"  BY <1>7
  <2> DEFINE m == o[2]
             code == o[1]
  <2>2. \E y : \/ code = 0 /\ m = e
               \/ /\ code = 2 /\ m = [e EXCEPT !.dfarkas_ray = y] /\ Refutes(e.lp, Signed(e, y))
                  /\ Ints(Signed(e, y), DOMAIN e.lp.rows)
    <3>1. CASE o = <<0, e>>  BY <3>1
    <3>2. ASSUME NEW y, o = <<2, [e EXCEPT !.dfarkas_ray = y]>>, Refutes(e.lp, Signed(e, y)),
                 Ints(Signed(e, y), DOMAIN e.lp.rows)
          PROVE  \E z : /\ code = 2 /\ m = [e EXCEPT !.dfarkas_ray = z]
                        /\ Refutes(e.lp, Signed(e, z)) /\ Ints(Signed(e, z), DOMAIN e.lp.rows)
      <4>1. code = 2 /\ m = [e EXCEPT !.dfarkas_ray = y]  BY <3>2
      <4> HIDE DEF code, m
      <4> QED BY <3>2, <4>1
    <3> HIDE DEF code, m
    <3> QED BY <1>7, <3>1, <3>2, DualIterateIs
  <2>3. r = AfterDual(code, m)  BY <1>7
  <2> HIDE DEF m, code
  <2> QED BY <1>8, <2>1, <2>2, <2>3, AfterDualKeeps
<1> QED BY <1>1, <1>2, <1>4, <1>5, <1>6, <1>7 DEF Stepped

(* The program after each of the three calls that describe it.             *)
Retold(lp, o) == [lp EXCEPT !.c = o.c, !.maximize = o.maximize]

Reboxed(lp, b) == [lp EXCEPT !.l = b.l, !.u = b.u]

Longer(lp, row) == [lp EXCEPT !.rows = Append(@, row)]

(* The program after a call that changes its objective.                    *)
LEMMA DescribedObjective ==
  ASSUME NEW lp, Described(lp), NEW o \in Objectives, Len(o.c) = Len(lp.c),
         NEW q, q = Retold(lp, o)
  PROVE  /\ Described(q) /\ q.c = o.c /\ q.maximize = o.maximize /\ q.l = lp.l /\ q.u = lp.u
         /\ q.rows = lp.rows /\ q.limit = lp.limit /\ DOMAIN q.c = DOMAIN lp.c
<1>1. LinearProgram(lp)  BY DEF Described
<1>2. /\ lp \in [c : Seq(Int), maximize : BOOLEAN, l : Seq(Int), u : Seq(Int),
                 rows : Seq(LinearRow), limit : Int]
      /\ Len(lp.c) > 0 /\ Box(lp, Len(lp.c))
      /\ \A i \in DOMAIN lp.rows : Constraint(lp.rows[i], Len(lp.c))
  BY <1>1 DEF LinearProgram
<1>3. o.c \in Seq(Int) /\ o.maximize \in BOOLEAN  BY SimplexAssumption DEF Objective
<1>4. /\ q \in [c : Seq(Int), maximize : BOOLEAN, l : Seq(Int), u : Seq(Int),
                rows : Seq(LinearRow), limit : Int]
      /\ q.c = o.c /\ q.maximize = o.maximize /\ q.l = lp.l /\ q.u = lp.u
      /\ q.rows = lp.rows /\ q.limit = lp.limit
  BY <1>2, <1>3 DEF Retold
<1>5. Len(q.c) = Len(lp.c)  BY <1>4
<1>6. Box(q, Len(q.c))  BY <1>2, <1>4, <1>5 DEF Box
<1>7. LinearProgram(q)  BY <1>2, <1>4, <1>5, <1>6 DEF LinearProgram
<1>8. BoxOf(q) = BoxOf(lp)  BY <1>4 DEF BoxOf
<1>9. Described(q)  BY <1>4, <1>5, <1>7, <1>8 DEF Described
<1>10. DOMAIN q.c = DOMAIN lp.c
  <2>1. LinearProgram(q) /\ LinearProgram(lp)  BY <1>1, <1>7
  <2>2. DOMAIN q.c = 1 .. Len(q.c) /\ DOMAIN lp.c = 1 .. Len(lp.c)  BY <2>1, ProgramFacts
  <2> QED BY <1>5, <2>2
<1> QED BY <1>4, <1>9, <1>10

(* The program after a call that changes its box.                          *)
LEMMA DescribedBox ==
  ASSUME NEW lp, Described(lp), NEW b \in Boxes, Len(b.l) = Len(lp.c),
         NEW q, q = Reboxed(lp, b)
  PROVE  /\ Described(q) /\ q.c = lp.c /\ q.maximize = lp.maximize /\ q.l = b.l /\ q.u = b.u
         /\ q.rows = lp.rows /\ q.limit = lp.limit
<1>1. LinearProgram(lp)  BY DEF Described
<1>2. /\ lp \in [c : Seq(Int), maximize : BOOLEAN, l : Seq(Int), u : Seq(Int),
                 rows : Seq(LinearRow), limit : Int]
      /\ Len(lp.c) > 0
      /\ \A i \in DOMAIN lp.rows : Constraint(lp.rows[i], Len(lp.c))
  BY <1>1 DEF LinearProgram
<1>3. b.l \in Seq(Int) /\ b.u \in Seq(Int) /\ Box(b, Len(lp.c))
  BY SimplexAssumption DEF Box
<1>4. /\ q \in [c : Seq(Int), maximize : BOOLEAN, l : Seq(Int), u : Seq(Int),
                rows : Seq(LinearRow), limit : Int]
      /\ q.c = lp.c /\ q.maximize = lp.maximize /\ q.l = b.l /\ q.u = b.u
      /\ q.rows = lp.rows /\ q.limit = lp.limit
  BY <1>2, <1>3 DEF Reboxed
<1>5. Box(q, Len(q.c))  BY <1>3, <1>4 DEF Box
<1>6. LinearProgram(q)  BY <1>2, <1>4, <1>5 DEF LinearProgram
<1>7. BoxOf(q) = BoxOf(b)  BY <1>4 DEF BoxOf
<1>8. Described(q)
  <2>1. PICK p \in Problems : Len(lp.c) = Len(p.c) /\ lp.rows \in RowLists(p)  BY DEF Described
  <2>2. Len(q.c) = Len(p.c) /\ q.rows \in RowLists(p) /\ Len(b.l) = Len(p.c)  BY <1>4, <2>1
  <2> QED BY <1>6, <1>7, <2>2 DEF Described
<1> QED BY <1>4, <1>8

(* One more row.                                                           *)
LEMMA RowListsGrow ==
  ASSUME NEW p, p.rows \in Seq(LinearRow), NEW rows \in RowLists(p), Len(rows) < MaxRows,
         NEW row \in NewRows, Constraint(row, Len(p.c))
  PROVE  Append(rows, row) \in RowLists(p)
<1> DEFINE fitting == {r \in NewRows : Constraint(r, Len(p.c))}
           N == MaxRows - Len(p.rows)
           ext == UNION {[1 .. m -> fitting] : m \in 0 .. N}
<1>1. \A w : w \in RowLists(p) <=> w = p.rows \/ \E q \in ext : w = p.rows \o q
  BY DEF RowLists
<1>2. row \in fitting /\ MaxRows \in Nat /\ Len(p.rows) \in Nat  BY SimplexAssumption
<1>3. CASE rows = p.rows
  <2> DEFINE q == <<row>>
  <2>1. q \in [1 .. 1 -> fitting]  BY <1>2
  <2>2. 1 \in 0 .. N  BY <1>2, <1>3
  <2>3. q \in ext  BY <2>1, <2>2
  <2>4. Append(rows, row) = p.rows \o q
    BY <1>3 DEF Constraint
  <2> HIDE DEF ext, q
  <2> QED BY <1>1, <2>3, <2>4
<1>4. ASSUME NEW q \in ext, rows = p.rows \o q PROVE Append(rows, row) \in RowLists(p)
  <2>1. PICK m \in 0 .. N : q \in [1 .. m -> fitting]  BY <1>4
  <2>2. m \in Nat /\ N \in Int  BY <1>2
  <2>3. \A r \in fitting : r \in LinearRow  BY DEF Constraint
  <2> DEFINE F == fitting
  <2>4. row \in F /\ q \in [1 .. m -> F]  BY <1>2, <2>1
  <2> HIDE DEF F
  <2>5. q \in Seq(F) /\ Len(q) = m  BY <2>2, <2>4
  <2>6. F \subseteq LinearRow  BY <2>3 DEF F
  <2>7. q \in Seq(LinearRow)
    BY <2>2, <2>4, <2>5, <2>6
  <2>8. Len(rows) = Len(p.rows) + m
    BY <1>4, <2>5, <2>7
  <2>9. m + 1 \in 0 .. N  BY <1>2, <2>2, <2>8
  <2> DEFINE z == Append(q, row)
  <2>10. z \in Seq(F) /\ Len(z) = m + 1  BY <2>4, <2>5
  <2>11. z \in [1 .. m + 1 -> F]
    <3> HIDE DEF z
    <3> QED BY <2>10
  <2>12. z \in ext
    <3> HIDE DEF z
    <3>1. z \in [1 .. m + 1 -> fitting]  BY <2>11 DEF F
    <3> QED BY <2>9, <3>1
  <2>13. Append(rows, row) = p.rows \o z
    <3>1. row \in LinearRow  BY <2>4, <2>6
    <3>2. <<row>> \in Seq(LinearRow)  BY <3>1
    <3>3. Append(rows, row) = rows \o <<row>> /\ z = q \o <<row>>
      <4>1. rows \in Seq(LinearRow)  BY <1>4, <2>7
      <4> QED BY <2>7, <3>1, <4>1, AppendIsConcat
    <3> HIDE DEF ext, fitting, z
    <3>4. (p.rows \o q) \o <<row>> = p.rows \o (q \o <<row>>)
      <4> DEFINE u == <<row>>
                 v == p.rows
      <4>1. v \in Seq(LinearRow) /\ u \in Seq(LinearRow)  BY <3>2
      <4> HIDE DEF ext, fitting, z, u, v
      <4>2. (v \o q) \o u = v \o (q \o u)  BY <2>7, <4>1, ConcatAssociative
      <4> QED BY <4>2 DEF u, v
    <3> QED BY <1>4, <3>3, <3>4
  <2> HIDE DEF ext, z
  <2> QED BY <1>1, <2>12, <2>13
<1> HIDE DEF ext
<1> QED BY <1>1, <1>3, <1>4

(* The program after a call that adds a row.                               *)
LEMMA DescribedRow ==
  ASSUME NEW lp, Described(lp), Len(lp.rows) < MaxRows,
         NEW row \in NewRows, Len(row.a) = Len(lp.c),
         NEW q, q = Longer(lp, row)
  PROVE  Described(q)
<1>1. LinearProgram(lp)  BY DEF Described
<1>2. /\ lp \in [c : Seq(Int), maximize : BOOLEAN, l : Seq(Int), u : Seq(Int),
                 rows : Seq(LinearRow), limit : Int]
      /\ Len(lp.c) > 0 /\ Box(lp, Len(lp.c))
      /\ \A i \in DOMAIN lp.rows : Constraint(lp.rows[i], Len(lp.c))
  BY <1>1 DEF LinearProgram
<1>3. Constraint(row, Len(lp.c)) /\ row \in LinearRow  BY SimplexAssumption DEF Constraint
<1> DEFINE more == Append(lp.rows, row)
<1>4. /\ more \in Seq(LinearRow) /\ Len(more) = Len(lp.rows) + 1
      /\ \A i \in 1 .. Len(more) : more[i] = IF i <= Len(lp.rows) THEN lp.rows[i] ELSE row
  <2>1. lp.rows \in Seq(LinearRow)  BY <1>2
  <2> QED BY <1>3, <2>1
<1>5. q = [lp EXCEPT !.rows = more]  BY DEF Longer
<1> HIDE DEF more
<1>6. /\ q \in [c : Seq(Int), maximize : BOOLEAN, l : Seq(Int), u : Seq(Int),
                rows : Seq(LinearRow), limit : Int]
      /\ q.c = lp.c /\ q.maximize = lp.maximize /\ q.l = lp.l /\ q.u = lp.u
      /\ q.rows = more /\ q.limit = lp.limit
  BY <1>2, <1>4, <1>5
<1>7. \A i \in DOMAIN more : Constraint(more[i], Len(lp.c))
  <2>1. DOMAIN more = 1 .. Len(more) /\ DOMAIN lp.rows = 1 .. Len(lp.rows) /\ Len(lp.rows) \in Nat
    BY <1>2, <1>4
  <2> SUFFICES ASSUME NEW i \in DOMAIN more PROVE Constraint(more[i], Len(lp.c))  OBVIOUS
  <2>2. CASE i <= Len(lp.rows)
    <3>1. i \in DOMAIN lp.rows /\ more[i] = lp.rows[i]  BY <1>4, <2>1, <2>2
    <3> QED BY <1>2, <3>1
  <2>3. CASE ~(i <= Len(lp.rows))
    <3>1. more[i] = row  BY <1>4, <2>1, <2>3
    <3> QED BY <1>3, <3>1
  <2> QED BY <2>2, <2>3
<1>8. Box(q, Len(q.c))  BY <1>2, <1>6 DEF Box
<1>9. LinearProgram(q)  BY <1>2, <1>6, <1>7, <1>8 DEF LinearProgram
<1>10. PICK p \in Problems : /\ Len(lp.c) = Len(p.c) /\ lp.rows \in RowLists(p)
                             /\ \E b \in {BoxOf(p)} \cup Boxes : Len(b.l) = Len(p.c) /\ BoxOf(lp) = BoxOf(b)
  BY DEF Described
<1>11. q.rows \in RowLists(p)
  <2>1. LinearProgram(p)  BY SimplexAssumption
  <2>2. p.rows \in Seq(LinearRow)  BY <2>1 DEF LinearProgram
  <2>3. more \in RowLists(p)
    <3>1. Constraint(row, Len(p.c))  BY <1>3, <1>10
    <3> QED BY <1>10, <2>2, <3>1, RowListsGrow DEF more
  <2> QED BY <1>6, <2>3
<1>12. BoxOf(q) = BoxOf(lp)  BY <1>6 DEF BoxOf
<1> QED BY <1>6, <1>9, <1>10, <1>11, <1>12 DEF Described

(* The first program.                                                      *)
LEMMA DescribedProblem ==
  ASSUME NEW lp \in Problems
  PROVE  Described(lp)
<1>1. LinearProgram(lp)  BY SimplexAssumption
<1>2. lp.rows \in RowLists(lp)  BY DEF RowLists
<1>3. Len(BoxOf(lp).l) = Len(lp.c) /\ BoxOf(BoxOf(lp)) = BoxOf(lp)
  BY <1>1 DEF BoxOf, LinearProgram, Box
<1> QED BY <1>1, <1>2, <1>3 DEF Described

(* The prices depend on the objective of the program alone.                *)
LEMMA SameObjective ==
  ASSUME NEW e, NEW f, f.lp.rows = e.lp.rows, f.lp.c = e.lp.c, f.lp.maximize = e.lp.maximize,
         f.split = e.split, f.artSign = e.artSign
  PROVE  TrueCost(f) = TrueCost(e) /\ PhaseOneCost(f) = PhaseOneCost(e)
<1>1. Columns(f) = Columns(e)  BY SameShape
<1>2. TrueCost(f) = TrueCost(e)  BY <1>1 DEF TrueCost
<1>3. PhaseOneCost(f) = PhaseOneCost(e)  BY <1>1 DEF PhaseOneCost
<1> QED BY <1>2, <1>3

(* The struct with another objective.                                      *)
LEMMA RetoldKeeps ==
  ASSUME NEW e, StructInv(e), NEW r, IsStruct(r), Keeps(r, e, {"lp", "c0", "cobj"}),
         LinearProgram(r.lp), r.lp.l = e.lp.l, r.lp.u = e.lp.u, r.lp.rows = e.lp.rows,
         DOMAIN r.lp.c = DOMAIN e.lp.c, r.c0 = TrueCost(r), r.cobj = TrueCost(r)
  PROVE  /\ StructInv(r) /\ (Stands(e) => Stands(r)) /\ (EmptyBox(e) => EmptyBox(r))
         /\ r.lane = e.lane /\ r.rebuild_pending = e.rebuild_pending
<1>1. /\ FormInv(e) /\ BasisInv(e) /\ BoxInv(e) /\ ValuesInv(e)
  BY DEF StructInv
<1>5. /\ r.split = e.split /\ r.artSign = e.artSign /\ r.l = e.l /\ r.u = e.u
      /\ r.rebuild_pending = e.rebuild_pending /\ r.lane = e.lane
      /\ r.basis = e.basis /\ r.inv = e.inv /\ r.status = e.status /\ r.x = e.x
  BY DEF Keeps, Fields
<1>6. /\ Rows(r) = Rows(e) /\ Columns(r) = Columns(e) /\ \A k : Column(r, k) = Column(e, k)
      /\ \A v, i : RowSum(r, v, i) = RowSum(e, v, i)
  BY <1>5, SameShape
<1>8. /\ Basic(r) = Basic(e) /\ BasisMatrix(r) = BasisMatrix(e) /\ Parked(r) = Parked(e)
      /\ \A k : Own(r, k) <=> Own(e, k)
  BY <1>5, <1>6 DEF Basic, BasisMatrix, Parked, Own
<1>9. FormInv(r)  BY <1>1, <1>5, <1>6 DEF FormInv
<1>10. BasisInv(r)  BY <1>1, <1>5, <1>6, <1>8 DEF BasisInv
<1>11. Split(r.lp) = Split(e.lp)  BY DEF Split
<1>12. BoxInv(r)  BY <1>1, <1>5, <1>6, <1>8, <1>11 DEF BoxInv
<1>13. ValuesInv(r)  BY <1>1, <1>5, <1>6, <1>8 DEF ValuesInv
<1>14. CostInv(r)  BY DEF CostInv
<1>15. StructInv(r)  BY <1>9, <1>10, <1>12, <1>13, <1>14 DEF StructInv
<1>16. Present(r) = Present(e)  BY <1>5, <1>6 DEF Present
<1>17. Stands(e) => Stands(r)
  <2>1. AtBounds(e) => AtBounds(r)  BY <1>5, <1>8 DEF AtBounds
  <2>2. RowsHold(e) => RowsHold(r)  BY <1>5, <1>6, <1>16 DEF RowsHold
  <2> QED BY <2>1, <2>2 DEF Stands
<1>18. EmptyBox(e) => EmptyBox(r)  BY <1>5, <1>6 DEF EmptyBox
<1> QED BY <1>5, <1>15, <1>17, <1>18

(* solver_set_objective.                                                   *)
LEMMA WithObjectiveKeeps ==
  ASSUME NEW e, StructInv(e), Described(e.lp), NEW o \in Objectives, Len(o.c) = Len(e.lp.c),
         NEW r, r = WithObjective(e, o)
  PROVE  /\ StructInv(r) /\ (Stands(e) => Stands(r)) /\ (EmptyBox(e) => EmptyBox(r))
         /\ r.lane = e.lane /\ r.rebuild_pending = e.rebuild_pending
         /\ r.lp = Retold(e.lp, o) /\ Described(r.lp)
<1> DEFINE q == Retold(e.lp, o)
           told == [e EXCEPT !.lp = q]
           w == TrueCost(told)
<1>1. IsStruct(e)  BY DEF StructInv
<1>2. r = [told EXCEPT !.c0 = w, !.cobj = w]  BY DEF WithObjective, Retold
<1>3. /\ Described(q) /\ LinearProgram(q) /\ q.l = e.lp.l /\ q.u = e.lp.u
      /\ q.rows = e.lp.rows /\ DOMAIN q.c = DOMAIN e.lp.c
  <2>1. q = Retold(e.lp, o)  OBVIOUS
  <2> HIDE DEF q
  <2> QED BY <2>1, DescribedObjective DEF Described
<1> HIDE DEF q
<1>4. IsStruct(told) /\ Keeps(told, e, {"lp"}) /\ told.lp = q
  BY <1>1 DEF IsStruct, Fields, Keeps
<1> HIDE DEF w, told
<1>5. IsStruct(r) /\ Keeps(r, told, {"c0", "cobj"}) /\ r.c0 = w /\ r.cobj = w
  BY <1>2, <1>4, Zenon DEF IsStruct, Fields, Keeps
<1>6. r.lp = told.lp /\ r.split = told.split /\ r.artSign = told.artSign
  BY <1>5 DEF Keeps, Fields
<1>7. TrueCost(r) = w  BY <1>6, SameProgram DEF w
<1>8. Keeps(r, e, {"lp", "c0", "cobj"})  BY <1>4, <1>5 DEF Keeps
<1>9. /\ StructInv(r) /\ (Stands(e) => Stands(r)) /\ (EmptyBox(e) => EmptyBox(r))
      /\ r.lane = e.lane /\ r.rebuild_pending = e.rebuild_pending
  BY <1>3, <1>4, <1>5, <1>6, <1>7, <1>8, RetoldKeeps
<1> QED BY <1>3, <1>4, <1>6, <1>9 DEF q

(* The struct with another box in its program, and perhaps in its columns. *)
LEMMA ReboxedKeeps ==
  ASSUME NEW e, StructInv(e), NEW r, IsStruct(r), Keeps(r, e, {"lp", "l", "u", "rebuild_pending"}),
         LinearProgram(r.lp), r.lp.c = e.lp.c, r.lp.maximize = e.lp.maximize,
         r.lp.rows = e.lp.rows,
         \/ r.rebuild_pending = TRUE /\ r.l = e.l /\ r.u = e.u
         \/ /\ Split(r.lp) = e.split /\ DOMAIN r.l = Columns(e) /\ DOMAIN r.u = Columns(e)
            /\ r.l = [k \in Columns(e) |-> r.l[k]] /\ r.u = [k \in Columns(e) |-> r.u[k]]
            /\ \A k \in Columns(e) :
                 IF Own(e, k) THEN r.l[k] = r.lp.l[k[2]] /\ r.u[k] = r.lp.u[k[2]]
                              ELSE r.l[k] = e.l[k] /\ r.u[k] = e.u[k]
  PROVE  StructInv(r) /\ r.lane = e.lane
<1>1. /\ FormInv(e) /\ BasisInv(e) /\ BoxInv(e) /\ ValuesInv(e) /\ CostInv(e)
  BY DEF StructInv
<1>2. /\ r.split = e.split /\ r.artSign = e.artSign /\ r.c0 = e.c0 /\ r.cobj = e.cobj
      /\ r.lane = e.lane /\ r.basis = e.basis /\ r.inv = e.inv /\ r.status = e.status /\ r.x = e.x
  BY DEF Keeps, Fields
<1>3. /\ Rows(r) = Rows(e) /\ Columns(r) = Columns(e) /\ \A k : Column(r, k) = Column(e, k)
  BY <1>2, SameShape
<1>4. TrueCost(r) = TrueCost(e) /\ PhaseOneCost(r) = PhaseOneCost(e)
  BY <1>2, SameObjective
<1>5. /\ Basic(r) = Basic(e) /\ BasisMatrix(r) = BasisMatrix(e) /\ Parked(r) = Parked(e)
      /\ \A k : Own(r, k) <=> Own(e, k)
  BY <1>2, <1>3 DEF Basic, BasisMatrix, Parked, Own
<1>6. FormInv(r)  BY <1>1, <1>2, <1>3 DEF FormInv
<1>7. BasisInv(r)  BY <1>1, <1>2, <1>3, <1>5 DEF BasisInv
<1>8. BoxInv(r)
  <2>1. CASE r.rebuild_pending = TRUE /\ r.l = e.l /\ r.u = e.u
    BY <1>1, <1>3, <1>5, <2>1 DEF BoxInv
  <2>2. CASE /\ Split(r.lp) = e.split
             /\ r.l = [k \in Columns(e) |-> r.l[k]] /\ r.u = [k \in Columns(e) |-> r.u[k]]
             /\ \A k \in Columns(e) :
                  IF Own(e, k) THEN r.l[k] = r.lp.l[k[2]] /\ r.u[k] = r.lp.u[k[2]]
                               ELSE r.l[k] = e.l[k] /\ r.u[k] = e.u[k]
    <3>1. ASSUME NEW k \in Columns(e), Own(e, k)
          PROVE  /\ r.l[k] = r.lp.l[k[2]] /\ r.u[k] = r.lp.u[k[2]]
                 /\ r.l[k] \in Int /\ r.u[k] \in Int
                 /\ r.l[k] <= -LP_INF \/ Small(r.l[k])
                 /\ r.u[k] >= LP_INF \/ Small(r.u[k])
      <4>1. r.l[k] = r.lp.l[k[2]] /\ r.u[k] = r.lp.u[k[2]]  BY <2>2, <3>1
      <4>2. k[2] \in DOMAIN r.lp.c
        <5>1. k[1] = "x"  BY <3>1 DEF Own
        <5>2. k[2] \in DOMAIN e.lp.c  BY <1>1, <3>1, <5>1, ColumnKinds
        <5> QED BY <5>2
      <4>3. /\ r.lp.l[k[2]] \in Int /\ r.lp.u[k[2]] \in Int  BY <4>2, ProgramFacts
      <4>4. /\ r.lp.l[k[2]] <= -LP_INF \/ Small(r.lp.l[k[2]])
            /\ r.lp.u[k[2]] >= LP_INF \/ Small(r.lp.u[k[2]])
        <5>1. k[2] \in 1 .. Len(r.lp.c)  BY <4>2, ProgramFacts
        <5>2. Box(r.lp, Len(r.lp.c))  BY DEF LinearProgram
        <5> QED BY <5>1, <5>2 DEF Box
      <4> QED BY <4>1, <4>3, <4>4
    <3>2. ASSUME NEW k \in Columns(e), ~Own(e, k)
          PROVE  /\ r.l[k] \in Int /\ r.u[k] \in Int
                 /\ r.l[k] = 0 /\ (r.u[k] = LP_INF \/ (k[1] = "a" /\ r.u[k] = 0))
      <4>1. r.l[k] = e.l[k] /\ r.u[k] = e.u[k]  BY <2>2, <3>2
      <4> QED BY <1>1, <3>2, <4>1 DEF BoxInv
    <3>3. r.l \in [Columns(e) -> Int] /\ r.u \in [Columns(e) -> Int]
      <4>1. \A k \in Columns(e) : r.l[k] \in Int /\ r.u[k] \in Int  BY <3>1, <3>2
      <4> QED BY <2>2, <4>1
    <3>4. \A k \in Columns(e) :
            IF Own(e, k)
            THEN /\ r.l[k] <= -LP_INF \/ Small(r.l[k])
                 /\ r.u[k] >= LP_INF \/ Small(r.u[k])
            ELSE r.l[k] = 0 /\ (r.u[k] = LP_INF \/ (k[1] = "a" /\ r.u[k] = 0))
      BY <3>1, <3>2
    <3>5. \A k \in Columns(e) : Own(e, k) => r.l[k] = r.lp.l[k[2]] /\ r.u[k] = r.lp.u[k[2]]
      BY <3>1
    <3> QED BY <1>2, <1>3, <1>5, <2>2, <3>3, <3>4, <3>5 DEF BoxInv
  <2> QED BY <2>1, <2>2
<1>9. ValuesInv(r)  BY <1>1, <1>2, <1>3, <1>5 DEF ValuesInv
<1>10. CostInv(r)  BY <1>1, <1>2, <1>4 DEF CostInv
<1> QED BY <1>2, <1>6, <1>7, <1>8, <1>9, <1>10 DEF StructInv

(* solver_set_bounds.                                                      *)
LEMMA WithBoundsKeeps ==
  ASSUME NEW e, StructInv(e), e.rebuild_pending \in BOOLEAN, Described(e.lp),
         NEW b \in Boxes, Len(b.l) = Len(e.lp.c), NEW r, r = WithBounds(e, b)
  PROVE  /\ StructInv(r) /\ r.lane = e.lane /\ r.rebuild_pending \in BOOLEAN
         /\ r.lp = Reboxed(e.lp, b) /\ Described(r.lp)
<1> DEFINE q == Reboxed(e.lp, b)
           told == [e EXCEPT !.lp = q]
           own(k) == k[1] = "x" /\ k[2] \notin e.split
           L == [k \in Columns(e) |-> IF own(k) THEN b.l[k[2]] ELSE told.l[k]]
           U == [k \in Columns(e) |-> IF own(k) THEN b.u[k[2]] ELSE told.u[k]]
<1>1. IsStruct(e)  BY DEF StructInv
<1>2. /\ r = IF e.rebuild_pending \/ Split(told.lp) # e.split
             THEN [told EXCEPT !.rebuild_pending = TRUE]
             ELSE [told EXCEPT !.l = L, !.u = U]
  BY DEF WithBounds, Reboxed
<1>3. /\ Described(q) /\ LinearProgram(q) /\ q.l = b.l /\ q.u = b.u
      /\ q.rows = e.lp.rows /\ q.c = e.lp.c /\ q.maximize = e.lp.maximize
  <2>1. q = Reboxed(e.lp, b)  OBVIOUS
  <2> HIDE DEF q
  <2> QED BY <2>1, DescribedBox DEF Described
<1> HIDE DEF q
<1>4. IsStruct(told) /\ Keeps(told, e, {"lp"}) /\ told.lp = q
  BY <1>1 DEF IsStruct, Fields, Keeps
<1>5. told.l = e.l /\ told.u = e.u /\ told.rebuild_pending = e.rebuild_pending
  BY <1>4 DEF Keeps, Fields
<1> HIDE DEF told
<1>6. CASE e.rebuild_pending \/ Split(q) # e.split
  <2>1. r = [told EXCEPT !.rebuild_pending = TRUE]  BY <1>2, <1>4, <1>6
  <2>2. IsStruct(r) /\ Keeps(r, told, {"rebuild_pending"}) /\ r.rebuild_pending = TRUE
    BY <1>4, <2>1 DEF IsStruct, Fields, Keeps
  <2>3. r.lp = told.lp /\ r.l = told.l /\ r.u = told.u  BY <2>2 DEF Keeps, Fields
  <2>4. Keeps(r, e, {"lp", "l", "u", "rebuild_pending"})  BY <1>4, <2>2 DEF Keeps
  <2>5. r.lp = q /\ r.l = e.l /\ r.u = e.u  BY <1>4, <1>5, <2>3
  <2>6. StructInv(r) /\ r.lane = e.lane  BY <1>3, <2>2, <2>4, <2>5, ReboxedKeeps
  <2> QED BY <1>3, <2>2, <2>5, <2>6 DEF q
<1>7. CASE ~e.rebuild_pending /\ Split(q) = e.split
  <2>1. r = [told EXCEPT !.l = L, !.u = U]  BY <1>2, <1>4, <1>7
  <2>2. /\ L = [k \in Columns(e) |-> L[k]] /\ U = [k \in Columns(e) |-> U[k]]
        /\ DOMAIN L = Columns(e) /\ DOMAIN U = Columns(e)
        /\ \A k \in Columns(e) : IF Own(e, k) THEN L[k] = b.l[k[2]] /\ U[k] = b.u[k[2]]
                                              ELSE L[k] = e.l[k] /\ U[k] = e.u[k]
    BY <1>5 DEF Own
  <2> HIDE DEF L, U
  <2>3. IsStruct(r) /\ Keeps(r, told, {"l", "u"}) /\ r.l = L /\ r.u = U
    BY <1>4, <2>1, Zenon DEF IsStruct, Fields, Keeps
  <2>4. r.lp = told.lp /\ r.rebuild_pending = told.rebuild_pending  BY <2>3 DEF Keeps, Fields
  <2>5. Keeps(r, e, {"lp", "l", "u", "rebuild_pending"})  BY <1>4, <2>3 DEF Keeps
  <2>6. r.lp = q  BY <1>4, <2>4
  <2>7. /\ Split(r.lp) = e.split /\ DOMAIN r.l = Columns(e) /\ DOMAIN r.u = Columns(e)
        /\ r.l = [k \in Columns(e) |-> r.l[k]] /\ r.u = [k \in Columns(e) |-> r.u[k]]
        /\ \A k \in Columns(e) :
             IF Own(e, k) THEN r.l[k] = r.lp.l[k[2]] /\ r.u[k] = r.lp.u[k[2]]
                          ELSE r.l[k] = e.l[k] /\ r.u[k] = e.u[k]
    BY <1>3, <1>7, <2>2, <2>3, <2>6
  <2>8. StructInv(r) /\ r.lane = e.lane  BY <1>3, <2>3, <2>5, <2>6, <2>7, ReboxedKeeps
  <2>9. r.rebuild_pending \in BOOLEAN  BY <1>5, <2>4
  <2> QED BY <1>3, <2>6, <2>8, <2>9 DEF q
<1> QED BY <1>6, <1>7

(* What is true between any two steps, as long as the caller does not      *)
(* solver_solve a struct whose bounds it changed.                          *)
SolverInv ==
  /\ s.lp = asked /\ Described(asked)
  /\ StructInv(s) /\ s.rebuild_pending \in BOOLEAN
  /\ s.rebuild_pending => "bounds" \in changed
  /\ \/ /\ s.lane \in {"phase1", "phase2", "primal", "dual"}
        /\ changed = {} /\ RunningInv(s)
     \/ /\ s.lane = "idle"
        /\ "bounds" \notin changed => Stands(s) \/ EmptyBox(s)
        /\ changed = {} => Judged(s)

(* The struct starts in the invariant.                                     *)
LEMMA SolverInit == Init => SolverInv
<1> SUFFICES ASSUME Init PROVE SolverInv  OBVIOUS
<1>1. PICK lp \in Problems : asked = lp /\ s = solver_create(lp) /\ changed = {"created"}
  BY DEF Init
<1>2. Described(asked) /\ LinearProgram(asked)  BY <1>1, DescribedProblem DEF Described
<1>3. s = solver_create(asked)  BY <1>1
<1>4. /\ StructInv(s) /\ Stands(s) /\ s.lp = asked /\ s.rebuild_pending = FALSE /\ s.lane = "idle"
  BY <1>2, <1>3, CreateKeeps
<1>5. changed # {}  BY <1>1
<1> QED BY <1>2, <1>4, <1>5 DEF SolverInv

(* A solve, or a step of one, ends in the invariant.                       *)
LEMMA OutcomeFits ==
  ASSUME Outcome(s'), s'.lp = asked', Described(asked'), changed' = {}
  PROVE  SolverInv'
<1>1. StructInv(s') /\ s'.rebuild_pending = FALSE  BY DEF Outcome
<1>2. \/ s'.lane \in {"phase1", "phase2", "primal", "dual"} /\ RunningInv(s')
      \/ s'.lane = "idle" /\ (Stands(s') \/ EmptyBox(s')) /\ Judged(s')
  BY DEF Outcome
<1> QED BY <1>1, <1>2 DEF SolverInv

(* A running solve steps.                                                  *)
LEMMA RunningSteps ==
  ASSUME SolverInv, s.lane # "idle", Stepped(s, s'), UNCHANGED <<asked, calls, changed>>
  PROVE  SolverInv'
<1>1. /\ StructInv(s) /\ RunningInv(s) /\ changed = {} /\ s.lp = asked /\ Described(asked)
      /\ s.rebuild_pending = FALSE
  BY DEF SolverInv
<1>2. Outcome(s') /\ s'.lp = s.lp
  <2> DEFINE e == s
             r == s'
  <2>1. StructInv(e) /\ RunningInv(e) /\ e.rebuild_pending = FALSE /\ Described(e.lp) /\ Stepped(e, r)
    BY <1>1
  <2> HIDE DEF e, r
  <2>2. Outcome(r) /\ r.lp = e.lp  BY <2>1, SteppedKeeps
  <2> QED BY <2>2 DEF e, r
<1>3. asked' = asked /\ changed' = {}  BY <1>1
<1>4. s'.lp = asked' /\ Described(asked')  BY <1>1, <1>2, <1>3
<1> QED BY <1>2, <1>3, <1>4, OutcomeFits

(* Every step keeps it: every call that describes the program, every start *)
(* of a solve and every step of a lane.                                    *)
LEMMA SolverNext ==
  ASSUME ~ColdAfterBounds, SolverInv, Next
  PROVE  SolverInv'
<1>1. /\ s.lp = asked /\ Described(asked) /\ StructInv(s) /\ s.rebuild_pending \in BOOLEAN
      /\ s.rebuild_pending => "bounds" \in changed
  BY DEF SolverInv
<1>2. ASSUME s.lane = "idle"
      PROVE  "bounds" \notin changed => Stands(s) \/ EmptyBox(s)
  BY <1>2 DEF SolverInv
<1>3. CASE solver_solve
  <2>1. /\ s.lane = "idle" /\ "bounds" \notin changed /\ s' = SolveFrom(s) /\ changed' = {}
        /\ asked' = asked
    BY <1>3 DEF solver_solve, Call
  <2>2. s.rebuild_pending = FALSE /\ (Stands(s) \/ EmptyBox(s))  BY <1>1, <1>2, <2>1
  <2>3. Outcome(s') /\ s'.lp = s.lp
    <3> DEFINE e == s
               r == s'
    <3>1. StructInv(e) /\ e.rebuild_pending = FALSE /\ (Stands(e) \/ EmptyBox(e)) /\ r = SolveFrom(e)
      BY <1>1, <2>1, <2>2
    <3> HIDE DEF e, r
    <3>2. Outcome(r) /\ r.lp = e.lp  BY <3>1, SolveFromKeeps
    <3> QED BY <3>2 DEF e, r
  <2>4. s'.lp = asked' /\ Described(asked')  BY <1>1, <2>1, <2>3
  <2> QED BY <2>1, <2>3, <2>4, OutcomeFits
<1>4. CASE solver_warm_solve
  <2>1. s' = WarmFrom(s) /\ changed' = {} /\ asked' = asked
    BY <1>4 DEF solver_warm_solve
  <2>2. Outcome(s') /\ s'.lp = s.lp
    <3> DEFINE e == s
               r == s'
    <3>1. StructInv(e) /\ e.rebuild_pending \in BOOLEAN /\ r = WarmFrom(e)  BY <1>1, <2>1
    <3> HIDE DEF e, r
    <3>2. Outcome(r) /\ r.lp = e.lp  BY <3>1, WarmFromKeeps
    <3> QED BY <3>2 DEF e, r
  <2>3. s'.lp = asked' /\ Described(asked')  BY <1>1, <2>1, <2>2
  <2> QED BY <2>1, <2>2, <2>3, OutcomeFits
<1>5. ASSUME NEW o \in Objectives, solver_set_objective(o) PROVE SolverInv'
  <2>1. /\ s.lane = "idle" /\ Len(o.c) = Len(asked.c) /\ asked' = Retold(asked, o)
        /\ s' = WithObjective(s, o) /\ changed' = changed \cup {"objective"}
    BY <1>5 DEF solver_set_objective, Call, Retold
  <2>2. /\ StructInv(s') /\ (Stands(s) => Stands(s')) /\ (EmptyBox(s) => EmptyBox(s'))
        /\ s'.lane = s.lane /\ s'.rebuild_pending = s.rebuild_pending
        /\ s'.lp = Retold(s.lp, o) /\ Described(s'.lp)
    <3> DEFINE e == s
               r == s'
    <3>1. StructInv(e) /\ Described(e.lp) /\ Len(o.c) = Len(e.lp.c) /\ r = WithObjective(e, o)
      BY <1>1, <2>1
    <3> HIDE DEF e, r
    <3>2. /\ StructInv(r) /\ (Stands(e) => Stands(r)) /\ (EmptyBox(e) => EmptyBox(r))
          /\ r.lane = e.lane /\ r.rebuild_pending = e.rebuild_pending
          /\ r.lp = Retold(e.lp, o) /\ Described(r.lp)
      BY <3>1, WithObjectiveKeeps
    <3> QED BY <3>2 DEF e, r
  <2>3. s'.lp = asked' /\ Described(asked')  BY <1>1, <2>1, <2>2
  <2>4. changed' # {} /\ ("bounds" \in changed' <=> "bounds" \in changed)  BY <2>1
  <2> QED BY <1>1, <1>2, <2>1, <2>2, <2>3, <2>4 DEF SolverInv
<1>6. ASSUME NEW b \in Boxes, solver_set_bounds(b) PROVE SolverInv'
  <2>1. /\ s.lane = "idle" /\ Len(b.l) = Len(asked.c) /\ asked' = Reboxed(asked, b)
        /\ s' = WithBounds(s, b) /\ changed' = changed \cup {"bounds"}
    BY <1>6 DEF solver_set_bounds, Call, Reboxed
  <2>2. /\ StructInv(s') /\ s'.lane = s.lane /\ s'.rebuild_pending \in BOOLEAN
        /\ s'.lp = Reboxed(s.lp, b) /\ Described(s'.lp)
    <3> DEFINE e == s
               r == s'
    <3>1. /\ StructInv(e) /\ e.rebuild_pending \in BOOLEAN /\ Described(e.lp)
          /\ Len(b.l) = Len(e.lp.c) /\ r = WithBounds(e, b)
      BY <1>1, <2>1
    <3> HIDE DEF e, r
    <3>2. /\ StructInv(r) /\ r.lane = e.lane /\ r.rebuild_pending \in BOOLEAN
          /\ r.lp = Reboxed(e.lp, b) /\ Described(r.lp)
      BY <3>1, WithBoundsKeeps
    <3> QED BY <3>2 DEF e, r
  <2>3. s'.lp = asked' /\ Described(asked')  BY <1>1, <2>1, <2>2
  <2>4. "bounds" \in changed'  BY <2>1
  <2> QED BY <2>1, <2>2, <2>3, <2>4 DEF SolverInv
<1>7. ASSUME NEW row \in NewRows, solver_add_row(row) PROVE SolverInv'
  <2>1. /\ Len(row.a) = Len(asked.c) /\ Len(asked.rows) < MaxRows /\ asked' = Longer(asked, row)
        /\ s' = SolveFrom(solver_create(Longer(s.lp, row))) /\ changed' = {}
    BY <1>7 DEF solver_add_row, Longer
  <2>2. Described(asked') /\ LinearProgram(asked')
    <3> DEFINE lp == asked
               q == asked'
    <3>1. Described(lp) /\ Len(lp.rows) < MaxRows /\ Len(row.a) = Len(lp.c) /\ q = Longer(lp, row)
      BY <1>1, <2>1
    <3> HIDE DEF lp, q
    <3>2. Described(q)  BY <3>1, DescribedRow
    <3> QED BY <3>2 DEF q, Described
  <2>3. s' = SolveFrom(solver_create(asked'))  BY <1>1, <2>1
  <2>4. Outcome(s') /\ s'.lp = asked'
    <3> DEFINE q == asked'
               e == solver_create(q)
               r == s'
    <3>1. LinearProgram(q) /\ r = SolveFrom(e) /\ e = solver_create(q)  BY <2>2, <2>3
    <3> HIDE DEF q, e, r
    <3>2. StructInv(e) /\ Stands(e) /\ e.lp = q /\ e.rebuild_pending = FALSE  BY <3>1, CreateKeeps
    <3>3. Outcome(r) /\ r.lp = e.lp  BY <3>1, <3>2, SolveFromKeeps
    <3> QED BY <3>2, <3>3 DEF q, r
  <2> QED BY <2>1, <2>2, <2>4, OutcomeFits
<1>8. CASE Pivot \/ PhaseOneEnds \/ PhaseTwoEnds \/ WarmPrimalEnds \/ DualPivot \/ DualEnds
  <2>1. UNCHANGED <<asked, calls, changed>> /\ s.lane # "idle"
    BY <1>8 DEF Pivot, PhaseOneEnds, PhaseTwoEnds, WarmPrimalEnds, DualPivot, DualEnds
  <2>2. Stepped(s, s')
    BY <1>8 DEF Pivot, PhaseOneEnds, PhaseTwoEnds, WarmPrimalEnds, DualPivot, DualEnds, Stepped
  <2> QED BY <2>1, <2>2, RunningSteps
<1> QED BY <1>3, <1>4, <1>5, <1>6, <1>7, <1>8 DEF Next

(* Every reachable state satisfies the invariant.                          *)
LEMMA Solves ==
  ASSUME ~ColdAfterBounds
  PROVE  Spec => []SolverInv
<1>1. SolverInv /\ [Next]_vars => SolverInv'
  <2> SUFFICES ASSUME SolverInv, [Next]_vars PROVE SolverInv'  OBVIOUS
  <2>1. CASE Next  BY <2>1, SolverNext
  <2>2. CASE UNCHANGED vars  BY <2>2 DEF vars, SolverInv
  <2> QED BY <2>1, <2>2
<1> QED BY <1>1, SolverInit, PTL DEF Spec

(* A row of the equality form, as a sum of a function.                     *)
LEMMA PresentSum ==
  ASSUME NEW e, NEW i, NEW P
  PROVE  MapThenSumSet(LAMBDA k : A(e, k, i) * e.x[k], P)
           = Total([k \in P |-> A(e, k, i) * e.x[k]], P)
BY DEF Total, MapThenSumSet, MapThenFoldSet

(* The sum of row i over the columns that are present.                     *)
LEMMA PresentRow ==
  ASSUME NEW e, StructInv(e), RowsHold(e), NEW i \in Rows(e),
         NEW P, P = {k \in Columns(e) : e.status[k] # "REMOVED"}
  PROVE  MapThenSumSet(LAMBDA k : A(e, k, i) * e.x[k], P) = Abs(e.lp.rows[i].b)
<1> DEFINE f == [k \in Columns(e) |-> A(e, k, i) * Present(e)[k]]
           g == [k \in P |-> A(e, k, i) * e.x[k]]
<1>1. FormInv(e) /\ ValuesInv(e)  BY DEF StructInv
<1>2. IsFiniteSet(Columns(e)) /\ P \in SUBSET Columns(e)  BY <1>1, ColumnsFinite
<1>3. \A k \in Columns(e) : f[k] \in Int
  <2> SUFFICES ASSUME NEW k \in Columns(e) PROVE f[k] \in Int  OBVIOUS
  <2>1. A(e, k, i) \in Int  BY <1>1, CoefficientInt
  <2>2. Present(e)[k] \in Int  BY <1>1 DEF Present, ValuesInv
  <2>3. f[k] = A(e, k, i) * Present(e)[k]  OBVIOUS
  <2> HIDE DEF f
  <2> QED BY <2>1, <2>2, <2>3
<1>4. \A k \in Columns(e) \ P : f[k] = 0
  <2> SUFFICES ASSUME NEW k \in Columns(e) \ P PROVE f[k] = 0  OBVIOUS
  <2>1. A(e, k, i) \in Int  BY <1>1, CoefficientInt
  <2>2. Present(e)[k] = 0  BY DEF Present
  <2>3. f[k] = A(e, k, i) * Present(e)[k]  OBVIOUS
  <2> HIDE DEF f
  <2> QED BY <2>1, <2>2, <2>3
<1>5. \A k \in P : f[k] = g[k]  BY <1>2 DEF Present
<1>6. RowSum(e, Present(e), i) = Total(f, Columns(e))  BY DEF RowSum
<1>7. MapThenSumSet(LAMBDA k : A(e, k, i) * e.x[k], P) = Total(g, P)  BY PresentSum, Zenon
<1>8. RowSum(e, Present(e), i) = Abs(e.lp.rows[i].b)  BY DEF RowsHold
<1> HIDE DEF f, g
<1>9. Total(f, Columns(e)) = Total(f, P)  BY <1>2, <1>3, <1>4, TotalSkipsZeros
<1>10. Total(f, P) = Total(g, P)
  <2>1. IsFiniteSet(P)  BY <1>2, FS_Subset
  <2>2. \A k \in P : f[k] \in Int  BY <1>2, <1>3
  <2> QED BY <1>5, <2>1, <2>2, TotalAgrees
<1> QED BY <1>6, <1>7, <1>8, <1>9, <1>10, Zenon

(* The factors applied to a column of the basis.                           *)
LEMMA BasisColumn ==
  ASSUME NEW e, BasisInv(e), NEW i \in Rows(e), NEW r \in Rows(e)
  PROVE  Ftran(e, Column(e, e.basis[r]))[i] = (IF i = r THEN 1 ELSE 0)
<1> DEFINE v == Column(e, e.basis[r])
<1>1. Ftran(e, v)[i] = Prod(e.inv[i], v, Rows(e))
  <2> HIDE DEF v
  <2>1. Ftran(e, v) = [h \in Rows(e) |-> Prod(e.inv[h], v, Rows(e))]  BY ModelProducts
  <2> QED BY <2>1
<1>2. v = BasisMatrix(e)[r]  BY DEF BasisMatrix
<1>3. Prod(e.inv[i], BasisMatrix(e)[r], Rows(e)) = Delta(i, r)  BY DEF BasisInv, IsLeftInverse
<1> QED BY <1>1, <1>2, <1>3 DEF Delta

(* StandsOnBounds holds of every struct of a running solve.                *)
LEMMA RunningStands ==
  ASSUME SolverInv
  PROVE  StandsOnBounds
<1> SUFFICES ASSUME s.lane # "idle" PROVE StandsOnBounds  BY Zenon DEF StandsOnBounds
<1>1. StructInv(s) /\ RunningInv(s)  BY DEF SolverInv
<1>2. BasisInv(s) /\ AtBounds(s) /\ RowsHold(s)  BY <1>1 DEF StructInv, RunningInv, Stands
<1> DEFINE P == {k \in Columns(s) : s.status[k] # "REMOVED"}
<1>3. \A k \in Parked(s) : s.x[k] = (IF s.status[k] = "NBL" THEN s.l[k] ELSE s.u[k])
  BY <1>2 DEF AtBounds
<1>4. ASSUME NEW i \in Rows(s)
      PROVE  MapThenSumSet(LAMBDA k : A(s, k, i) * s.x[k], P) = Abs(s.lp.rows[i].b)
  BY <1>1, <1>2, PresentRow, Zenon
<1>5. \A i, r \in Rows(s) : Ftran(s, Column(s, s.basis[r]))[i] = (IF i = r THEN 1 ELSE 0)
  BY <1>2, BasisColumn
<1>6. s.lane # "phase1" =>
        \A k \in Artificials(s) : s.status[k] = "REMOVED" \/ (s.l[k] = 0 /\ s.u[k] = 0)
  BY <1>1 DEF RunningInv, Harmless
<1> QED BY <1>3, <1>4, <1>5, <1>6, Zenon DEF StandsOnBounds

(* Between two pivots of any solve the struct stands on its bounds.        *)
THEOREM SolveStandsOnBounds ==
  ASSUME ~ColdAfterBounds
  PROVE  Spec => []StandsOnBounds
<1>1. SolverInv => StandsOnBounds  BY RunningStands
<1> QED BY <1>1, Solves, PTL

(* The evidence of a verdict proves it of the caller's program.            *)
THEOREM EvidenceOfSolves ==
  ASSUME ~ColdAfterBounds
  PROVE  Spec => []EvidenceRefutes
<1>1. SolverInv => EvidenceRefutes
  <2> SUFFICES ASSUME SolverInv, Current PROVE EvidenceRefutes  BY DEF EvidenceRefutes
  <2>1. Judged(s) /\ s.lp = asked  BY DEF SolverInv, Current
  <2> QED BY <2>1 DEF Judged, EvidenceRefutes
<1> QED BY <1>1, Solves, PTL

(* The status of a solve is the truth about the caller's program.          *)
THEOREM SolvesAreExact ==
  ASSUME ~ColdAfterBounds
  PROVE  Spec => []WarmIsExact
<1>1. SolverInv => WarmIsExact
  <2> SUFFICES ASSUME SolverInv, Current PROVE WarmIsExact  BY DEF WarmIsExact
  <2>1. Judged(s) /\ s.lp = asked  BY DEF SolverInv, Current
  <2> DEFINE x == Unsplit(s, s.x)
             best == Gain(asked, Value(asked, x))
  <2>2. \A p \in Points(asked) : p \in [DOMAIN asked.c -> Int] /\ Feasible(asked, p)
    BY SimplexAssumption DEF Points
  <2>3. [DOMAIN asked.c -> {-1, 0, 1}] \subseteq [DOMAIN asked.c -> Int]  OBVIOUS
  <2>4. s.status_out = 0 =>
          /\ Feasible(asked, x)
          /\ \A p \in Points(asked) : Gain(asked, Value(asked, p)) <= best
          /\ ~\E d \in [DOMAIN asked.c -> {-1, 0, 1}] : Improving(asked, d)
          /\ best = s.objval
    BY <2>1, <2>2, <2>3 DEF Judged
  <2>5. s.status_out = 1 => Points(asked) = {}  BY <2>1, <2>2 DEF Judged
  <2>6. s.status_out = 2 => Feasible(asked, x) /\ Improving(asked, Unsplit(s, s.unb_ray))
    BY <2>1 DEF Judged
  <2> QED BY <2>4, <2>5, <2>6 DEF WarmIsExact
<1> QED BY <1>1, Solves, PTL
=============================================================================
