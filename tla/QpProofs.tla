------------------------------ MODULE QpProofs ------------------------------
(***************************************************************************)
(* Proofs about QpSolve: what the convexity gate decides, and that every   *)
(* line the command prints is real, for every program and over all         *)
(* integer directions and rational points.  The gate's argument is that    *)
(* an elimination step keeps the question whether the form is negative on  *)
(* a direction of the indices left (PivotDecides); the printed lines rest  *)
(* on multipliers meeting directions by rows as by columns                 *)
(* (ColumnsMeetRows).  Sums are reasoned about through SumFacts, the       *)
(* determinant through the equation of its minors.                         *)
(***************************************************************************)
EXTENDS QpSolve, SumFacts, SequenceTheorems

----------------------------------------------------------------------------
(* Vectors and quadratic forms over a finite set of coordinates.           *)

Inner(u, v, C) == Total([j \in C |-> u[j] * v[j]], C)
Form(M, v, C) == Total([i \in C |-> v[i] * Inner(M[i], v, C)], C)
Symmetric(M, C) == \A i, j \in C : M[i][j] = M[j][i]
Square(M, C) == \A i, j \in C : M[i][j] \in Int
Vector(v, C) == \A j \in C : v[j] \in Int
Scales(v, z, a, C) == \A j \in C : z[j] = a * v[j]
Moves(v, z, p, a, C) == z[p] = v[p] + a /\ \A j \in C : j # p => z[j] = v[j]

(* An inner product of integer vectors is an integer.                      *)
LEMMA InnerInt ==
  ASSUME NEW C, IsFiniteSet(C), NEW u, NEW v,
         \A j \in C : u[j] \in Int, \A j \in C : v[j] \in Int
  PROVE  Inner(u, v, C) \in Int
<1> DEFINE f == [j \in C |-> u[j] * v[j]]
<1>1. \A j \in C : f[j] \in Int
  OBVIOUS
<1> HIDE DEF f
<1>2. Total(f, C) \in Int
  BY <1>1, TotalInt
<1> QED BY <1>2 DEF Inner, f

(* It does not tell apart what agrees on the coordinates, on either side.  *)
LEMMA InnerAgrees ==
  ASSUME NEW C, IsFiniteSet(C), NEW u, NEW v, NEW w, NEW z,
         \A j \in C : u[j] * v[j] = w[j] * z[j]
  PROVE  Inner(u, v, C) = Inner(w, z, C)
<1> DEFINE f == [j \in C |-> u[j] * v[j]]
           g == [j \in C |-> w[j] * z[j]]
<1>1. \A j \in C : f[j] = g[j]
  OBVIOUS
<1> HIDE DEF f, g
<1>2. Total(f, C) = Total(g, C)
  BY <1>1, TotalAgrees
<1> QED BY <1>2 DEF Inner, f, g

(* Linear in its second vector.                                            *)
LEMMA InnerLinear ==
  ASSUME NEW C, IsFiniteSet(C), NEW u, NEW v, NEW w, NEW z, NEW a \in Int, NEW b \in Int,
         \A j \in C : u[j] \in Int, \A j \in C : v[j] \in Int, \A j \in C : w[j] \in Int,
         \A j \in C : z[j] = a * v[j] + b * w[j]
  PROVE  Inner(u, z, C) = a * Inner(u, v, C) + b * Inner(u, w, C)
<1> DEFINE f == [j \in C |-> u[j] * v[j]]
           g == [j \in C |-> u[j] * w[j]]
           h == [j \in C |-> u[j] * z[j]]
           af == [j \in C |-> a * f[j]]
           bg == [j \in C |-> b * g[j]]
<1>1. \A j \in C : /\ f[j] \in Int /\ g[j] \in Int /\ af[j] = a * f[j] /\ bg[j] = b * g[j]
                   /\ af[j] \in Int /\ bg[j] \in Int
  OBVIOUS
<1>2. \A j \in C : h[j] = af[j] + bg[j]
  <2> SUFFICES ASSUME NEW j \in C PROVE h[j] = af[j] + bg[j]
    OBVIOUS
  <2> DEFINE U == u[j]   V == v[j]   W0 == w[j]
  <2>1. U \in Int /\ V \in Int /\ W0 \in Int
    OBVIOUS
  <2>2. h[j] = U * (a * V + b * W0) /\ af[j] = a * (U * V) /\ bg[j] = b * (U * W0)
    OBVIOUS
  <2> HIDE DEF U, V, W0
  <2>3. U * (a * V + b * W0) = a * (U * V) + b * (U * W0)
    BY <2>1
  <2> QED BY <2>2, <2>3
<1> HIDE DEF f, g, h, af, bg
<1>3. Total(h, C) = Total(af, C) + Total(bg, C)
  BY <1>1, <1>2, TotalAdds
<1>4. Total(af, C) = a * Total(f, C)
  BY <1>1, TotalScales
<1>5. Total(bg, C) = b * Total(g, C)
  BY <1>1, TotalScales
<1> QED BY <1>3, <1>4, <1>5 DEF Inner, f, g, h

(* Moving one coordinate moves the product by that coordinate's share.     *)
InnerMoved(u, v, z, p, a, C) == Inner(u, z, C) = Inner(u, v, C) + u[p] * a

(* An entry of a vector changed, an inner product changes by its multiple. *)
LEMMA InnerMoves ==
  ASSUME NEW C, IsFiniteSet(C), NEW u, NEW v, NEW p \in C, NEW a \in Int, NEW z,
         Vector(u, C), Vector(v, C), Moves(v, z, p, a, C)
  PROVE  InnerMoved(u, v, z, p, a, C)
<1> USE DEF Vector, Moves
<1> DEFINE f == [j \in C |-> u[j] * v[j]]
           g == [j \in C |-> u[j] * z[j]]
           rest == C \ {p}
<1>1. \A j \in C : f[j] \in Int /\ g[j] \in Int
  OBVIOUS
<1>2. \A j \in rest : f[j] = g[j]
  OBVIOUS
<1>3. g[p] = f[p] + u[p] * a /\ u[p] * a \in Int
  <2> DEFINE U == u[p]   V == v[p]
  <2>1. U \in Int /\ V \in Int /\ g[p] = U * (V + a) /\ f[p] = U * V
    OBVIOUS
  <2>2. u[p] * a = U * a
    OBVIOUS
  <2> HIDE DEF U, V, f, g
  <2>3. U * (V + a) = U * V + U * a /\ U * a \in Int
    BY <2>1
  <2> QED BY <2>1, <2>2, <2>3
<1>4. IsFiniteSet(rest)
  BY FS_Subset
<1> HIDE DEF f, g
<1>5. Total(f, C) = f[p] + Total(f, rest) /\ Total(g, C) = g[p] + Total(g, rest)
  BY <1>1, TotalTakesOut
<1>6. Total(f, rest) = Total(g, rest)
  BY <1>2, <1>4, TotalAgrees
<1>7. Total(f, rest) \in Int
  BY <1>1, <1>4, TotalInt
<1> HIDE DEF rest
<1>8. Total(g, C) = Total(f, C) + u[p] * a
  BY <1>1, <1>3, <1>5, <1>6, <1>7
<1> QED BY <1>8 DEF Inner, f, g, InnerMoved

(* The product commutes.                                                   *)
LEMMA InnerCommutes ==
  ASSUME NEW C, IsFiniteSet(C), NEW u, NEW v,
         \A j \in C : u[j] \in Int, \A j \in C : v[j] \in Int
  PROVE  Inner(u, v, C) = Inner(v, u, C)
<1>1. \A j \in C : u[j] * v[j] = v[j] * u[j]
  OBVIOUS
<1> QED BY <1>1, InnerAgrees

(* A form is the product of the vector with the matrix applied to it.      *)
LEMMA FormIsInner ==
  ASSUME NEW C, NEW M, NEW v, NEW h, \A i \in C : h[i] = Inner(M[i], v, C)
  PROVE  Form(M, v, C) = Inner(v, h, C)
<1>1. [i \in C |-> v[i] * Inner(M[i], v, C)] = [i \in C |-> v[i] * h[i]]
  OBVIOUS
<1> QED BY <1>1 DEF Form, Inner

(* A form of integers is an integer.                                       *)
LEMMA FormInt ==
  ASSUME NEW C, IsFiniteSet(C), NEW M, NEW v, Square(M, C), Vector(v, C)
  PROVE  Form(M, v, C) \in Int /\ \A i \in C : Inner(M[i], v, C) \in Int
<1> DEFINE h == [i \in C |-> Inner(M[i], v, C)]
<1>1. \A i \in C : Inner(M[i], v, C) \in Int
  BY InnerInt DEF Square, Vector
<1>2. \A i \in C : h[i] \in Int /\ h[i] = Inner(M[i], v, C)
  BY <1>1
<1> HIDE DEF h
<1>3. Inner(v, h, C) \in Int
  BY <1>2, InnerInt DEF Vector
<1>4. Form(M, v, C) = Inner(v, h, C)
  BY <1>2, FormIsInner
<1> QED BY <1>1, <1>3, <1>4

(* Moving one coordinate changes a form by a parabola in the move.         *)
FormMoved(M, v, z, p, a, C) ==
  Form(M, z, C) = Form(M, v, C) + 2 * a * Inner(M[p], v, C) + a * a * M[p][p]

(* An entry of a vector changed, a symmetric form changes by a product and *)
(* a square.                                                               *)
LEMMA FormMoves ==
  ASSUME NEW C, IsFiniteSet(C), NEW M, NEW v, NEW z, NEW p \in C, NEW a \in Int,
         Square(M, C), Symmetric(M, C), Vector(v, C),
         Moves(v, z, p, a, C)
  PROVE  FormMoved(M, v, z, p, a, C)
<1>0. \A u : Vector(u, C) => InnerMoved(u, v, z, p, a, C)
  BY InnerMoves
<1> DEFINE I == [i \in C |-> Inner(M[i], v, C)]
           K == [i \in C |-> M[p][i]]
           G == [i \in C |-> I[i] + a * M[p][i]]
<1>1. Vector(z, C)
  BY DEF Vector, Moves
<1>2. \A i \in C : I[i] \in Int /\ I[i] = Inner(M[i], v, C)
  BY FormInt
<1>3. \A i \in C : M[p][i] \in Int /\ M[i][p] = M[p][i]
  BY DEF Square, Symmetric
<1>4. \A i \in C : Inner(M[i], z, C) = Inner(M[i], v, C) + M[i][p] * a
  <2> TAKE i \in C
  <2>1. Vector(M[i], C)
    BY DEF Square, Vector
  <2> QED BY <2>1, <1>0 DEF InnerMoved
<1>5. \A i \in C : G[i] = Inner(M[i], z, C) /\ G[i] \in Int
  <2> TAKE i \in C
  <2>1. M[i][p] * a = a * M[p][i] /\ a * M[p][i] \in Int
    BY <1>3
  <2>2. G[i] = I[i] + a * M[p][i]
    OBVIOUS
  <2> HIDE DEF I, G
  <2> QED BY <1>2, <1>4, <2>1, <2>2
<1>6. \A i \in C : G[i] = 1 * I[i] + a * K[i] /\ K[i] \in Int
  <2> TAKE i \in C
  <2>1. G[i] = I[i] + a * M[p][i] /\ K[i] = M[p][i]
    OBVIOUS
  <2> HIDE DEF G, I, K
  <2> QED BY <1>2, <1>3, <2>1
<1>7. G[p] = I[p] + a * M[p][p]
  OBVIOUS
<1>8. Inner(v, K, C) = Inner(M[p], v, C)
  <2>1. \A j \in C : v[j] * K[j] = M[p][j] * v[j]
    BY <1>3 DEF Vector
  <2> QED BY <2>1, InnerAgrees
<1> HIDE DEF I, K, G
<1>9. Form(M, z, C) = Inner(z, G, C)
  BY <1>5, FormIsInner
<1>10. Form(M, v, C) = Inner(v, I, C)
  BY <1>2, FormIsInner
<1>11. Inner(z, G, C) = Inner(G, v, C) + G[p] * a
  <2>1. Inner(z, G, C) = Inner(G, z, C)
    BY <1>1, <1>5, InnerCommutes DEF Vector
  <2>2. Inner(G, z, C) = Inner(G, v, C) + G[p] * a
    <3>1. Vector(G, C)
      BY <1>5 DEF Vector
    <3> QED BY <3>1, <1>0 DEF InnerMoved
  <2> QED BY <2>1, <2>2
<1>12. Inner(G, v, C) = Inner(v, I, C) + a * Inner(v, K, C)
  <2>1. Inner(G, v, C) = Inner(v, G, C)
    BY <1>5, InnerCommutes DEF Vector
  <2>2. Inner(v, G, C) = 1 * Inner(v, I, C) + a * Inner(v, K, C)
    BY <1>2, <1>6, InnerLinear DEF Vector
  <2>3. Inner(v, I, C) \in Int
    BY <1>2, InnerInt DEF Vector
  <2> QED BY <2>1, <2>2, <2>3
<1> DEFINE F == Form(M, v, C)   T == Inner(M[p], v, C)   P == M[p][p]   g == G[p]
<1>13. F \in Int /\ T \in Int /\ P \in Int /\ I[p] = T /\ g = T + a * P
  BY <1>2, <1>7, FormInt DEF Square
<1>14. Form(M, z, C) = F + a * T + g * a
  BY <1>8, <1>9, <1>10, <1>11, <1>12
<1> HIDE DEF F, T, P, g
<1>15. F + a * T + (T + a * P) * a = F + 2 * a * T + a * a * P
  BY <1>13
<1> QED BY <1>13, <1>14, <1>15 DEF F, T, P, FormMoved

(* A form grows with the square of its vector.                             *)
FormScaled(M, v, z, a, C) ==
  /\ Form(M, z, C) = a * a * Form(M, v, C)
  /\ \A i \in C : Inner(M[i], z, C) = a * Inner(M[i], v, C)

(* A form on a multiple of a vector.                                       *)
LEMMA FormScales ==
  ASSUME NEW C, IsFiniteSet(C), NEW M, NEW v, NEW z, NEW a \in Int, Square(M, C), Vector(v, C),
         Scales(v, z, a, C)
  PROVE  FormScaled(M, v, z, a, C)
<1> USE DEF Scales
<1> DEFINE I == [i \in C |-> Inner(M[i], v, C)]
           G == [i \in C |-> Inner(M[i], z, C)]
<1>1. \A i \in C : I[i] \in Int /\ I[i] = Inner(M[i], v, C)
  BY FormInt
<1>2. \A i \in C : Inner(M[i], z, C) = a * Inner(M[i], v, C)
  <2> TAKE i \in C
  <2>1. \A j \in C : z[j] = a * v[j] + 0 * v[j] /\ M[i][j] \in Int /\ v[j] \in Int
    BY DEF Square, Vector
  <2>2. Inner(M[i], z, C) = a * Inner(M[i], v, C) + 0 * Inner(M[i], v, C)
    BY <2>1, InnerLinear
  <2> QED BY <1>1, <2>2
<1>3. \A i \in C : G[i] = Inner(M[i], z, C) /\ G[i] = a * I[i]
  BY <1>1, <1>2
<1>4. \A j \in C : z[j] * G[j] = v[j] * (a * a * I[j])
  <2> TAKE j \in C
  <2> DEFINE V == v[j]  J == I[j]
  <2>1. V \in Int /\ J \in Int /\ z[j] = a * V /\ G[j] = a * J
    BY <1>1, <1>3 DEF Vector
  <2> HIDE DEF V, J, G, I
  <2>2. (a * V) * (a * J) = V * (a * a * J)
    BY <2>1
  <2> QED BY <2>1, <2>2 DEF V, J
<1> DEFINE H == [j \in C |-> a * a * I[j]]
<1>5. \A j \in C : H[j] = (a * a) * I[j] + 0 * I[j] /\ H[j] = a * a * I[j]
  <2> TAKE j \in C
  <2>1. H[j] = a * a * I[j] /\ I[j] \in Int
    BY <1>1
  <2> HIDE DEF H, I
  <2> QED BY <2>1
<1> HIDE DEF I, G, H
<1>6. Form(M, z, C) = Inner(z, G, C) /\ Form(M, v, C) = Inner(v, I, C)
  BY <1>1, <1>3, FormIsInner
<1>7. Inner(z, G, C) = Inner(v, H, C)
  BY <1>4, <1>5, InnerAgrees
<1>8. a * a \in Int /\ 0 \in Int
  OBVIOUS
<1>9. Inner(v, H, C) = (a * a) * Inner(v, I, C) + 0 * Inner(v, I, C)
  BY <1>1, <1>5, <1>8, InnerLinear DEF Vector
<1>10. Inner(v, I, C) \in Int
  BY <1>1, InnerInt DEF Vector
<1> QED BY <1>2, <1>6, <1>7, <1>8, <1>9, <1>10 DEF FormScaled

(* One step of the elimination, and what it leaves of a form.              *)
Step(M, p, R, C) == \A i, j \in C : R[i][j] = M[p][p] * M[i][j] - M[i][p] * M[p][j]

(* One elimination step: the scaled remainder is symmetric, vanishes at    *)
(* the pivot and is the scaled form less a square.                         *)
LEMMA Eliminated ==
  ASSUME NEW C, IsFiniteSet(C), NEW M, NEW R, NEW p \in C, Square(M, C), Symmetric(M, C),
         Step(M, p, R, C)
  PROVE  /\ Square(R, C) /\ Symmetric(R, C) /\ R[p][p] = 0
         /\ \A v : Vector(v, C) =>
              /\ Inner(R[p], v, C) = 0
              /\ Form(R, v, C) = M[p][p] * Form(M, v, C) - Inner(M[p], v, C) * Inner(M[p], v, C)
<1>1. Square(R, C)
  BY DEF Square, Step
<1>2. \A i, j \in C : M[i][j] \in Int /\ M[i][j] = M[j][i]
  BY DEF Square, Symmetric
<1>3. Symmetric(R, C)
  <2> SUFFICES ASSUME NEW i \in C, NEW j \in C PROVE R[i][j] = R[j][i]
    BY DEF Symmetric
  <2> DEFINE P == M[p][p]   A == M[i][j]   X == M[i][p]   Y == M[j][p]
  <2>1. R[i][j] = P * A - X * Y
    BY <1>2 DEF Step
  <2>2. R[j][i] = P * A - Y * X
    BY <1>2 DEF Step
  <2>3. P \in Int /\ A \in Int /\ X \in Int /\ Y \in Int
    BY <1>2
  <2> HIDE DEF P, A, X, Y
  <2>4. X * Y = Y * X
    BY <2>3
  <2> QED BY <2>1, <2>2, <2>4
<1>4. \A j \in C : R[p][j] = 0
  <2> SUFFICES ASSUME NEW j \in C PROVE R[p][j] = 0
    OBVIOUS
  <2>1. R[p][j] = M[p][p] * M[p][j] - M[p][p] * M[p][j] /\ M[p][p] * M[p][j] \in Int
    BY <1>2 DEF Step
  <2> QED BY <2>1
<1>5. ASSUME NEW v, Vector(v, C) PROVE Inner(R[p], v, C) = 0
  <2> DEFINE f == [j \in C |-> R[p][j] * v[j]]
  <2>1. \A j \in C : f[j] = 0
    BY <1>4, <1>5 DEF Vector
  <2> HIDE DEF f
  <2>2. Total(f, C) = 0
    BY <2>1, TotalOfZeros
  <2> QED BY <2>2 DEF Inner, f
<1>6. ASSUME NEW v, Vector(v, C)
      PROVE  Form(R, v, C) = M[p][p] * Form(M, v, C) - Inner(M[p], v, C) * Inner(M[p], v, C)
  <2> DEFINE I == [i \in C |-> Inner(M[i], v, C)]
             K == [i \in C |-> Inner(R[i], v, C)]
             Q == M[p]
             t == Inner(Q, v, C)
             s == M[p][p]
  <2>1. \A i \in C : I[i] \in Int /\ I[i] = Inner(M[i], v, C)
    BY <1>6, FormInt
  <2>2. t \in Int /\ s \in Int /\ -t \in Int /\ \A i \in C : Q[i] \in Int
    BY <1>2, <2>1
  <2>3. ASSUME NEW i \in C PROVE Inner(R[i], v, C) = s * I[i] + (-t) * Q[i]
    <3> DEFINE g == M[i]  c == -(M[i][p])  r == R[i]
    <3>1. c \in Int /\ \A j \in C : g[j] \in Int /\ Q[j] \in Int
      BY <1>2
    <3>2. \A j \in C : r[j] = s * g[j] + c * Q[j]
      <4> SUFFICES ASSUME NEW j \in C PROVE r[j] = s * g[j] + c * Q[j]
        OBVIOUS
      <4> DEFINE X == M[i][p]  Y == M[p][j]  A == M[i][j]
      <4>1. R[i][j] = s * A - X * Y /\ X \in Int /\ Y \in Int /\ A \in Int
        BY <1>2 DEF Step
      <4>2. r[j] = R[i][j] /\ g[j] = A /\ Q[j] = Y /\ c = -X
        OBVIOUS
      <4> HIDE DEF X, Y, A, s, g, r, Q, c
      <4>3. s * A - X * Y = s * A + (-X) * Y
        BY <2>2, <4>1
      <4> QED BY <4>1, <4>2, <4>3
    <3>3. \A j \in C : v[j] \in Int /\ r[j] \in Int
      BY <1>1, <1>6 DEF Vector, Square
    <3> HIDE DEF g, c, r, Q, s, t, I, K
    <3>4. Inner(v, r, C) = s * Inner(v, g, C) + c * Inner(v, Q, C)
      BY <2>2, <3>1, <3>2, <3>3, InnerLinear
    <3>5. Inner(r, v, C) = Inner(v, r, C) /\ Inner(g, v, C) = Inner(v, g, C)
          /\ Inner(Q, v, C) = Inner(v, Q, C)
      BY <3>1, <3>3, InnerCommutes
    <3>6. Inner(g, v, C) = I[i] /\ Inner(Q, v, C) = t
      BY <2>1 DEF g, t
    <3>7. c * t = (-t) * Q[i] /\ c * t \in Int
      <4>1. c = -(Q[i]) /\ Q[i] \in Int
        BY <1>2 DEF c, Q
      <4> QED BY <2>2, <4>1
    <3>8. Inner(r, v, C) = s * I[i] + (-t) * Q[i]
      BY <3>4, <3>5, <3>6, <3>7
    <3> QED BY <3>8 DEF r
  <2>4. \A i \in C : K[i] = s * I[i] + (-t) * Q[i] /\ K[i] = Inner(R[i], v, C)
    BY <2>3
  <2>5. \A j \in C : v[j] \in Int
    BY <1>6 DEF Vector
  <2> HIDE DEF I, K, Q, t, s
  <2>6. Inner(v, K, C) = s * Inner(v, I, C) + (-t) * Inner(v, Q, C)
    BY <2>1, <2>2, <2>4, <2>5, InnerLinear
  <2>7. Form(R, v, C) = Inner(v, K, C) /\ Form(M, v, C) = Inner(v, I, C)
    BY <2>1, <2>4, FormIsInner
  <2>8. Inner(v, Q, C) = t
    BY <2>2, <2>5, InnerCommutes DEF t
  <2>9. Inner(v, I, C) \in Int
    BY <2>1, <2>5, InnerInt
  <2>10. Form(R, v, C) = s * Form(M, v, C) - t * t
    <3> DEFINE F == Inner(v, I, C)
    <3> HIDE DEF F
    <3>1. s * F + (-t) * t = s * F - t * t
      BY <2>2, <2>9 DEF F
    <3> QED BY <2>6, <2>7, <2>8, <3>1 DEF F
  <2> QED BY <2>10 DEF s, t, Q
<1> QED BY <1>1, <1>3, <1>4, <1>5, <1>6

(* The form is nowhere negative on the vectors that live on L.             *)
NonNegative(M, L, C) ==
  \A v \in [C -> Int] : (\A j \in C : j \notin L => v[j] = 0) => Form(M, v, C) >= 0

(* A step of the elimination at a positive pivot neither hides a direction *)
(* of negative curvature nor makes one up.                                 *)
LEMMA PivotDecides ==
  ASSUME NEW C, IsFiniteSet(C), NEW M, NEW R, NEW L, L \subseteq C, NEW p \in L,
         Square(M, C), Symmetric(M, C), Step(M, p, R, C), M[p][p] > 0
  PROVE  NonNegative(R, L \ {p}, C) <=> NonNegative(M, L, C)
<1>c. Square(R, C) /\ Symmetric(R, C) /\ R[p][p] = 0
  BY Eliminated
<1> DEFINE s == M[p][p]
<1>0. p \in C /\ s \in Int /\ s > 0
  BY DEF Square
<1>1. Square(R, C) /\ Symmetric(R, C) /\ R[p][p] = 0
  BY <1>c
<1>2. ASSUME NEW v, Vector(v, C)
      PROVE  /\ Inner(R[p], v, C) = 0 /\ Inner(M[p], v, C) \in Int
             /\ Form(M, v, C) \in Int /\ Form(R, v, C) \in Int
             /\ Form(R, v, C) = s * Form(M, v, C) - Inner(M[p], v, C) * Inner(M[p], v, C)
  <2>1. Form(M, v, C) \in Int /\ Inner(M[p], v, C) \in Int /\ Form(R, v, C) \in Int
    BY <1>0, <1>1, <1>2, FormInt
  <2> QED BY <1>0, <1>2, <2>1, Eliminated
<1>3. ASSUME NonNegative(M, L, C), NEW v \in [C -> Int],
             \A j \in C : j \notin L \ {p} => v[j] = 0
      PROVE  Form(R, v, C) >= 0
  <2> DEFINE t == Inner(M[p], v, C)
             w == [j \in C |-> s * v[j]]
             z == [w EXCEPT ![p] = -t]
             F == Form(M, v, C)
  <2>1. Vector(v, C) /\ t \in Int /\ F \in Int /\ Form(R, v, C) = s * F - t * t
    BY <1>2 DEF Vector
  <2>2. v[p] = 0 /\ w \in [C -> Int] /\ w[p] = 0
    BY <1>0, <1>3
  <2>3. z \in [C -> Int] /\ \A j \in C : j \notin L => z[j] = 0
    BY <1>0, <1>3, <2>1, <2>2
  <2>4. Form(M, z, C) >= 0
    BY <1>3, <2>3 DEF NonNegative
  <2>5. Form(M, w, C) = s * s * F /\ Inner(M[p], w, C) = s * t
    <3>1. Scales(v, w, s, C)
      BY DEF Scales
    <3> HIDE DEF w, s, F, t
    <3>2. Form(M, w, C) = s * s * Form(M, v, C) /\ Inner(M[p], w, C) = s * Inner(M[p], v, C)
      <4>1. FormScaled(M, v, w, s, C)
        BY <1>0, <2>1, <3>1, FormScales
      <4> QED BY <1>0, <4>1 DEF FormScaled
    <3> QED BY <3>2 DEF F, t
  <2>6. Form(M, z, C) = Form(M, w, C) + 2 * (-t) * Inner(M[p], w, C) + (-t) * (-t) * s
    <3>1. Moves(w, z, p, -t, C) /\ -t \in Int /\ Vector(w, C)
      BY <1>0, <2>1, <2>2 DEF Moves, Vector
    <3> HIDE DEF w, z, t
    <3>2. FormMoved(M, w, z, p, -t, C)
      BY <1>0, <3>1, FormMoves
    <3> QED BY <3>2 DEF s, FormMoved
  <2> HIDE DEF t, w, z, F, s
  <2>7. s * s * F + 2 * (-t) * (s * t) + (-t) * (-t) * s = s * (s * F - t * t)
    BY <1>0, <2>1
  <2>8. s * (s * F - t * t) >= 0
    BY <2>4, <2>5, <2>6, <2>7
  <2>9. \A n0 \in Int : s * n0 >= 0 => n0 >= 0
    BY <1>0
  <2>10. s * F - t * t \in Int
    BY <1>0, <2>1
  <2> QED BY <2>1, <2>8, <2>9, <2>10
<1>4. ASSUME NonNegative(R, L \ {p}, C), NEW u \in [C -> Int], \A j \in C : j \notin L => u[j] = 0
      PROVE  Form(M, u, C) >= 0
  <2> DEFINE v == [u EXCEPT ![p] = 0]
             t == Inner(M[p], u, C)
             F == Form(M, u, C)
  <2>1. Vector(u, C) /\ t \in Int /\ F \in Int /\ Form(R, u, C) = s * F - t * t
    BY <1>2 DEF Vector
  <2>2. v \in [C -> Int] /\ \A j \in C : j \notin L \ {p} => v[j] = 0
    BY <1>0, <1>4
  <2>3. Form(R, v, C) >= 0
    BY <1>4, <2>2 DEF NonNegative
  <2> DEFINE c == u[p]
  <2>4. Vector(v, C) /\ Moves(v, u, p, c, C) /\ c \in Int
    BY <1>0, <2>2 DEF Vector, Moves
  <2> HIDE DEF v, c
  <2>5. Form(R, u, C) = Form(R, v, C) + 2 * c * Inner(R[p], v, C) + c * c * R[p][p]
    <3>1. FormMoved(R, v, u, p, c, C)
      BY <1>0, <1>1, <2>4, FormMoves
    <3> QED BY <3>1 DEF FormMoved
  <2>6. Inner(R[p], v, C) = 0 /\ Form(R, v, C) \in Int
    BY <1>2, <2>4
  <2>7. Form(R, u, C) = Form(R, v, C)
    BY <1>1, <2>4, <2>5, <2>6
  <2> HIDE DEF t, F, s
  <2>8. s * F = Form(R, v, C) + t * t /\ t * t >= 0
    BY <1>0, <2>1, <2>7
  <2>9. s * F >= 0 /\ s * F \in Int
    BY <1>0, <2>1, <2>3, <2>6, <2>8
  <2>10. \A n0 \in Int : s * n0 >= 0 => n0 >= 0
    BY <1>0
  <2> QED BY <2>1, <2>9, <2>10 DEF F
<1> QED BY <1>3, <1>4 DEF NonNegative

(* The vectors of one entry, and what a form is on them.                   *)
Unit(i, C) == [j \in C |-> IF j = i THEN 1 ELSE 0]

(* On a unit vector a form is its diagonal entry.                          *)
LEMMA FormOfUnit ==
  ASSUME NEW C, IsFiniteSet(C), NEW M, NEW i \in C, Square(M, C), Symmetric(M, C)
  PROVE  /\ Vector(Unit(i, C), C) /\ Unit(i, C) \in [C -> Int]
         /\ Form(M, Unit(i, C), C) = M[i][i]
         /\ \A k \in C : Inner(M[k], Unit(i, C), C) = M[k][i]
<1> DEFINE o == [j \in C |-> 0]
           e == Unit(i, C)
<1>1. Vector(o, C) /\ Vector(e, C) /\ e \in [C -> Int] /\ Moves(o, e, i, 1, C)
  BY DEF Vector, Moves, Unit
<1>2. ASSUME NEW k \in C PROVE Vector(M[k], C) /\ Inner(M[k], o, C) = 0
  <2> DEFINE f == [j \in C |-> M[k][j] * o[j]]
  <2>1. \A j \in C : f[j] = 0 /\ M[k][j] \in Int
    BY DEF Square
  <2> HIDE DEF f
  <2>2. Total(f, C) = 0
    BY <2>1, TotalOfZeros
  <2> QED BY <2>1, <2>2 DEF Inner, f, Vector
<1>3. Form(M, o, C) = 0
  <2> DEFINE f == [j \in C |-> o[j] * Inner(M[j], o, C)]
  <2>1. \A j \in C : f[j] = 0
    BY <1>2
  <2> HIDE DEF f
  <2>2. Total(f, C) = 0
    BY <2>1, TotalOfZeros
  <2> QED BY <2>2 DEF Form, f
<1> HIDE DEF o, e
<1>4. \A k \in C : Inner(M[k], e, C) = M[k][i]
  <2> TAKE k \in C
  <2>1. Vector(M[k], C) /\ Inner(M[k], o, C) = 0 /\ M[k][i] \in Int
    BY <1>2 DEF Square
  <2> DEFINE u == M[k]
  <2> HIDE DEF u
  <2>2. InnerMoved(u, o, e, i, 1, C)
    BY <1>1, <2>1, InnerMoves DEF u
  <2> QED BY <2>1, <2>2 DEF u, InnerMoved
<1>5. FormMoved(M, o, e, i, 1, C)
  BY <1>1, FormMoves
<1>6. M[i][i] \in Int
  BY DEF Square
<1>7. Form(M, e, C) = M[i][i]
  BY <1>2, <1>3, <1>5, <1>6 DEF FormMoved
<1> QED BY <1>1, <1>4, <1>7 DEF e

(* What the tail of the scan sees: a negative diagonal, or a coupling where*)
(* no diagonal is positive, is a direction of negative curvature.          *)
LEMMA TailRejects ==
  ASSUME NEW C, IsFiniteSet(C), NEW M, NEW L, L \subseteq C, Square(M, C), Symmetric(M, C),
         NEW i \in L, NEW j \in L,
         \/ M[i][i] < 0
         \/ i # j /\ M[i][j] # 0 /\ M[i][i] <= 0 /\ M[j][j] <= 0
  PROVE  ~NonNegative(M, L, C)
<1>0. i \in C /\ j \in C /\ M[i][i] \in Int /\ M[i][j] \in Int /\ M[j][j] \in Int /\ M[j][i] = M[i][j]
  BY DEF Square, Symmetric
<1> DEFINE e == Unit(i, C)
<1>1. Vector(e, C) /\ e \in [C -> Int] /\ Form(M, e, C) = M[i][i] /\ Inner(M[j], e, C) = M[j][i]
  BY <1>0, FormOfUnit
<1>2. \A k \in C : k \notin L => e[k] = 0
  BY DEF Unit
<1>3. CASE M[i][i] < 0
  BY <1>0, <1>1, <1>2, <1>3 DEF NonNegative
<1>4. CASE i # j /\ M[i][j] # 0 /\ M[i][i] <= 0 /\ M[j][j] <= 0
  <2> DEFINE a == IF M[i][j] > 0 THEN -1 ELSE 1
             z == [e EXCEPT ![j] = a]
  <2>1. a \in Int /\ Moves(e, z, j, a, C) /\ z \in [C -> Int]
    BY <1>0, <1>4 DEF Moves, Unit
  <2>2. \A k \in C : k \notin L => z[k] = 0
    BY <1>2
  <2> HIDE DEF e, z
  <2>3. FormMoved(M, e, z, j, a, C)
    BY <1>0, <1>1, <2>1, FormMoves
  <2>4. Form(M, z, C) = M[i][i] + 2 * a * M[i][j] + a * a * M[j][j]
    BY <1>0, <1>1, <2>3 DEF FormMoved
  <2>5. 2 * a * M[i][j] < 0 /\ a * a = 1
    BY <1>0, <1>4
  <2>6. Form(M, z, C) < 0
    <3>1. Form(M, z, C) = M[i][i] + 2 * a * M[i][j] + 1 * M[j][j] /\ 2 * a * M[i][j] \in Int
      BY <1>0, <2>1, <2>4, <2>5
    <3> HIDE DEF a
    <3> QED BY <1>0, <1>4, <2>5, <3>1
  <2>7. Vector(z, C)
    BY <2>1 DEF Vector
  <2>8. Form(M, z, C) \in Int
    BY <2>7, FormInt
  <2> HIDE DEF a
  <2> QED BY <2>1, <2>2, <2>6, <2>8 DEF NonNegative
<1> QED BY <1>3, <1>4

(* And where everything left is zero the form is nowhere negative.         *)
LEMMA TailAccepts ==
  ASSUME NEW C, IsFiniteSet(C), NEW M, NEW L, L \subseteq C, Square(M, C),
         \A i, j \in L : M[i][j] = 0
  PROVE  NonNegative(M, L, C)
<1> SUFFICES ASSUME NEW v \in [C -> Int], \A j \in C : j \notin L => v[j] = 0
             PROVE  Form(M, v, C) = 0
  BY DEF NonNegative
<1>1. Vector(v, C)
  BY DEF Vector
<1>2. ASSUME NEW i \in L PROVE Inner(M[i], v, C) = 0
  <2> DEFINE f == [j \in C |-> M[i][j] * v[j]]
  <2>1. \A j \in C : f[j] = 0
    <3> TAKE j \in C
    <3>1. M[i][j] \in Int /\ v[j] \in Int /\ i \in C
      BY <1>2 DEF Square
    <3>2. M[i][j] = 0 \/ v[j] = 0
      BY <1>2
    <3> QED BY <3>1, <3>2
  <2> HIDE DEF f
  <2>2. Total(f, C) = 0
    BY <2>1, TotalOfZeros
  <2> QED BY <2>2 DEF Inner, f
<1> DEFINE g == [i \in C |-> v[i] * Inner(M[i], v, C)]
<1>3. \A i \in C : g[i] = 0
  <2> TAKE i \in C
  <2>1. Inner(M[i], v, C) \in Int /\ v[i] \in Int
    BY <1>1, FormInt
  <2>2. v[i] = 0 \/ Inner(M[i], v, C) = 0
    BY <1>2
  <2> QED BY <2>1, <2>2
<1> HIDE DEF g
<1>4. Total(g, C) = 0
  BY <1>3, TotalOfZeros
<1> QED BY <1>4 DEF Form, g

(* Among finitely many integers one is the largest.                        *)
LEMMA LargestExists ==
  ASSUME NEW L, IsFiniteSet(L), L # {}, NEW f, \A i \in L : f[i] \in Int
  PROVE  \E p \in L : \A i \in L : f[i] <= f[p]
<1> DEFINE G == {T \in SUBSET L : T # {} => \E p \in T : \A i \in T : f[i] <= f[p]}
<1>1. {} \in G
  OBVIOUS
<1>2. ASSUME NEW T \in SUBSET L, NEW y \in L \ T, T \in G PROVE T \cup {y} \in G
  <2>1. CASE T = {}
    BY <2>1
  <2>2. CASE T # {}
    <3>1. PICK p \in T : \A i \in T : f[i] <= f[p]
      BY <1>2, <2>2
    <3>2. CASE f[p] <= f[y]
      <4>1. \A i \in T \cup {y} : f[i] <= f[y]
        BY <3>1, <3>2
      <4> QED BY <4>1
    <3>3. CASE f[y] < f[p]
      <4>1. \A i \in T \cup {y} : f[i] <= f[p]
        BY <3>1, <3>3
      <4> QED BY <4>1
    <3> QED BY <3>2, <3>3
  <2> QED BY <2>1, <2>2
<1> HIDE DEF G
<1>3. L \in G
  BY <1>1, <1>2, SetInduction
<1> QED BY <1>3 DEF G

----------------------------------------------------------------------------
(* The recursive definitions of the model: that they have solutions.       *)

(* A multiple leaves no remainder.                                         *)
LEMMA MultipleDivides ==
  ASSUME NEW m \in Nat \ {0}, NEW a \in Int PROVE (m * a) % m = 0
<1> DEFINE r == (m * a) % m   q == (m * a) \div m
<1>1. m * a \in Int /\ m > 0 /\ m \in Int
  OBVIOUS
<1>2. \A b \in Int : b = m * (b \div m) + (b % m) /\ 0 <= b % m /\ b % m < m /\ b \div m \in Int /\ b % m \in Int
  BY <1>1
<1>3. m * a = m * q + r /\ 0 <= r /\ r < m /\ q \in Int /\ r \in Int
  BY <1>1, <1>2
<1> HIDE DEF q, r
<1>4. m * (a - q) = r
  BY <1>1, <1>3
<1>5. a - q \in Int
  BY <1>3
<1>6. \A c \in Int : (c >= 1 => m * c >= m) /\ (c <= -1 => m * c <= -m) /\ m * 0 = 0
  BY <1>1
<1>7. a - q = 0
  BY <1>1, <1>3, <1>4, <1>5, <1>6
<1>8. r = 0
  BY <1>1, <1>3, <1>4, <1>7
<1> QED BY <1>8 DEF r

(* A point has a positive denominator.                                     *)
IsPoint(y, C) == y.v \in [C -> Int] /\ y.d \in Nat \ {0}

(* Reducing to lowest terms gives integers over a positive denominator.    *)
LEMMA PointIsPoint ==
  ASSUME NEW C, NEW v \in [C -> Int], NEW d \in Int, d # 0
  PROVE  IsPoint(Point(v, d), C)
<1> DEFINE m == Magnitude(d)
           T == {k \in Nat : k \in 1 .. m /\ Integral(v, d, k)}
<1>1. m \in Nat \ {0} /\ DOMAIN v = C /\ \A j \in C : v[j] \in Int
  BY DEF Magnitude
<1>2. m \in T
  <2>1. \A j \in C : (m * v[j]) % m = 0
    BY <1>1, MultipleDivides
  <2> QED BY <1>1, <2>1 DEF Integral
<1> HIDE DEF m
<1>3. PICK k \in T : \A j \in T : k <= j
  <2> HIDE DEF T
  <2>1. T \subseteq Nat /\ T # {}
    BY <1>2 DEF T
  <2> QED BY <2>1, LeastNumber
<1>4. \A l \in 1 .. k - 1 : ~Integral(v, d, l)
  BY <1>1, <1>3
<1>5. \E i \in 1 .. m : Integral(v, d, i) /\ \A l \in 1 .. i - 1 : ~Integral(v, d, l)
  BY <1>3, <1>4
<1>6. Lowest(v, d) \in 1 .. m
  BY <1>5 DEF Lowest, m
<1>7. Lowest(v, d) \in Nat \ {0}
  BY <1>1, <1>6
<1> DEFINE c == Lowest(v, d)
<1> HIDE DEF c
<1>8. \A a \in Int : a \div m \in Int
  BY <1>1
<1>9. \A j \in C : (IF d < 0 THEN -(c * v[j]) ELSE c * v[j]) \in Int
  BY <1>1, <1>7 DEF c
<1>10. Point(v, d) = [v |-> [j \in C |-> (IF d < 0 THEN -(c * v[j]) ELSE c * v[j]) \div m], d |-> c]
  BY <1>1 DEF Point, c, m
<1> QED BY <1>7, <1>8, <1>9, <1>10 DEF IsPoint, c

(* One function satisfies the equation of WorkingSet, and collects rows.   *)
Collects(q, y, h) ==
  h = [i \in 0 .. Len(q.A) |->
         IF i = 0 THEN <<>>
         ELSE LET w == h[i - 1] IN IF Resid(q, i, y) >= 0 THEN Joined(q, w, i) ELSE w]

(* The working set is what the equation of Collects gives at the last row. *)
LEMMA WorkingSetIs ==
  ASSUME NEW q, NEW y PROVE WorkingSet(q, y) = (CHOOSE h : Collects(q, y, h))[Len(q.A)]
BY DEF WorkingSet, Collects

(* A working set is made of rows.                                          *)
LEMMA WorkingSetOfRows ==
  ASSUME NEW q, NEW y, Len(q.A) \in Nat, Rows(q) = 1 .. Len(q.A)
  PROVE  WorkingSet(q, y) \in Seq(Rows(q))
<1> DEFINE m == Len(q.A)
           Next1(h, i) == IF i = 0 THEN <<>>
                         ELSE IF Resid(q, i, y) >= 0 THEN Joined(q, h[i - 1], i) ELSE h[i - 1]
           Upto(h, k) == h = [i \in 0 .. m |-> h[i]] /\ \A i \in 0 .. m : i <= k => h[i] = Next1(h, i)
           B == {k \in Nat : k <= m /\ ~ \E h : Upto(h, k)}
<1>1. B = {}
  <2> SUFFICES ASSUME B # {} PROVE FALSE
    OBVIOUS
  <2>1. PICK k \in B : \A j \in B : k <= j
    <3>1. B \subseteq Nat
      OBVIOUS
    <3> HIDE DEF B
    <3> QED BY <3>1, LeastNumber
  <2>2. CASE k = 0
    <3> DEFINE h == [i \in 0 .. m |-> <<>>]
    <3>1. Upto(h, 0)
      OBVIOUS
    <3> QED BY <2>1, <2>2, <3>1
  <2>3. CASE k # 0
    <3>1. k - 1 \in Nat /\ k - 1 \notin B /\ k - 1 <= m
      BY <2>1, <2>3
    <3>2. PICK g : Upto(g, k - 1)
      BY <3>1
    <3> DEFINE h == [i \in 0 .. m |-> IF i = k THEN Next1(g, i) ELSE g[i]]
    <3>3. ASSUME NEW i \in 0 .. m, i <= k PROVE h[i] = Next1(h, i)
      <4>1. CASE i = k
        <5>1. h[i] = Next1(g, i) /\ h[i - 1] = g[i - 1]
          BY <2>1, <2>3, <3>3, <4>1
        <5> HIDE DEF h
        <5> QED BY <5>1
      <4>2. CASE i # k
        <5>1. h[i] = g[i] /\ (i # 0 => h[i - 1] = g[i - 1])
          BY <2>1, <3>3, <4>2
        <5>2. i <= k - 1 /\ i \in 0 .. m
          BY <2>1, <3>3, <4>2
        <5>3. g[i] = Next1(g, i)
          <6> HIDE DEF Next1
          <6> QED BY <3>2, <5>2
        <5> HIDE DEF h
        <5> QED BY <5>1, <5>3
      <4> QED BY <4>1, <4>2
    <3>4. h = [i \in 0 .. m |-> h[i]]
      OBVIOUS
    <3> HIDE DEF h
    <3>5. Upto(h, k)
      BY <3>3, <3>4
    <3> QED BY <2>1, <3>5
  <2> QED BY <2>2, <2>3
<1>2. PICK h0 : Upto(h0, m)
  BY <1>1
<1>3. Collects(q, y, h0)
  BY <1>2 DEF Collects
<1> DEFINE h == CHOOSE g : Collects(q, y, g)
<1>4. Collects(q, y, h)
  BY <1>3
<1> HIDE DEF h
<1>5. \A i \in 0 .. m : h[i] = Next1(h, i)
  BY <1>4 DEF Collects
<1> DEFINE E == {k \in Nat : k <= m /\ h[k] \notin Seq(Rows(q))}
<1>6. E = {}
  <2> SUFFICES ASSUME E # {} PROVE FALSE
    OBVIOUS
  <2>1. PICK k \in E : \A j \in E : k <= j
    <3>1. E \subseteq Nat
      OBVIOUS
    <3> HIDE DEF E
    <3> QED BY <3>1, LeastNumber
  <2>0. k \in 0 .. m /\ k \in Nat /\ h[k] \notin Seq(Rows(q))
    BY <2>1
  <2>1a. h[k] = Next1(h, k)
    <3> HIDE DEF Next1
    <3> QED BY <1>5, <2>0
  <2>2. k # 0
    <3>1. <<>> \in Seq(Rows(q))
      BY EmptySeq
    <3> HIDE DEF m
    <3> QED BY <2>0, <2>1a, <3>1
  <2>3. h[k - 1] \in Seq(Rows(q)) /\ k \in Rows(q)
    <3>1. k - 1 \in Nat /\ k - 1 <= m /\ k - 1 \notin E
      BY <2>0, <2>1, <2>2
    <3> QED BY <2>0, <2>2, <3>1
  <2>4. h[k] \in Seq(Rows(q))
    <3>1. h[k] = h[k - 1] \/ h[k] = Append(h[k - 1], k)
      BY <2>1a, <2>2 DEF Joined
    <3> DEFINE R == Rows(q)
    <3>2. \A w \in Seq(R), e \in R : Append(w, e) \in Seq(R)
      BY AppendProperties
    <3> QED BY <2>3, <3>1, <3>2
  <2> QED BY <2>0, <2>4
<1>7. h[m] \in Seq(Rows(q))
  BY <1>6
<1> QED BY <1>7, WorkingSetIs DEF h

(* One function gives the minors of a matrix, and all are integers.        *)
Minors(M, h) ==
  h = [C \in SUBSET DOMAIN M |->
         LET r == Len(M) - Cardinality(C) + 1
             Sign(j) == IF Cardinality({i \in C : i < j}) % 2 = 0 THEN 1 ELSE -1
         IN IF C = {} THEN 1
            ELSE MapThenSumSet(LAMBDA j : IF M[r][j] = 0 THEN 0 ELSE Sign(j) * M[r][j] * h[C \ {j}], C)]

(* A determinant is the minor of all columns.                              *)
LEMMA DetIs ==
  ASSUME NEW M PROVE Det(M) = (CHOOSE h : Minors(M, h))[DOMAIN M]
BY DEF Det, Minors

(* The row a minor is expanded along, the sign and the terms.              *)
Along(M, C) == M[Len(M) - Cardinality(C) + 1]
SignOf(C, j) == IF Cardinality({i \in C : i < j}) % 2 = 0 THEN 1 ELSE -1
Entry(M, C, h, j) == IF Along(M, C)[j] = 0 THEN 0 ELSE SignOf(C, j) * Along(M, C)[j] * h[C \ {j}]
Expanded(M, C, h) == [j \in C |-> Entry(M, C, h, j)]
Minor(M, C, h) == IF C = {} THEN 1 ELSE Total(Expanded(M, C, h), C)

(* An expansion along a row is a sum.                                      *)
LEMMA TermsAdd ==
  ASSUME NEW M, NEW C, NEW h
  PROVE  MapThenSumSet(LAMBDA j : Entry(M, C, h, j), C) = Total(Expanded(M, C, h), C)
BY DEF Total, MapThenSumSet, MapThenFoldSet, Expanded, Entry, Along, SignOf

(* So the minors are what solves the equation of Minor.                    *)
LEMMA MinorsAre ==
  ASSUME NEW M, NEW h
  PROVE  Minors(M, h) <=> h = [C \in SUBSET DOMAIN M |-> Minor(M, C, h)]
<1> DEFINE Sum(C) == MapThenSumSet(LAMBDA j : Entry(M, C, h, j), C)
<1>1. Minors(M, h) <=> h = [C \in SUBSET DOMAIN M |-> IF C = {} THEN 1 ELSE Sum(C)]
  BY Zenon DEF Minors, Entry, Along, SignOf
<1>2. \A C : Sum(C) = Total(Expanded(M, C, h), C)
  BY TermsAdd
<1> HIDE DEF Sum
<1>3. [C \in SUBSET DOMAIN M |-> IF C = {} THEN 1 ELSE Sum(C)] = [C \in SUBSET DOMAIN M |-> Minor(M, C, h)]
  BY <1>2 DEF Minor
<1> QED BY <1>1, <1>3

(* A minor looks at the minors one column smaller only.                    *)
LEMMA MinorAgrees ==
  ASSUME NEW M, NEW C, IsFiniteSet(C), NEW g, NEW h, \A j \in C : g[C \ {j}] = h[C \ {j}]
  PROVE  Minor(M, C, g) = Minor(M, C, h)
<1> DEFINE e == Expanded(M, C, g)   f == Expanded(M, C, h)
<1>1. \A j \in C : e[j] = f[j]
  BY DEF Expanded, Entry
<1> HIDE DEF e, f
<1>2. Total(e, C) = Total(f, C)
  BY <1>1, TotalAgrees
<1> QED BY <1>2 DEF Minor, e, f

(* The equation of the minors has a solution, built up by size.            *)
LEMMA MinorsExist ==
  ASSUME NEW M, IsFiniteSet(DOMAIN M)
  PROVE  \E h : h = [C \in SUBSET DOMAIN M |-> Minor(M, C, h)]
<1> DEFINE D == DOMAIN M
           n0 == Cardinality(D)
           Upto(h, k) == \A C \in SUBSET D : Cardinality(C) <= k => h[C] = Minor(M, C, h)
           B == {k \in Nat : ~ \E h : Upto(h, k)}
<1>0. \A C \in SUBSET D : IsFiniteSet(C) /\ Cardinality(C) \in Nat /\ Cardinality(C) <= n0
  BY FS_Subset, FS_CardinalityType
<1>1. B = {}
  <2> SUFFICES ASSUME B # {} PROVE FALSE
    OBVIOUS
  <2>1. PICK k \in B : \A j \in B : k <= j
    <3>1. B \subseteq Nat
      OBVIOUS
    <3> HIDE DEF B
    <3> QED BY <3>1, LeastNumber
  <2>2. CASE k = 0
    <3> DEFINE h == [C \in SUBSET D |-> 1]
    <3>1. ASSUME NEW C \in SUBSET D, Cardinality(C) <= 0 PROVE h[C] = Minor(M, C, h)
      <4>1. C = {}
        BY <1>0, <3>1, FS_EmptySet
      <4> QED BY <4>1 DEF Minor
    <3>2. Upto(h, 0)
      BY <3>1
    <3> QED BY <2>1, <2>2, <3>2
  <2>3. CASE k # 0
    <3>1. k - 1 \in Nat /\ k - 1 \notin B /\ k \in Nat
      BY <2>1, <2>3
    <3>2. PICK g : Upto(g, k - 1)
      BY <3>1
    <3> DEFINE h == [C \in SUBSET D |-> IF Cardinality(C) = k THEN Minor(M, C, g) ELSE g[C]]
    <3>3. ASSUME NEW C \in SUBSET D, Cardinality(C) <= k PROVE h[C] = Minor(M, C, h)
      <4>1. ASSUME NEW j \in C PROVE h[C \ {j}] = g[C \ {j}]
        <5>1. C \ {j} \in SUBSET D /\ Cardinality(C \ {j}) = Cardinality(C) - 1
          BY <1>0, FS_RemoveElement
        <5>2. Cardinality(C \ {j}) # k
          BY <1>0, <3>1, <3>3, <5>1
        <5> QED BY <5>1, <5>2
      <4> HIDE DEF h
      <4>2. Minor(M, C, h) = Minor(M, C, g)
        BY <1>0, <4>1, MinorAgrees
      <4>3. h[C] = Minor(M, C, g)
        <5>1. CASE Cardinality(C) = k
          BY <5>1 DEF h
        <5>2. CASE Cardinality(C) # k
          <6>1. Cardinality(C) <= k - 1
            BY <1>0, <3>1, <3>3, <5>2
          <6>2. g[C] = Minor(M, C, g)
            BY <3>2, <6>1
          <6> QED BY <5>2, <6>2 DEF h
        <5> QED BY <5>1, <5>2
      <4> QED BY <4>2, <4>3
    <3> HIDE DEF h
    <3>4. Upto(h, k)
      BY <3>3
    <3> QED BY <2>1, <3>4
  <2> QED BY <2>2, <2>3
<1>2. PICK h0 : Upto(h0, n0)
  <2>1. n0 \in Nat
    BY <1>0
  <2> QED BY <1>1, <2>1
<1> DEFINE h == [C \in SUBSET D |-> h0[C]]
<1>3. ASSUME NEW C \in SUBSET D PROVE h[C] = Minor(M, C, h)
  <2>1. h[C] = h0[C] /\ h0[C] = Minor(M, C, h0)
    BY <1>0, <1>2
  <2>2. \A j \in C : h[C \ {j}] = h0[C \ {j}]
    OBVIOUS
  <2> HIDE DEF h
  <2>3. Minor(M, C, h) = Minor(M, C, h0)
    BY <1>0, <2>2, MinorAgrees
  <2> QED BY <2>1, <2>3
<1>4. h = [C \in SUBSET D |-> h[C]]
  OBVIOUS
<1> HIDE DEF h
<1>5. h = [C \in SUBSET D |-> Minor(M, C, h)]
  BY <1>3, <1>4
<1> QED BY <1>5

(* The determinant of a square of integers is an integer.                  *)
LEMMA DetInt ==
  ASSUME NEW N \in Nat, NEW M \in [1 .. N -> [1 .. N -> Int]]
  PROVE  Det(M) \in Int
<1> DEFINE D == DOMAIN M
           h == CHOOSE g : Minors(M, g)
<1>1. D = 1 .. N /\ IsFiniteSet(D) /\ Cardinality(D) = N
  BY FS_Interval
<1>2. Len(M) = N
  BY LenProperties, IsASeq
<1>3. \E g : Minors(M, g)
  BY <1>1, MinorsExist, MinorsAre
<1>4. Minors(M, h)
  BY <1>3
<1> HIDE DEF h
<1>5. h = [C \in SUBSET D |-> Minor(M, C, h)]
  BY <1>4, MinorsAre
<1>6. \A C \in SUBSET D : h[C] = Minor(M, C, h) /\ IsFiniteSet(C) /\ Cardinality(C) \in Nat /\ Cardinality(C) <= N
  BY <1>1, <1>5, FS_Subset, FS_CardinalityType
<1> DEFINE B == {C \in SUBSET D : h[C] \notin Int}
<1>7. B = {}
  <2> SUFFICES ASSUME B # {} PROVE FALSE
    OBVIOUS
  <2>1. PICK C \in B : \A R \in B : ~(R \subseteq C /\ R # C)
    <3>1. B \subseteq SUBSET D
      OBVIOUS
    <3>2. B # {} /\ IsFiniteSet(D)
      BY <1>1
    <3> HIDE DEF B, D
    <3> QED BY <3>1, <3>2, SmallestBad
  <2>2. C \in SUBSET D /\ h[C] \notin Int
    BY <2>1
  <2>3. C # {}
    <3>1. C = {} => h[C] = 1
      BY <1>6, <2>2 DEF Minor
    <3> QED BY <2>2, <3>1
  <2>4. Along(M, C) \in [1 .. N -> Int]
    <3>1. Cardinality(C) >= 1 /\ Cardinality(C) <= N /\ Cardinality(C) \in Nat
      BY <1>6, <2>2, <2>3, FS_EmptySet
    <3>2. N - Cardinality(C) + 1 \in 1 .. N
      BY <3>1
    <3> QED BY <1>2, <3>2 DEF Along
  <2> DEFINE e == Expanded(M, C, h)
  <2>5. ASSUME NEW j \in C PROVE e[j] \in Int
    <3>1. C \ {j} \in SUBSET D /\ C \ {j} \notin B
      BY <2>1, <2>2
    <3>2. h[C \ {j}] \in Int
      BY <3>1
    <3>3. Along(M, C)[j] \in Int /\ SignOf(C, j) \in Int
      BY <1>1, <2>2, <2>4 DEF SignOf
    <3>4. SignOf(C, j) * Along(M, C)[j] * h[C \ {j}] \in Int
      BY <3>2, <3>3
    <3> QED BY <3>3, <3>4 DEF Expanded, Entry
  <2> HIDE DEF e
  <2>6. Total(e, C) \in Int
    BY <1>6, <2>2, <2>5, TotalInt
  <2>7. h[C] = Total(e, C)
    BY <1>6, <2>2, <2>3 DEF Minor, e
  <2> QED BY <2>2, <2>6, <2>7
<1>8. h[D] \in Int
  BY <1>7
<1> QED BY <1>8, DetIs DEF h

----------------------------------------------------------------------------
(* What the assumptions say of a program.                                  *)

(* A program is a matrix and a vector of integers, over rows of integers.  *)
LEMMA ProgramFacts ==
  ASSUME NEW q \in QPs
  PROVE  /\ q.n \in Nat /\ Cols(q) = 1 .. q.n /\ IsFiniteSet(Cols(q))
         /\ Square(q.Q, Cols(q)) /\ DOMAIN q.Q = Cols(q) /\ \A i \in Cols(q) : q.Q[i] \in [Cols(q) -> Int]
         /\ q.c \in [Cols(q) -> Int]
         /\ Len(q.A) \in Nat /\ Rows(q) = 1 .. Len(q.A) /\ IsFiniteSet(Rows(q))
         /\ \A i \in Rows(q) : q.A[i] \in [Cols(q) -> Int]
         /\ q.b \in [Rows(q) -> Int]
         /\ q.x0 # <<>> => q.x0 \in [Cols(q) -> Int]
         /\ Starts[q.n] \subseteq [Cols(q) -> Int]
<1> DEFINE V == [1 .. q.n -> Int]
<1>1. /\ q.n \in Nat
      /\ q.Q \in [1 .. q.n -> V] /\ q.c \in V
      /\ q.A \in Seq(V) /\ q.b \in [1 .. Len(q.A) -> Int]
      /\ q.x0 # <<>> => q.x0 \in V
      /\ Starts[q.n] \subseteq V
  BY ProgramsAssumption
<1>2. Cols(q) = 1 .. q.n /\ IsFiniteSet(Cols(q))
  BY <1>1, FS_Interval DEF Cols
<1>3. Len(q.A) \in Nat /\ Rows(q) = 1 .. Len(q.A) /\ \A i \in 1 .. Len(q.A) : q.A[i] \in V
  <2> HIDE DEF V
  <2> QED BY <1>1, LenProperties, ElementOfSeq DEF Rows
<1>4. IsFiniteSet(Rows(q))
  BY <1>3, FS_Interval
<1>5. Square(q.Q, Cols(q)) /\ DOMAIN q.Q = Cols(q) /\ \A i \in Cols(q) : q.Q[i] \in [Cols(q) -> Int]
  BY <1>1, <1>2 DEF Square
<1> QED BY <1>1, <1>2, <1>3, <1>4, <1>5

(* The model's products are inner products.                                *)
LEMMA DotIsInner ==
  ASSUME NEW u, NEW v, NEW C, DOMAIN u = C
  PROVE  Dot(u, v) = Inner(u, v, C)
BY TotalOfProducts DEF Dot, Inner

(* So products of integer vectors are integers.                            *)
LEMMA DotInt ==
  ASSUME NEW C, IsFiniteSet(C), NEW u \in [C -> Int], NEW v \in [C -> Int]
  PROVE  Dot(u, v) \in Int
BY DotIsInner, InnerInt

(* The curvature is the quadratic form.                                    *)
LEMMA CurvatureIsForm ==
  ASSUME NEW q \in QPs, NEW e \in [Cols(q) -> Int]
  PROVE  Curvature(q, e) = Form(q.Q, e, Cols(q)) /\ Curvature(q, e) \in Int
<1> DEFINE C == Cols(q)
           h == Apply(q.Q, e)
<1>1. IsFiniteSet(C) /\ Square(q.Q, C) /\ DOMAIN q.Q = C /\ \A i \in C : q.Q[i] \in [C -> Int]
  BY ProgramFacts
<1>2. \A i \in C : h[i] = Inner(q.Q[i], e, C)
  BY <1>1, DotIsInner DEF Apply
<1> HIDE DEF h, C
<1>3. Form(q.Q, e, C) = Inner(e, h, C)
  BY <1>2, FormIsInner
<1>4. DOMAIN e = C
  BY DEF C
<1>5. Dot(e, h) = Inner(e, h, C)
  BY <1>4, DotIsInner
<1>6. Form(q.Q, e, C) \in Int
  <2>1. Vector(e, C)
    BY DEF Vector, C
  <2> QED BY <1>1, <2>1, FormInt
<1> QED BY <1>3, <1>5, <1>6 DEF Curvature, h, C

(* Row residuals and gradients at points are integers.                     *)
LEMMA ResidInt ==
  ASSUME NEW q \in QPs, NEW y, IsPoint(y, Cols(q))
  PROVE  /\ \A i \in Rows(q) : Resid(q, i, y) \in Int /\ Dot(q.A[i], y.v) \in Int
         /\ Gradient(q, y) \in [Cols(q) -> Int]
<1>1. y.v \in [Cols(q) -> Int] /\ y.d \in Int
  BY DEF IsPoint
<1>2. ASSUME NEW i \in Rows(q) PROVE Resid(q, i, y) \in Int /\ Dot(q.A[i], y.v) \in Int
  <2>1. Dot(q.A[i], y.v) \in Int
    BY <1>1, ProgramFacts, DotInt
  <2>2. q.b[i] \in Int
    BY ProgramFacts
  <2> QED BY <1>1, <2>1, <2>2 DEF Resid
<1>3. ASSUME NEW j \in Cols(q) PROVE Dot(q.Q[j], y.v) + q.c[j] * y.d \in Int
  <2>1. Dot(q.Q[j], y.v) \in Int
    BY <1>1, ProgramFacts, DotInt
  <2>2. q.c[j] \in Int
    BY ProgramFacts
  <2> QED BY <1>1, <2>1, <2>2
<1> QED BY <1>2, <1>3 DEF Gradient

(* Over all integer directions, a program is convex just when its form     *)
(* takes no negative value.                                                *)
LEMMA ConvexIs ==
  ASSUME Scalars = Int, NEW q \in QPs
  PROVE  Convex(q) <=> NonNegative(q.Q, Cols(q), Cols(q))
BY CurvatureIsForm DEF Convex, Trials, NonNegative

(* There are finitely many functions from a finite set into another.       *)
LEMMA FunctionsFinite ==
  ASSUME NEW D, IsFiniteSet(D), NEW R, IsFiniteSet(R)
  PROVE  IsFiniteSet([D -> R])
<1> DEFINE graph == [p \in [D -> R] |-> {<<j, p[j]>> : j \in D}]
<1>1. IsFiniteSet(SUBSET (D \X R))
  BY FS_Product, FS_SUBSET
<1>2. graph \in Injection([D -> R], SUBSET (D \X R))
  <2>1. ASSUME NEW p \in [D -> R]  PROVE graph[p] \in SUBSET (D \X R)
    OBVIOUS
  <2>2. ASSUME NEW p \in [D -> R], NEW q \in [D -> R], graph[p] = graph[q]
        PROVE  p = q
    <3>1. ASSUME NEW j \in D  PROVE p[j] = q[j]
      <4>1. <<j, p[j]>> \in graph[q]  BY <2>2
      <4> QED BY <4>1
    <3> QED BY <3>1
  <2>3. graph \in [[D -> R] -> SUBSET (D \X R)]  BY <2>1
  <2> HIDE DEF graph
  <2> QED BY <2>2, <2>3 DEF Injection, IsInjective
<1> QED BY <1>1, <1>2, FS_Injection

----------------------------------------------------------------------------
(* A step of the active set: integers over a positive denominator.         *)
IsStep(q, w, step) ==
  /\ step.p \in [Cols(q) -> Int] /\ step.d \in Nat \ {0}
  /\ step.mu \in [1 .. Len(w) -> Int]

(* The KKT matrix is a square of integers.                                 *)
LEMMA KktSquare ==
  ASSUME NEW q \in QPs, NEW w \in Seq(Rows(q)), NEW H, Square(H, Cols(q)), NEW N, N = q.n + Len(w)
  PROVE  N \in Nat /\ Len(w) \in Nat /\ Kkt(q, w, H) \in [1 .. N -> [1 .. N -> Int]]
<1>1. q.n \in Nat /\ Len(w) \in Nat /\ \A r \in 1 .. Len(w) : w[r] \in Rows(q)
  <2> DEFINE R == Rows(q)
  <2>1. w \in Seq(R)
    OBVIOUS
  <2> HIDE DEF R
  <2>2. Len(w) \in Nat /\ \A r \in 1 .. Len(w) : w[r] \in R
    BY <2>1, LenProperties, ElementOfSeq
  <2> QED BY <2>2, ProgramFacts DEF R
<1>2. \A i \in Rows(q) : \A j \in 1 .. q.n : q.A[i][j] \in Int
  BY ProgramFacts
<1> DEFINE E(i, j) == IF i <= q.n /\ j <= q.n THEN H[i][j]
                      ELSE IF i <= q.n THEN q.A[w[j - q.n]][i]
                      ELSE IF j <= q.n THEN q.A[w[i - q.n]][j] ELSE 0
<1>3. ASSUME NEW i \in 1 .. N, NEW j \in 1 .. N PROVE E(i, j) \in Int
  <2>1. CASE i <= q.n /\ j <= q.n
    <3>1. i \in 1 .. q.n /\ j \in 1 .. q.n
      BY <1>1, <2>1
    <3>2. H[i][j] \in Int
      BY <3>1 DEF Square, Cols
    <3> QED BY <2>1, <3>2
  <2>2. CASE i <= q.n /\ ~(j <= q.n)
    <3>1. i \in 1 .. q.n /\ j - q.n \in 1 .. Len(w)
      BY <1>1, <2>2
    <3> QED BY <1>1, <1>2, <2>2, <3>1
  <2>3. CASE ~(i <= q.n) /\ j <= q.n
    <3>1. j \in 1 .. q.n /\ i - q.n \in 1 .. Len(w)
      BY <1>1, <2>3
    <3> QED BY <1>1, <1>2, <2>3, <3>1
  <2>4. CASE ~(i <= q.n) /\ ~(j <= q.n)
    BY <2>4
  <2> QED BY <2>1, <2>2, <2>3, <2>4
<1>4. Kkt(q, w, H) = [i \in 1 .. N |-> [j \in 1 .. N |-> E(i, j)]]
  BY DEF Kkt
<1> HIDE DEF E
<1>5. [i \in 1 .. N |-> [j \in 1 .. N |-> E(i, j)]] \in [1 .. N -> [1 .. N -> Int]]
  BY <1>3
<1>6. N \in Nat
  BY <1>1
<1> QED BY <1>1, <1>4, <1>5, <1>6

(* Parts of a point are vectors.                                           *)
LEMMA PartsAre ==
  ASSUME NEW n \in Nat, NEW k \in Nat, NEW v \in [1 .. n + k -> Int]
  PROVE  /\ SubSeq(v, 1, n) \in [1 .. n -> Int]
         /\ SubSeq(v, n + 1, n + k) \in [1 .. k -> Int]
<1> DEFINE a == SubSeq(v, 1, n)
           b == SubSeq(v, n + 1, n + k)
<1>1. \A i \in 1 .. n + k : v[i] \in Int
  OBVIOUS
<1>2. a \in Seq(Int) /\ Len(a) = IF 1 <= n THEN n - 1 + 1 ELSE 0
  <2>1. \A i \in 1 .. n : v[i] \in Int
    BY <1>1
  <2> QED BY <2>1, SubSeqProperties
<1>3. b \in Seq(Int) /\ Len(b) = IF n + 1 <= n + k THEN (n + k) - (n + 1) + 1 ELSE 0
  <2>1. \A i \in n + 1 .. n + k : v[i] \in Int
    BY <1>1
  <2> QED BY <2>1, SubSeqProperties
<1>4. Len(a) = n /\ Len(b) = k
  BY <1>2, <1>3
<1> HIDE DEF a, b
<1>5. a \in [1 .. n -> Int] /\ b \in [1 .. k -> Int]
  BY <1>2, <1>3, <1>4, LenProperties
<1> QED BY <1>5 DEF a, b

(* Cramer's rule on integers gives a step.                                 *)
LEMMA SolutionIsStep ==
  ASSUME NEW q \in QPs, NEW w \in Seq(Rows(q)), NEW H, Square(H, Cols(q)),
         NEW g \in [Cols(q) -> Int], NEW d \in Nat \ {0}, Det(Kkt(q, w, H)) # 0
  PROVE  IsStep(q, w, Solution(q, w, Kkt(q, w, H), g, d))
<1> DEFINE K == Kkt(q, w, H)
           N == q.n + Len(w)
<1>1. q.n \in Nat /\ N \in Nat /\ Len(w) \in Nat /\ K \in [1 .. N -> [1 .. N -> Int]]
  BY KktSquare, ProgramFacts
<1>2. DOMAIN K = 1 .. N /\ Len(K) = N /\ \A i \in 1 .. N : K[i] \in [1 .. N -> Int]
  <2> HIDE DEF K, N
  <2>1. Len(K) = N
    BY <1>1, LenProperties, IsASeq
  <2> QED BY <1>1, <2>1
<1>3. Det(K) # 0
  OBVIOUS
<1> DEFINE rhs == [i \in DOMAIN K |-> IF i <= q.n THEN -g[i] ELSE 0]
           L(c) == [i \in DOMAIN K |-> [K[i] EXCEPT ![c] = rhs[i]]]
           v == [c \in DOMAIN K |-> Det(L(c))]
           s == Point(v, Det(K) * d)
<1> HIDE DEF K, N
<1>4. \A i \in 1 .. N : rhs[i] \in Int
  <2>1. \A i \in 1 .. q.n : -g[i] \in Int
    BY DEF Cols
  <2> QED BY <1>1, <1>2, <2>1
<1> HIDE DEF rhs
<1>5. \A c \in 1 .. N : L(c) \in [1 .. N -> [1 .. N -> Int]]
  BY <1>2, <1>4
<1> HIDE DEF L
<1>6. v \in [1 .. N -> Int]
  BY <1>1, <1>2, <1>5, DetInt
<1>7. Det(K) * d \in Int /\ Det(K) * d # 0
  <2>1. Det(K) \in Int
    BY <1>1, DetInt
  <2> QED BY <1>3, <2>1
<1> HIDE DEF v
<1>8. IsPoint(s, 1 .. N)
  BY <1>6, <1>7, PointIsPoint
<1>9. Solution(q, w, K, g, d) =
        [p |-> SubSeq(s.v, 1, q.n), d |-> s.d, mu |-> SubSeq(s.v, q.n + 1, Len(K)), flat |-> FALSE]
  BY DEF Solution, v, L, rhs
<1> HIDE DEF s
<1>10. s.v \in [1 .. q.n + Len(w) -> Int] /\ s.d \in Nat \ {0}
  BY <1>8 DEF IsPoint, N
<1>11. SubSeq(s.v, 1, q.n) \in [1 .. q.n -> Int] /\ SubSeq(s.v, q.n + 1, Len(K)) \in [1 .. Len(w) -> Int]
  BY <1>1, <1>2, <1>10, PartsAre DEF N
<1>12. IsStep(q, w, Solution(q, w, K, g, d))
  BY <1>9, <1>10, <1>11 DEF IsStep, Cols
<1> QED BY <1>12 DEF K

(* There are finitely many flat directions, and the regularized matrix is  *)
(* one of integers.                                                        *)
LEMMA RegularizedSquare ==
  ASSUME NEW q \in QPs, NEW es, es \subseteq Directions(q)
  PROVE  Square(Regularized(q, es), Cols(q))
<1> DEFINE C == Cols(q)
<1>1. Span \in Nat /\ IsFiniteSet(C) /\ Square(q.Q, C)
  BY BoundsAssumption, ProgramFacts
<1>2. IsFiniteSet(-Span .. Span) /\ -Span .. Span \subseteq Int
  BY <1>1, FS_Interval
<1>3. IsFiniteSet(es)
  BY <1>1, <1>2, FunctionsFinite, FS_Subset DEF Directions
<1>4. ASSUME NEW i \in C, NEW j \in C
      PROVE  MapThenSumSet(LAMBDA e : e[i] * e[j], es) \in Int
  <2> DEFINE f == [e \in es |-> e[i] * e[j]]
  <2>1. \A e \in es : f[e] \in Int
    BY <1>2 DEF Directions
  <2>2. MapThenSumSet(LAMBDA e : e[i] * e[j], es) = Total(f, es)
    BY DEF Total, MapThenSumSet, MapThenFoldSet
  <2> HIDE DEF f
  <2>3. Total(f, es) \in Int
    BY <1>3, <2>1, TotalInt
  <2> QED BY <2>2, <2>3
<1> DEFINE T(i, j) == MapThenSumSet(LAMBDA e : e[i] * e[j], es)
<1>5. \A i, j \in C : T(i, j) \in Int
  BY <1>4
<1>6. Regularized(q, es) = [i \in C |-> [j \in C |-> q.Q[i][j] + T(i, j)]]
  BY DEF Regularized
<1> HIDE DEF T
<1> QED BY <1>1, <1>5, <1>6 DEF Square

(* Whatever a KKT system is solved by is a step.                           *)
LEMMA SolvesWithSteps ==
  ASSUME NEW q \in QPs, NEW w \in Seq(Rows(q)), NEW y, IsPoint(y, Cols(q)),
         NEW step \in SolveKkt(q, w, y)
  PROVE  IsStep(q, w, step)
<1> DEFINE g == Gradient(q, y)
           es == Null(q, w)
           R == Regularized(q, es)
<1>1. g \in [Cols(q) -> Int] /\ y.d \in Nat \ {0}
  BY ResidInt DEF IsPoint
<1>2. es \subseteq Directions(q)
  BY DEF Null
<1> HIDE DEF es, g
<1>3. Square(q.Q, Cols(q)) /\ Square(R, Cols(q))
  BY <1>2, ProgramFacts, RegularizedSquare
<1> HIDE DEF R
<1>4. \/ Det(Kkt(q, w, q.Q)) # 0 /\ step = Solution(q, w, Kkt(q, w, q.Q), g, y.d)
      \/ \E e \in FlatDescents(w, g, es) :
           step = [p |-> [j \in Cols(q) |-> Far * e[j]], d |-> 1, mu |-> Zeros(Len(w)), flat |-> TRUE]
      \/ Det(Kkt(q, w, R)) # 0 /\ step = Solution(q, w, Kkt(q, w, R), g, y.d)
  BY DEF SolveKkt, g, es, R
<1>5. CASE Det(Kkt(q, w, q.Q)) # 0 /\ step = Solution(q, w, Kkt(q, w, q.Q), g, y.d)
  BY <1>1, <1>3, <1>5, SolutionIsStep
<1>6. CASE Det(Kkt(q, w, R)) # 0 /\ step = Solution(q, w, Kkt(q, w, R), g, y.d)
  BY <1>1, <1>3, <1>6, SolutionIsStep
<1>7. CASE \E e \in FlatDescents(w, g, es) :
             step = [p |-> [j \in Cols(q) |-> Far * e[j]], d |-> 1, mu |-> Zeros(Len(w)), flat |-> TRUE]
  <2>1. PICK e \in FlatDescents(w, g, es) :
          step = [p |-> [j \in Cols(q) |-> Far * e[j]], d |-> 1, mu |-> Zeros(Len(w)), flat |-> TRUE]
    BY <1>7
  <2>2. e \in [Cols(q) -> -Span .. Span] /\ Far \in Int /\ Span \in Int
    BY <1>2, BoundsAssumption DEF FlatDescents, Directions
  <2>3. [j \in Cols(q) |-> Far * e[j]] \in [Cols(q) -> Int]
    BY <2>2
  <2>4. Zeros(Len(w)) \in [1 .. Len(w) -> Int]
    BY DEF Zeros
  <2> QED BY <2>1, <2>3, <2>4 DEF IsStep
<1> QED BY <1>4, <1>5, <1>6, <1>7

(* The room to a row is an integer, no room being zero.                    *)
LEMMA RoomInt ==
  ASSUME qp \in QPs, IsPoint(x, Cols(qp)), NEW step, IsStep(qp, W, step), NEW i \in Rows(qp)
  PROVE  Room(i, step) \in Int /\ Speed(i, step) \in Int
<1>1. Resid(qp, i, x) \in Int
  BY ResidInt
<1> DEFINE a == -Resid(qp, i, x)
<1>2. a \in Int
  BY <1>1
<1> HIDE DEF a
<1>3. \E m \in {0, a} : \A k \in {0, a} : m >= k
  BY <1>2
<1>4. Max({0, a}) \in {0, a}
  BY <1>3 DEF Max
<1>5. Max({0, a}) \in Int /\ step.d \in Int
  BY <1>2, <1>4 DEF IsStep
<1>6. Room(i, step) \in Int
  BY <1>5 DEF Room, a
<1>7. Speed(i, step) \in Int
  BY ProgramFacts, DotInt DEF Speed, IsStep
<1> QED BY <1>6, <1>7

(* A move by a step leads to a point.                                      *)
LEMMA MovesToPoints ==
  ASSUME qp \in QPs, IsPoint(x, Cols(qp)), NEW step, IsStep(qp, W, step),
         NEW num \in Int, NEW den \in Int, den > 0
  PROVE  IsPoint(Moved(step, num, den), Cols(qp))
<1> DEFINE C == Cols(qp)
           v == [j \in C |-> x.v[j] * step.d * den + num * step.p[j] * x.d]
           d == x.d * step.d * den
<1>1. x.v \in [C -> Int] /\ step.p \in [C -> Int] /\ x.d \in Nat \ {0} /\ step.d \in Nat \ {0}
  BY DEF IsPoint, IsStep
<1>2. v \in [C -> Int]
  BY <1>1
<1>3. d \in Int /\ d # 0
  <2>1. \A a, b, c \in Int : a > 0 /\ b > 0 /\ c > 0 => a * b * c > 0 /\ a * b * c \in Int
    <3> TAKE a, b, c \in Int
    <3>1. a > 0 /\ b > 0 => a * b > 0
      OBVIOUS
    <3> DEFINE t == a * b
    <3>2. t \in Int
      OBVIOUS
    <3> HIDE DEF t
    <3>3. t > 0 /\ c > 0 => t * c > 0
      BY <3>2
    <3> QED BY <3>1, <3>2, <3>3 DEF t
  <2> QED BY <1>1, <2>1
<1>4. Moved(step, num, den) = Point(v, d)
  BY DEF Moved
<1> HIDE DEF v, d, C
<1>5. IsPoint(Point(v, d), C)
  BY <1>2, <1>3, PointIsPoint
<1> QED BY <1>4, <1>5 DEF C

(* The multipliers concluded with are a point over the rows.               *)
LEMMA MultipliersArePoint ==
  ASSUME qp \in QPs, W \in Seq(Rows(qp)), NEW step, IsStep(qp, W, step)
  PROVE  IsPoint(RowMultipliers(step), Rows(qp))
<1>1. Len(W) \in Nat /\ DOMAIN W = 1 .. Len(W)
  <2> DEFINE R == Rows(qp)
  <2>1. W \in Seq(R)
    OBVIOUS
  <2> HIDE DEF R
  <2> QED BY <2>1, LenProperties
<1>2. IsFiniteSet(DOMAIN W) /\ \A r \in DOMAIN W : step.mu[r] \in Int
  <2>1. IsFiniteSet(1 .. Len(W))
    BY <1>1, FS_Interval
  <2>2. step.mu \in [1 .. Len(W) -> Int]
    BY DEF IsStep
  <2> QED BY <1>1, <2>1, <2>2
<1>3. ASSUME NEW i \in Rows(qp)
      PROVE  MapThenSumSet(LAMBDA r : IF W[r] = i THEN step.mu[r] ELSE 0, DOMAIN W) \in Int
  <2> DEFINE f == [r \in DOMAIN W |-> IF W[r] = i THEN step.mu[r] ELSE 0]
  <2>1. \A r \in DOMAIN W : f[r] \in Int
    BY <1>2
  <2>2. MapThenSumSet(LAMBDA r : IF W[r] = i THEN step.mu[r] ELSE 0, DOMAIN W) = Total(f, DOMAIN W)
    BY DEF Total, MapThenSumSet, MapThenFoldSet
  <2> HIDE DEF f
  <2>3. Total(f, DOMAIN W) \in Int
    BY <1>2, <2>1, TotalInt
  <2> QED BY <2>2, <2>3
<1> DEFINE m(i) == MapThenSumSet(LAMBDA r : IF W[r] = i THEN step.mu[r] ELSE 0, DOMAIN W)
<1>4. \A i \in Rows(qp) : m(i) \in Int
  BY <1>3
<1>5. RowMultipliers(step) = [v |-> [i \in Rows(qp) |-> m(i)], d |-> step.d]
  BY DEF RowMultipliers
<1> HIDE DEF m
<1> QED BY <1>4, <1>5 DEF IsPoint, IsStep

(* Rows leave and join working sets.                                       *)
LEMMA WorkingSetChanges ==
  ASSUME NEW q, NEW w \in Seq(Rows(q))
  PROVE  /\ \A r \in DOMAIN w : Dropped(w, r) \in Seq(Rows(q))
         /\ \A i \in Rows(q) : Joined(q, w, i) \in Seq(Rows(q))
         /\ w # <<>> => Front(w) \in Seq(Rows(q))
<1> DEFINE R == Rows(q)
<1>1. w \in Seq(R)
  OBVIOUS
<1> HIDE DEF R
<1>2. Len(w) \in Nat /\ DOMAIN w = 1 .. Len(w) /\ \A k \in 1 .. Len(w) : w[k] \in R
  BY <1>1, LenProperties, ElementOfSeq
<1>3. ASSUME NEW r \in DOMAIN w PROVE Dropped(w, r) \in Seq(R)
  <2>1. Len(w) \in 1 .. Len(w)
    BY <1>2
  <2> DEFINE z == [w EXCEPT ![r] = w[Len(w)]]
             n == Len(w) - 1
  <2>2. \A k \in 1 .. n : z[k] \in R
    BY <1>2, <2>1
  <2>3. n \in Int
    BY <1>2
  <2> HIDE DEF z, n
  <2>4. SubSeq(z, 1, n) \in Seq(R)
    BY <2>2, <2>3, SubSeqProperties
  <2> QED BY <2>4 DEF Dropped, z, n
<1>4. ASSUME NEW i \in R PROVE Joined(q, w, i) \in Seq(R)
  <2>1. Append(w, i) \in Seq(R)
    BY <1>1, AppendProperties
  <2> QED BY <1>1, <2>1 DEF Joined
<1>5. Front(w) \in Seq(R)
  <2> DEFINE n == Len(w) - 1
  <2>1. n \in Int /\ \A k \in 1 .. n : w[k] \in R
    BY <1>2
  <2> HIDE DEF n
  <2>2. SubSeq(w, 1, n) \in Seq(R)
    BY <2>1, SubSeqProperties
  <2> QED BY <2>2 DEF Front, n
<1> QED BY <1>3, <1>4, <1>5 DEF R

----------------------------------------------------------------------------
(* The types, one action at a time.                                        *)
Statuses == {Unset, SOLVED, UNBOUNDED, QP_ITERATION_LIMIT, QP_KKT_FAIL, QP_NON_CONVEX, QP_STOPPED, NO_START}

QpTypes ==
  /\ qp \in QPs /\ left \subseteq Cols(qp)
  /\ IsPoint(x, Cols(qp)) /\ W \in Seq(Rows(qp))
  /\ status \in Statuses
  /\ pc = "active" \/ status = SOLVED => IsPoint(mult, Rows(qp))
  /\ status = UNBOUNDED => ray \in [Cols(qp) -> Int]
  /\ farkas # None => farkas \in [Rows(qp) -> Int]

(* Verdicts are told apart by their names.                                 *)
LEMMA StatusesDiffer ==
  /\ SOLVED \notin {Unset, UNBOUNDED, QP_ITERATION_LIMIT, QP_KKT_FAIL, QP_NON_CONVEX, QP_STOPPED, NO_START}
  /\ UNBOUNDED \notin {Unset, QP_ITERATION_LIMIT, QP_KKT_FAIL, QP_NON_CONVEX, QP_STOPPED, NO_START}
  /\ QP_NON_CONVEX \notin {Unset, QP_ITERATION_LIMIT, QP_KKT_FAIL, QP_STOPPED, NO_START}
  /\ NO_START \notin {Unset, QP_ITERATION_LIMIT, QP_KKT_FAIL, QP_STOPPED}
  /\ QP_KKT_FAIL \notin {Unset, QP_ITERATION_LIMIT, QP_STOPPED}
  /\ \A s \in Statuses : s \notin {"SOLUTION", "INCUMBENT", "PROVEN"}
  /\ {SOLVED, UNBOUNDED, QP_ITERATION_LIMIT, QP_KKT_FAIL, QP_NON_CONVEX, QP_STOPPED, NO_START} \subseteq Statuses
BY DEF Statuses, Unset, SOLVED, UNBOUNDED, QP_ITERATION_LIMIT, QP_KKT_FAIL, QP_NON_CONVEX, QP_STOPPED, NO_START

(* The points solves start from.                                           *)
LEMMA StartsArePoints ==
  ASSUME qp \in QPs
  PROVE  /\ IsPoint(Point(Zeros(qp.n), 1), Cols(qp)) /\ IsPoint(Base, Cols(qp))
         /\ IsPoint(Point(Zeros(Len(qp.A)), 1), Rows(qp))
         /\ \A y \in Starts[qp.n] : IsPoint(Point(y, 1), Cols(qp))
<1>1. Zeros(qp.n) \in [Cols(qp) -> Int] /\ Zeros(Len(qp.A)) \in [Rows(qp) -> Int]
  BY ProgramFacts DEF Zeros
<1>2. qp.x0 # <<>> => qp.x0 \in [Cols(qp) -> Int]
  BY ProgramFacts
<1>3. \A y \in Starts[qp.n] : y \in [Cols(qp) -> Int]
  BY ProgramFacts
<1>4. \A C, v : v \in [C -> Int] => IsPoint(Point(v, 1), C)
  BY PointIsPoint
<1> QED BY <1>1, <1>2, <1>3, <1>4 DEF Base, None

(* Entering the active set, iterating, leaving it, and rejecting.          *)
LEMMA EnterTypes ==
  ASSUME QpTypes, NEW y, IsPoint(y, Cols(qp)), EnterActive(y)
  PROVE  QpTypes'
<1>1. WorkingSet(qp, y) \in Seq(Rows(qp))
  BY ProgramFacts, WorkingSetOfRows DEF QpTypes
<1>2. /\ qp' = qp /\ left' = left /\ status' = status /\ ray' = ray /\ farkas' = farkas
      /\ x' = y /\ W' = WorkingSet(qp, y) /\ mult' = Point(Zeros(Len(qp.A)), 1)
  BY DEF EnterActive
<1>3. IsPoint(mult', Rows(qp))
  BY <1>2, StartsArePoints DEF QpTypes
<1> QED BY <1>1, <1>2, <1>3 DEF QpTypes

(* An iteration from a point and a working set.                            *)
LEMMA IteratedTypes ==
  ASSUME QpTypes, pc = "active", NEW y, IsPoint(y, Cols(qp)), NEW w \in Seq(Rows(qp)), Iterated(y, w)
  PROVE  QpTypes'
BY DEF QpTypes, Iterated, result

(* Leaving the loop, with multipliers or a ray where the verdict has them. *)
LEMMA LeaveTypes ==
  ASSUME QpTypes, pc = "active", NEW s \in Statuses, Leave(s),
         \/ s \notin {SOLVED, UNBOUNDED} /\ mult' = mult /\ ray' = ray
         \/ s = SOLVED /\ IsPoint(mult', Rows(qp)) /\ ray' = ray
         \/ s = UNBOUNDED /\ mult' = mult /\ ray' \in [Cols(qp) -> Int]
  PROVE  QpTypes'
<1>1. /\ qp' = qp /\ left' = left /\ status' = s /\ farkas' = farkas
      /\ x' = x /\ W' = W /\ pc' = "done"
  BY DEF Leave
<1> QED BY <1>1, StatusesDiffer DEF QpTypes

(* A verdict without a point.                                              *)
LEMMA RejectTypes ==
  ASSUME QpTypes, NEW s \in Statuses \ {SOLVED, UNBOUNDED}, Reject(s)
  PROVE  QpTypes'
BY DEF QpTypes, Reject

(* The gate keeps the types.                                               *)
LEMMA GateTypes == ASSUME QpTypes, Gate PROVE QpTypes'
<1>1. CASE GateAsymmetric \/ GateRejects
  <2>1. Reject(QP_NON_CONVEX) /\ QP_NON_CONVEX \in Statuses \ {SOLVED, UNBOUNDED}
    BY <1>1, StatusesDiffer DEF GateAsymmetric, GateRejects
  <2> QED BY <2>1, RejectTypes
<1>2. CASE GatePivot
  BY <1>2 DEF GatePivot, QpTypes, result
<1>3. CASE GateAccepts
  <2>1. CASE EnterActive(Base)
    BY <2>1, StartsArePoints, EnterTypes DEF QpTypes
  <2>2. CASE ~EnterActive(Base)
    <3>1. /\ pc' = "start" /\ UNCHANGED <<qp, S, left, x, W, it, result, stop, printed>>
      BY <1>3, <2>2 DEF GateAccepts
    <3> QED BY <3>1 DEF QpTypes, result
  <2> QED BY <2>1, <2>2
<1> QED BY <1>1, <1>2, <1>3 DEF Gate

(* A proof has a multiplier for each row.                                  *)
LEMMA ProveTypes ==
  ASSUME QpTypes, NEW lam \in [Rows(qp) -> Multipliers], Prove(lam)
  PROVE  QpTypes'
<1>1. lam \in [Rows(qp) -> Int]
  BY NumbersAssumption
<1>2. /\ qp' = qp /\ left' = left /\ status' = NO_START /\ farkas' = lam /\ pc' = "done"
      /\ x' = x /\ W' = W /\ mult' = mult /\ ray' = ray
  BY DEF Prove
<1> QED BY <1>1, <1>2, StatusesDiffer DEF QpTypes

(* The searches for a start keep the types.                                *)
LEMMA FeasibleTypes == ASSUME QpTypes, FindFeasible PROVE QpTypes'
<1>1. CASE LpPoint \/ DensePoint
  <2>1. PICK y \in Starts[qp.n] : EnterActive(Point(y, 1))
    BY <1>1 DEF LpPoint, DensePoint
  <2> QED BY <2>1, StartsArePoints, EnterTypes DEF QpTypes
<1>2. CASE LpNothing \/ DenseNothing
  BY <1>2 DEF LpNothing, DenseNothing, NextSearch, Searching, QpTypes, result
<1>3. CASE LpProof \/ FarkasProof
  <2>1. PICK lam \in [Rows(qp) -> Multipliers] : Prove(lam)
    BY <1>3 DEF LpProof, FarkasProof
  <2> QED BY <2>1, ProveTypes
<1>4. CASE LpStopped
  BY <1>4, StartsArePoints, EnterTypes DEF LpStopped, QpTypes
<1>5. CASE DenseStopped \/ FarkasNothing
  <2>1. PICK s \in {QP_STOPPED, NO_START} : Reject(s)
    BY <1>5 DEF DenseStopped, FarkasNothing
  <2>2. s \in Statuses \ {SOLVED, UNBOUNDED}
    BY StatusesDiffer
  <2> QED BY <2>1, <2>2, RejectTypes
<1> QED BY <1>1, <1>2, <1>3, <1>4, <1>5 DEF FindFeasible

(* An iteration keeps the types: every step leads to a point over a        *)
(* positive denominator.                                                   *)
LEMMA IterateTypes == ASSUME QpTypes, Iterate PROVE QpTypes'
<1>1. PICK step \in SolveKkt(qp, W, x) : Stationary(step) \/ Unbounded(step) \/ Move(step)
  BY DEF Iterate
<1>2. IsStep(qp, W, step) /\ pc = "active" /\ IsPoint(x, Cols(qp)) /\ qp \in QPs /\ W \in Seq(Rows(qp))
  BY SolvesWithSteps DEF QpTypes, Iterate, InLoop
<1>3. CASE Stationary(step)
  <2>1. CASE DropRow(step)
    <3>1. PICK r \in DOMAIN W : Iterated(x, Dropped(W, r))
      BY <2>1 DEF DropRow
    <3> QED BY <1>2, <3>1, WorkingSetChanges, IteratedTypes
  <2>2. CASE Conclude(step)
    <3>1. \/ Leave(SOLVED) /\ mult' = RowMultipliers(step) /\ ray' = ray
          \/ Leave(QP_KKT_FAIL) /\ mult' = mult /\ ray' = ray
      BY <2>2 DEF Conclude
    <3>2. IsPoint(RowMultipliers(step), Rows(qp))
      BY <1>2, MultipliersArePoint
    <3>3. /\ SOLVED \in Statuses /\ QP_KKT_FAIL \in Statuses
          /\ QP_KKT_FAIL \notin {SOLVED, UNBOUNDED}
      BY StatusesDiffer
    <3> QED BY <1>2, <3>1, <3>2, <3>3, LeaveTypes
  <2> QED BY <1>3, <2>1, <2>2 DEF Stationary
<1>4. CASE Unbounded(step)
  <2>1. Leave(UNBOUNDED) /\ ray' = step.p /\ mult' = mult
    BY <1>4 DEF Unbounded
  <2>2. step.p \in [Cols(qp) -> Int]
    BY <1>2 DEF IsStep
  <2>3. UNBOUNDED \in Statuses
    BY StatusesDiffer
  <2> QED BY <1>2, <2>1, <2>2, <2>3, LeaveTypes
<1>5. CASE Move(step)
  <2>1. CASE \E i \in Rows(qp) :
               /\ Blocks(i, step)
               /\ Iterated(Moved(step, Room(i, step), x.d * Speed(i, step)), Joined(qp, W, i))
    <3>1. PICK i \in Rows(qp) :
               /\ Blocks(i, step)
               /\ Iterated(Moved(step, Room(i, step), x.d * Speed(i, step)), Joined(qp, W, i))
      BY <2>1
    <3> DEFINE den == x.d * Speed(i, step)
    <3>2. Room(i, step) \in Int /\ Speed(i, step) \in Int /\ Speed(i, step) > 0 /\ x.d \in Nat \ {0}
      BY <1>2, <3>1, RoomInt DEF Blocks, Meets, IsPoint
    <3>3. den \in Int /\ den > 0
      <4> DEFINE k == Speed(i, step)   d == x.d
      <4>1. k \in Int /\ k > 0 /\ d \in Nat /\ d > 0
        BY <3>2
      <4> HIDE DEF k, d
      <4>2. d * k \in Int /\ d * k > 0
        BY <4>1
      <4> QED BY <4>2 DEF k, d
    <3> HIDE DEF den
    <3>4. IsPoint(Moved(step, Room(i, step), den), Cols(qp))
      BY <1>2, <3>2, <3>3, MovesToPoints
    <3>5. Joined(qp, W, i) \in Seq(Rows(qp))
      BY <1>2, WorkingSetChanges
    <3> QED BY <1>2, <3>1, <3>4, <3>5, IteratedTypes DEF den
  <2>2. CASE Iterated(Moved(step, 1, 1), W)
    <3>1. IsPoint(Moved(step, 1, 1), Cols(qp))
      BY <1>2, MovesToPoints
    <3> QED BY <1>2, <2>2, <3>1, IteratedTypes
  <2> QED BY <1>5, <2>1, <2>2 DEF Move
<1> QED BY <1>1, <1>3, <1>4, <1>5

(* The active set keeps the types.                                         *)
LEMMA ActiveTypes == ASSUME QpTypes, ActiveSet PROVE QpTypes'
<1>1. pc = "active"
  BY DEF ActiveSet, ActiveStopped, ActiveCapped, KktFails, Diverged, Iterate, InLoop
<1>2. CASE ActiveStopped \/ ActiveCapped \/ Diverged \/ (KktFails /\ W = <<>>)
  <2>1. PICK s \in {QP_STOPPED, QP_ITERATION_LIMIT, QP_KKT_FAIL} : Leave(s) /\ mult' = mult /\ ray' = ray
    BY <1>2 DEF ActiveStopped, ActiveCapped, Diverged, KktFails
  <2>2. s \in Statuses /\ s \notin {SOLVED, UNBOUNDED}
    BY StatusesDiffer
  <2> QED BY <1>1, <2>1, <2>2, LeaveTypes
<1>3. CASE KktFails /\ W # <<>>
  <2>1. Iterated(x, Front(W))
    BY <1>3 DEF KktFails
  <2>2. Front(W) \in Seq(Rows(qp)) /\ IsPoint(x, Cols(qp))
    BY <1>3, WorkingSetChanges DEF QpTypes
  <2> QED BY <1>1, <2>1, <2>2, IteratedTypes
<1>4. CASE Iterate
  BY <1>4, IterateTypes
<1> QED BY <1>2, <1>3, <1>4 DEF ActiveSet

(* The types hold of every behaviour: iterates are points over a positive  *)
(* denominator, working sets are rows, and multipliers, rays and proofs    *)
(* have an entry for each row or column they are about.                    *)
THEOREM QpTypesHold == Spec => []QpTypes
<1>1. Init => QpTypes
  <2> SUFFICES ASSUME Init PROVE QpTypes
    OBVIOUS
  <2>1. /\ qp \in QPs /\ left = Cols(qp) /\ pc = "gate" /\ x = Point(Zeros(qp.n), 1) /\ W = <<>>
        /\ status = Unset /\ farkas = None
    BY DEF Init
  <2>2. Unset \in Statuses /\ Unset \notin {SOLVED, UNBOUNDED}
    BY StatusesDiffer DEF Statuses
  <2>3. <<>> \in Seq(Rows(qp))
    BY EmptySeq
  <2> QED BY <2>1, <2>2, <2>3, StartsArePoints DEF QpTypes
<1>2. QpTypes /\ [Next]_vars => QpTypes'
  <2> SUFFICES ASSUME QpTypes, [Next]_vars PROVE QpTypes'
    OBVIOUS
  <2>1. CASE Gate
    BY <2>1, GateTypes
  <2>2. CASE FindFeasible
    BY <2>2, FeasibleTypes
  <2>3. CASE ActiveSet
    BY <2>3, ActiveTypes
  <2>4. CASE PrintLine \/ Alarm \/ UNCHANGED vars
    BY <2>4 DEF PrintLine, Alarm, vars, QpTypes, result
  <2> QED BY <2>1, <2>2, <2>3, <2>4 DEF Next, Work
<1> QED BY <1>1, <1>2, PTL DEF Spec

----------------------------------------------------------------------------
(* The verdicts: none before the search is done, a proof or a ray only     *)
(* with the evidence for it, and a printed line follows the verdict.       *)
Optimal(q, y, m) ==
  /\ Feasible(q, y)
  /\ \A j \in Cols(q) :
       Gradient(q, y)[j] * m.d + MapThenSumSet(LAMBDA i : q.A[i][j] * m.v[i], Rows(q)) * y.d = 0
  /\ \A i \in Rows(q) : m.v[i] >= 0 /\ (m.v[i] > 0 => Resid(q, i, y) = 0)
Descends(q, y, p) ==
  /\ Feasible(q, y) /\ Recedes(q, p)
  /\ Curvature(q, p) <= 0 /\ Dot(Gradient(q, y), p) < 0

PrintedFollows ==
  /\ printed = "SOLUTION" => status = SOLVED /\ Optimal(qp, x, mult)
  /\ printed = UNBOUNDED => status = UNBOUNDED
  /\ printed = "PROVEN" => farkas # None
  /\ printed = QP_NON_CONVEX => status = QP_NON_CONVEX
  /\ printed = QP_KKT_FAIL => status \in {QP_KKT_FAIL, SOLVED}
  /\ printed = NO_START => farkas = None

VerdictInv ==
  /\ pc \notin {"done", "printed"} => status = Unset /\ farkas = None
  /\ pc # "printed" => printed = Unset
  /\ farkas # None => Refutes(qp, farkas)
  /\ status = UNBOUNDED => Descends(qp, x, ray)
  /\ PrintedFollows

(* The evidence check of a proof sums the products the other way round.    *)
LEMMA ProofsAreCertified ==
  ASSUME QpTypes, farkas # None, Refutes(qp, farkas)
  PROVE  InfeasibleCertified
<1> DEFINE R == Rows(qp)
<1>1. IsFiniteSet(R) /\ farkas \in [R -> Int] /\ qp.b \in [R -> Int] /\ \A i \in R : qp.A[i] \in [Cols(qp) -> Int]
  BY ProgramFacts DEF QpTypes
<1>2. ASSUME NEW j \in Cols(qp)
      PROVE  MapThenSumSet(LAMBDA i : qp.A[i][j] * farkas[i], R) = 0
  <2> DEFINE f == [i \in R |-> farkas[i] * qp.A[i][j]]
             g == [i \in R |-> qp.A[i][j] * farkas[i]]
  <2>1. \A i \in R : f[i] = g[i]
    BY <1>1
  <2>2. MapThenSumSet(LAMBDA i : farkas[i] * qp.A[i][j], R) = Total(f, R)
    BY DEF Total, MapThenSumSet, MapThenFoldSet
  <2>3. MapThenSumSet(LAMBDA i : qp.A[i][j] * farkas[i], R) = Total(g, R)
    BY DEF Total, MapThenSumSet, MapThenFoldSet
  <2>4. MapThenSumSet(LAMBDA i : farkas[i] * qp.A[i][j], R) = 0
    BY DEF Refutes
  <2> HIDE DEF f, g
  <2>5. Total(f, R) = Total(g, R)
    BY <1>1, <2>1, TotalAgrees
  <2> QED BY <2>2, <2>3, <2>4, <2>5
<1>3. Dot(qp.b, farkas) = Dot(farkas, qp.b)
  <2>1. Dot(qp.b, farkas) = Inner(qp.b, farkas, R) /\ Dot(farkas, qp.b) = Inner(farkas, qp.b, R)
    BY <1>1, DotIsInner
  <2>2. Inner(qp.b, farkas, R) = Inner(farkas, qp.b, R)
    BY <1>1, InnerCommutes
  <2> QED BY <2>1, <2>2
<1> QED BY <1>2, <1>3 DEF InfeasibleCertified, Refutes

(* The line follows the verdict and its evidence.                          *)
LEMMA LineFollows ==
  ASSUME QpTypes, VerdictInv, PrintLine
  PROVE  VerdictInv'
<1>1. /\ pc' = "printed" /\ printed' = Line
      /\ qp' = qp /\ x' = x /\ status' = status /\ mult' = mult /\ ray' = ray /\ farkas' = farkas
  BY DEF PrintLine, result
<1>2. OptimalCertified => Optimal(qp, x, mult)
  BY DEF OptimalCertified, Optimal
<1>3. status = UNBOUNDED => UnboundedCertified
  BY DEF VerdictInv, Descends, UnboundedCertified
<1>4. farkas # None => InfeasibleCertified
  BY ProofsAreCertified DEF VerdictInv
<1>5. status \in Statuses
  BY DEF QpTypes
<1>6. \/ status = SOLVED /\ (IF OptimalCertified THEN printed' = "SOLUTION" ELSE printed' = QP_KKT_FAIL)
      \/ status = UNBOUNDED /\ printed' = UNBOUNDED
      \/ status = QP_STOPPED /\ printed' \in {"INCUMBENT", QP_STOPPED}
      \/ status = NO_START /\ farkas # None /\ printed' = "PROVEN"
      \/ (status = NO_START => farkas = None) /\ status \notin {SOLVED, UNBOUNDED, QP_STOPPED} /\ printed' = status
  <2>1. CASE status = SOLVED
    <3>1. status # UNBOUNDED /\ status # QP_STOPPED /\ status # NO_START
      BY <2>1, StatusesDiffer
    <3>2. Line = IF OptimalCertified THEN "SOLUTION" ELSE QP_KKT_FAIL
      BY <2>1, <3>1 DEF Line
    <3> QED BY <1>1, <2>1, <3>2
  <2>2. CASE status = UNBOUNDED
    <3>1. status # SOLVED
      BY <2>2, StatusesDiffer
    <3> QED BY <1>1, <1>3, <2>2, <3>1 DEF Line
  <2>3. CASE status = QP_STOPPED
    <3>1. status # SOLVED /\ status # UNBOUNDED
      BY <2>3, StatusesDiffer
    <3> QED BY <1>1, <2>3, <3>1 DEF Line
  <2>4. CASE status = NO_START /\ farkas # None
    <3>1. status # SOLVED /\ status # UNBOUNDED /\ status # QP_STOPPED
      BY <2>4, StatusesDiffer
    <3> QED BY <1>1, <1>4, <2>4, <3>1 DEF Line
  <2>5. CASE status \notin {SOLVED, UNBOUNDED, QP_STOPPED} /\ ~(status = NO_START /\ farkas # None)
    BY <1>1, <2>5 DEF Line
  <2> QED BY <2>1, <2>2, <2>3, <2>4, <2>5
<1>7. printed' = "SOLUTION" => status = SOLVED /\ OptimalCertified
  BY <1>5, <1>6, StatusesDiffer
<1>8. printed' = UNBOUNDED => status = UNBOUNDED
  BY <1>5, <1>6, StatusesDiffer
<1>9. printed' = "PROVEN" => farkas # None
  BY <1>5, <1>6, StatusesDiffer
<1>10. printed' = QP_NON_CONVEX => status = QP_NON_CONVEX
  BY <1>5, <1>6, StatusesDiffer
<1>11. printed' = QP_KKT_FAIL => status \in {QP_KKT_FAIL, SOLVED}
  BY <1>5, <1>6, StatusesDiffer
<1>12. printed' = NO_START => status = NO_START /\ farkas = None
  BY <1>5, <1>6, StatusesDiffer
<1>13. PrintedFollows'
  BY <1>1, <1>2, <1>7, <1>8, <1>9, <1>10, <1>11, <1>12 DEF PrintedFollows
<1> QED BY <1>1, <1>13 DEF VerdictInv

(* Steps before the verdict, and to one that needs no evidence.            *)
LEMMA StillUndecided ==
  ASSUME VerdictInv, pc \notin {"done", "printed"},
         pc' \notin {"done", "printed"}, status' = status, farkas' = farkas, printed' = printed
  PROVE  VerdictInv'
<1>1. status' = Unset /\ farkas' = None /\ printed' = Unset
  BY DEF VerdictInv
<1>2. PrintedFollows'
  BY <1>1, StatusesDiffer DEF PrintedFollows, Unset
<1> QED BY <1>1, <1>2, StatusesDiffer DEF VerdictInv

(* A verdict comes with its evidence.                                      *)
LEMMA Decided ==
  ASSUME VerdictInv, pc \notin {"done", "printed"}, pc' = "done", printed' = printed,
         farkas' # None => Refutes(qp', farkas'),
         status' = UNBOUNDED => Descends(qp', x', ray')
  PROVE  VerdictInv'
<1>1. printed' = Unset
  BY DEF VerdictInv
<1>2. PrintedFollows'
  BY <1>1, StatusesDiffer DEF PrintedFollows, Unset
<1> QED BY <1>1, <1>2 DEF VerdictInv

(* A rejection needs none.                                                 *)
LEMMA RejectDecides ==
  ASSUME VerdictInv, pc \notin {"done", "printed"}, NEW s, s # UNBOUNDED, Reject(s) PROVE VerdictInv'
<1>1. farkas' = None /\ pc' = "done" /\ printed' = printed /\ status' = s
  BY DEF VerdictInv, Reject
<1> QED BY <1>1, Decided

(* Leaving the loop needs a ray for an unbounded program only.             *)
LEMMA LeaveDecides ==
  ASSUME VerdictInv, pc \notin {"done", "printed"}, NEW s, Leave(s),
         s = UNBOUNDED => Descends(qp, x, ray')
  PROVE  VerdictInv'
<1>1. farkas' = None /\ pc' = "done" /\ printed' = printed /\ status' = s /\ qp' = qp /\ x' = x
  BY DEF VerdictInv, Leave
<1> QED BY <1>1, Decided

(* Every step keeps the verdicts' invariant.                               *)
LEMMA VerdictSteps == ASSUME QpTypes, VerdictInv, [Next]_vars PROVE VerdictInv'
<1>0. /\ QP_NON_CONVEX # UNBOUNDED /\ QP_STOPPED # UNBOUNDED /\ NO_START # UNBOUNDED
      /\ SOLVED # UNBOUNDED /\ QP_KKT_FAIL # UNBOUNDED /\ QP_ITERATION_LIMIT # UNBOUNDED
  BY StatusesDiffer
<1>1. CASE Gate
  <2>1. pc = "gate"
    BY <1>1 DEF Gate, GateAsymmetric, GatePivot, GateRejects, GateAccepts
  <2>2. CASE GateAsymmetric \/ GateRejects
    <3>1. Reject(QP_NON_CONVEX)
      BY <2>2 DEF GateAsymmetric, GateRejects
    <3> QED BY <1>0, <2>1, <3>1, RejectDecides
  <2>3. CASE GatePivot \/ GateAccepts
    <3>1. pc' \in {"gate", "start", "active"} /\ status' = status /\ farkas' = farkas /\ printed' = printed
      BY <2>1, <2>3 DEF GatePivot, GateAccepts, EnterActive, result
    <3> QED BY <2>1, <3>1, StillUndecided
  <2> QED BY <1>1, <2>2, <2>3 DEF Gate
<1>2. CASE FindFeasible
  <2>1. pc = "start"
    BY <1>2 DEF FindFeasible, LpPoint, LpNothing, LpProof, LpStopped, DensePoint, DenseNothing,
                DenseStopped, FarkasProof, FarkasNothing, Searching
  <2>2. CASE LpPoint \/ DensePoint \/ LpStopped \/ LpNothing \/ DenseNothing
    <3>1. pc' \in {"start", "active"} /\ status' = status /\ farkas' = farkas /\ printed' = printed
      BY <2>1, <2>2 DEF LpPoint, DensePoint, LpStopped, LpNothing, DenseNothing, NextSearch, EnterActive, result
    <3> QED BY <2>1, <3>1, StillUndecided
  <2>3. CASE DenseStopped \/ FarkasNothing
    <3>1. PICK s \in {QP_STOPPED, NO_START} : Reject(s)
      BY <2>3 DEF DenseStopped, FarkasNothing
    <3> QED BY <1>0, <2>1, <3>1, RejectDecides
  <2>4. CASE LpProof \/ FarkasProof
    <3>1. PICK lam \in [Rows(qp) -> Multipliers] : Prove(lam)
      BY <2>4 DEF LpProof, FarkasProof
    <3>2. Refutes(qp, lam) /\ pc' = "done" /\ status' = NO_START /\ farkas' = lam /\ qp' = qp /\ printed' = printed
      BY <3>1 DEF Prove
    <3> QED BY <1>0, <2>1, <3>2, Decided
  <2> QED BY <1>2, <2>2, <2>3, <2>4 DEF FindFeasible
<1>3. CASE ActiveSet
  <2>1. pc = "active"
    BY <1>3 DEF ActiveSet, ActiveStopped, ActiveCapped, KktFails, Diverged, Iterate, InLoop
  <2>2. CASE \E y, w : Iterated(y, w)
    <3>1. pc' = "active" /\ status' = status /\ farkas' = farkas /\ printed' = printed
      BY <2>1, <2>2 DEF Iterated, result
    <3> QED BY <2>1, <3>1, StillUndecided
  <2>3. CASE \E s \in {QP_STOPPED, QP_ITERATION_LIMIT, QP_KKT_FAIL, SOLVED} : Leave(s)
    BY <1>0, <2>1, <2>3, LeaveDecides
  <2>4. CASE \E step : Unbounded(step)
    <3>1. PICK step : Unbounded(step)
      BY <2>4
    <3>2. Leave(UNBOUNDED) /\ ray' = step.p /\ Descends(qp, x, step.p)
      BY <3>1 DEF Unbounded, IsRay, Descends
    <3> QED BY <2>1, <3>2, LeaveDecides
  <2>5. CASE ActiveStopped \/ ActiveCapped \/ Diverged \/ KktFails
    BY <2>2, <2>3, <2>5 DEF ActiveStopped, ActiveCapped, Diverged, KktFails
  <2>6. CASE Iterate
    <3>1. PICK step : Stationary(step) \/ Unbounded(step) \/ Move(step)
      BY <2>6 DEF Iterate
    <3>2. CASE Stationary(step)
      BY <2>2, <2>3, <3>2 DEF Stationary, DropRow, Conclude
    <3>3. CASE Move(step)
      BY <2>2, <3>3 DEF Move
    <3> QED BY <2>4, <3>1, <3>2, <3>3
  <2> QED BY <1>3, <2>5, <2>6 DEF ActiveSet
<1>4. CASE PrintLine
  BY <1>4, LineFollows
<1>5. CASE Alarm
  <2>1. /\ pc' = pc /\ pc \notin {"done", "printed"} /\ status' = status /\ farkas' = farkas
        /\ printed' = printed
    BY <1>5 DEF Alarm, result
  <2> QED BY <2>1, StillUndecided
<1>6. CASE UNCHANGED vars
  BY <1>6 DEF vars, result, VerdictInv, PrintedFollows
<1> QED BY <1>1, <1>2, <1>3, <1>4, <1>5, <1>6 DEF Next, Work

----------------------------------------------------------------------------
(* The gate: elimination keeps the question whether the form is negative   *)
(* somewhere, and what it lets through has no positive diagonal and no     *)
(* off-diagonal left.                                                      *)
SameForm == NonNegative(S, left, Cols(qp)) <=> NonNegative(qp.Q, Cols(qp), Cols(qp))
Eliminates == ~Asymmetric(qp) => Square(S, Cols(qp)) /\ Symmetric(S, Cols(qp)) /\ SameForm
Passed ==
  /\ ~Asymmetric(qp)
  /\ \A i, j \in left : S[i][i] <= 0 /\ (i # j => S[i][j] = 0)
Rejects == Asymmetric(qp) \/ ~NonNegative(qp.Q, Cols(qp), Cols(qp))

GateInv ==
  /\ Eliminates
  /\ pc \in {"start", "active"} \/ status = SOLVED => Passed
  /\ status = QP_NON_CONVEX => Rejects

(* A negative diagonal decides once the gate is passed.                    *)
LEMMA PassedDecides ==
  ASSUME QpTypes, Eliminates, Passed
  PROVE  NonNegative(qp.Q, Cols(qp), Cols(qp)) <=> \A i \in left : S[i][i] = 0
<1> DEFINE C == Cols(qp)
<1>1. IsFiniteSet(C) /\ left \subseteq C /\ Square(S, C) /\ Symmetric(S, C)
  BY ProgramFacts DEF QpTypes, Eliminates, Passed
<1>2. NonNegative(S, left, C) <=> NonNegative(qp.Q, C, C)
  BY DEF Eliminates, SameForm, Passed
<1>3. \A i \in left : S[i][i] \in Int /\ S[i][i] <= 0
  BY <1>1 DEF Square, Passed
<1>4. ASSUME NEW i \in left, S[i][i] # 0 PROVE ~NonNegative(S, left, C)
  <2>1. S[i][i] < 0
    BY <1>3, <1>4
  <2> HIDE DEF C
  <2> QED BY <1>1, <2>1, TailRejects
<1>5. ASSUME \A i \in left : S[i][i] = 0 PROVE NonNegative(S, left, C)
  <2>1. \A i, j \in left : S[i][j] = 0
    BY <1>5 DEF Passed
  <2> HIDE DEF C
  <2> QED BY <1>1, <2>1, TailAccepts
<1> QED BY <1>2, <1>4, <1>5

(* Of what is left some diagonal is the largest.                           *)
LEMMA PivotExists ==
  ASSUME QpTypes, Eliminates, ~Asymmetric(qp), left # {}
  PROVE  Pivots # {} /\ \A p \in Pivots : p \in left /\ \A i \in left : S[i][i] <= S[p][p]
<1> DEFINE f == [i \in left |-> S[i][i]]
<1>1. IsFiniteSet(left) /\ \A i \in left : S[i][i] \in Int
  BY ProgramFacts, FS_Subset DEF QpTypes, Eliminates, Square
<1>2. \A i \in left : f[i] \in Int /\ f[i] = S[i][i]
  BY <1>1
<1> HIDE DEF f
<1>3. PICK p \in left : \A i \in left : f[i] <= f[p]
  BY <1>1, <1>2, LargestExists
<1>4. p \in Pivots
  BY <1>2, <1>3 DEF Pivots
<1> QED BY <1>4 DEF Pivots

(* A rejection is right: some direction left has a negative curvature.     *)
LEMMA RejectsRightly ==
  ASSUME QpTypes, Eliminates, GateRejects
  PROVE  Rejects
<1> DEFINE C == Cols(qp)
<1>0. ~Asymmetric(qp) /\ (\A p \in Pivots : S[p][p] <= 0) /\ ~TailIsFlat
  BY DEF GateRejects
<1>1. IsFiniteSet(C) /\ left \subseteq C /\ Square(S, C) /\ Symmetric(S, C)
  BY <1>0, ProgramFacts DEF QpTypes, Eliminates
<1>2. PICK p \in Pivots : S[p][p] # 0 \/ \E i, j \in left : i # j /\ S[i][j] # 0
  BY <1>0 DEF TailIsFlat
<1>3. p \in left /\ \A i \in left : S[i][i] <= S[p][p]
  BY DEF Pivots
<1>4. S[p][p] <= 0 /\ \A i, j \in left : S[i][j] \in Int
  BY <1>0, <1>1 DEF Square
<1>5. CASE S[p][p] # 0
  <2>1. S[p][p] < 0
    BY <1>3, <1>4, <1>5
  <2> HIDE DEF C
  <2>2. ~NonNegative(S, left, C)
    BY <1>1, <1>3, <2>1, TailRejects
  <2> QED BY <1>0, <2>2 DEF Eliminates, SameForm, Rejects, C
<1>6. CASE \E i, j \in left : i # j /\ S[i][j] # 0
  <2>1. PICK i \in left, j \in left : i # j /\ S[i][j] # 0
    BY <1>6
  <2>2. S[i][i] <= 0 /\ S[j][j] <= 0
    BY <1>3, <1>4
  <2> HIDE DEF C
  <2>3. ~NonNegative(S, left, C)
    BY <1>1, <2>1, <2>2, TailRejects
  <2> QED BY <1>0, <2>3 DEF Eliminates, SameForm, Rejects, C
<1> QED BY <1>2, <1>5, <1>6

(* What is accepted has passed.                                            *)
LEMMA AcceptsPassed ==
  ASSUME QpTypes, Eliminates, GateAccepts
  PROVE  Passed
<1>1. ~Asymmetric(qp) /\ TailIsFlat
  BY DEF GateAccepts
<1>2. CASE left = {}
  BY <1>1, <1>2 DEF Passed
<1>3. CASE left # {}
  <2>1. PICK p \in Pivots : \A i \in left : S[i][i] <= S[p][p]
    BY <1>1, <1>3, PivotExists
  <2>2. S[p][p] = 0 /\ \A i, j \in left : i # j => S[i][j] = 0
    BY <1>1 DEF TailIsFlat
  <2> QED BY <1>1, <2>1, <2>2 DEF Passed
<1> QED BY <1>2, <1>3

(* A pivot keeps the question.                                             *)
LEMMA PivotEliminates ==
  ASSUME QpTypes, Eliminates, GatePivot
  PROVE  Eliminates'
<1> DEFINE C == Cols(qp)
<1>1. PICK p \in Pivots :
        /\ S[p][p] > 0
        /\ S' = [i \in C |-> [j \in C |-> S[p][p] * S[i][j] - S[i][p] * S[p][j]]]
        /\ left' = left \ {p}
  BY DEF GatePivot
<1>2. qp' = qp /\ ~Asymmetric(qp) /\ p \in left
  BY DEF GatePivot, Pivots
<1>3. IsFiniteSet(C) /\ left \subseteq C /\ Square(S, C) /\ Symmetric(S, C)
  BY <1>2, ProgramFacts DEF QpTypes, Eliminates
<1>4. Step(S, p, S', C) /\ p \in C
  BY <1>1, <1>2, <1>3 DEF Step
<1>5. NonNegative(S, left, C) <=> NonNegative(qp.Q, C, C)
  BY <1>2 DEF Eliminates, SameForm
<1> DEFINE R == S'
           L == left \ {p}
<1>6. (NonNegative(R, L, C) <=> NonNegative(S, left, C)) /\ Square(R, C) /\ Symmetric(R, C)
  <2>1. Step(S, p, R, C)
    BY <1>4
  <2> HIDE DEF R, C
  <2>2. Square(R, C) /\ Symmetric(R, C)
    BY <1>3, <1>4, <2>1, Eliminated
  <2>3. NonNegative(R, left \ {p}, C) <=> NonNegative(S, left, C)
    BY <1>1, <1>2, <1>3, <2>1, PivotDecides
  <2> QED BY <2>2, <2>3
<1> QED BY <1>1, <1>2, <1>5, <1>6 DEF Eliminates, SameForm

(* While the gate's variables stand still the rest of the invariant is     *)
(* about the control state alone.                                          *)
LEMMA GateKept ==
  ASSUME GateInv, UNCHANGED <<qp, S, left>>,
         pc' \in {"start", "active"} \/ status' = SOLVED => pc \in {"start", "active"} \/ status = SOLVED,
         status' = QP_NON_CONVEX => status = QP_NON_CONVEX
  PROVE  GateInv'
BY DEF GateInv, Eliminates, SameForm, Passed, Rejects

(* The gate keeps its invariant.                                           *)
LEMMA GateSteps == ASSUME QpTypes, VerdictInv, GateInv, Gate PROVE GateInv'
<1>0. Eliminates
  BY DEF GateInv
<1>1. CASE GateAsymmetric \/ GateRejects
  <2>1. Rejects /\ Reject(QP_NON_CONVEX)
    BY <1>0, <1>1, RejectsRightly DEF GateAsymmetric, GateRejects, Rejects
  <2>2. qp' = qp /\ S' = S /\ left' = left /\ pc' = "done" /\ status' = QP_NON_CONVEX
    BY <2>1 DEF Reject
  <2>3. Eliminates' /\ Rejects'
    BY <1>0, <2>1, <2>2 DEF Eliminates, SameForm, Rejects
  <2>4. QP_NON_CONVEX # SOLVED
    BY StatusesDiffer
  <2> QED BY <2>2, <2>3, <2>4 DEF GateInv
<1>2. CASE GatePivot
  <2>1. Eliminates'
    BY <1>0, <1>2, PivotEliminates
  <2>2. qp' = qp /\ pc' = "gate" /\ status' = status
    BY <1>2 DEF GatePivot, result
  <2>3. status # SOLVED
    BY <1>2, StatusesDiffer DEF GatePivot, VerdictInv
  <2> QED BY <2>1, <2>2, <2>3 DEF GateInv, Rejects
<1>3. CASE GateAccepts
  <2>1. Passed
    BY <1>0, <1>3, AcceptsPassed
  <2>2. qp' = qp /\ S' = S /\ left' = left /\ status' = status
    BY <1>3 DEF GateAccepts, EnterActive, result
  <2>3. Eliminates' /\ Passed' /\ (Rejects' <=> Rejects)
    BY <1>0, <2>1, <2>2 DEF Eliminates, SameForm, Rejects, Passed
  <2> QED BY <2>2, <2>3 DEF GateInv
<1> QED BY <1>1, <1>2, <1>3 DEF Gate

(* After the gate its variables stand still, and nothing is rejected for   *)
(* its curvature any more.                                                 *)
LEMMA GateOver == ASSUME GateInv, FindFeasible \/ ActiveSet PROVE GateInv'
<1>1. CASE FindFeasible
  <2>1. pc = "start"
    BY <1>1 DEF FindFeasible, LpPoint, LpNothing, LpProof, LpStopped, DensePoint, DenseNothing,
                DenseStopped, FarkasProof, FarkasNothing, Searching
  <2>2. UNCHANGED <<qp, S, left>> /\ status' \in {status, QP_STOPPED, NO_START}
    <3>1. CASE LpPoint \/ DensePoint \/ LpStopped \/ LpNothing \/ DenseNothing
      BY <3>1 DEF LpPoint, DensePoint, LpStopped, LpNothing, DenseNothing, NextSearch, EnterActive, result
    <3>2. CASE DenseStopped \/ FarkasNothing
      BY <3>2 DEF DenseStopped, FarkasNothing, Reject
    <3>3. CASE LpProof \/ FarkasProof
      BY <3>3 DEF LpProof, FarkasProof, Prove
    <3> QED BY <1>1, <3>1, <3>2, <3>3 DEF FindFeasible
  <2>3. status' = QP_NON_CONVEX => status = QP_NON_CONVEX
    BY <2>2, StatusesDiffer
  <2> QED BY <2>1, <2>2, <2>3, GateKept
<1>2. CASE ActiveSet
  <2>1. pc = "active"
    BY <1>2 DEF ActiveSet, ActiveStopped, ActiveCapped, KktFails, Diverged, Iterate, InLoop
  <2>2. \/ \E y, w : Iterated(y, w)
        \/ \E s \in {QP_STOPPED, QP_ITERATION_LIMIT, QP_KKT_FAIL, SOLVED, UNBOUNDED} : Leave(s)
    <3>1. CASE ActiveStopped \/ ActiveCapped \/ Diverged \/ KktFails
      BY <3>1 DEF ActiveStopped, ActiveCapped, Diverged, KktFails
    <3>2. CASE Iterate
      <4>1. PICK step : Stationary(step) \/ Unbounded(step) \/ Move(step)
        BY <3>2 DEF Iterate
      <4>2. CASE Stationary(step)
        BY <4>2 DEF Stationary, DropRow, Conclude
      <4>3. CASE Unbounded(step)
        BY <4>3 DEF Unbounded
      <4>4. CASE Move(step)
        BY <4>4 DEF Move
      <4> QED BY <4>1, <4>2, <4>3, <4>4
    <3> QED BY <1>2, <3>1, <3>2 DEF ActiveSet
  <2>3. /\ UNCHANGED <<qp, S, left>>
        /\ status' \in {status, QP_STOPPED, QP_ITERATION_LIMIT, QP_KKT_FAIL, SOLVED, UNBOUNDED}
    BY <2>2 DEF Iterated, Leave, result
  <2>4. status' = QP_NON_CONVEX => status = QP_NON_CONVEX
    BY <2>3, StatusesDiffer
  <2> QED BY <2>1, <2>3, <2>4, GateKept
<1> QED BY <1>1, <1>2

(* The invariant of the verdicts and the gate.                             *)
THEOREM QpInvariant == Spec => [](QpTypes /\ VerdictInv /\ GateInv)
<1>1. Init => VerdictInv /\ GateInv
  <2> SUFFICES ASSUME Init PROVE VerdictInv /\ GateInv
    OBVIOUS
  <2>1. /\ qp \in QPs /\ pc = "gate" /\ S = qp.Q /\ left = Cols(qp)
        /\ status = Unset /\ farkas = None /\ printed = Unset
    BY DEF Init
  <2>2. VerdictInv
    BY <2>1, StatusesDiffer DEF VerdictInv, PrintedFollows, Unset
  <2>3. Eliminates
    BY <2>1, ProgramFacts DEF Eliminates, SameForm, Symmetric, Asymmetric
  <2> QED BY <2>1, <2>2, <2>3, StatusesDiffer DEF GateInv
<1>2. QpTypes /\ VerdictInv /\ GateInv /\ [Next]_vars => VerdictInv' /\ GateInv'
  <2> SUFFICES ASSUME QpTypes, VerdictInv, GateInv, [Next]_vars PROVE VerdictInv' /\ GateInv'
    OBVIOUS
  <2>1. VerdictInv'
    BY VerdictSteps
  <2>2. CASE Gate
    BY <2>1, <2>2, GateSteps
  <2>3. CASE FindFeasible \/ ActiveSet
    BY <2>1, <2>3, GateOver
  <2>4. CASE PrintLine \/ Alarm \/ UNCHANGED vars
    <3>1. UNCHANGED <<qp, S, left>> /\ status' = status /\ (pc' = pc \/ pc' = "printed")
      BY <2>4 DEF PrintLine, Alarm, vars, result
    <3> QED BY <2>1, <3>1, GateKept
  <2> QED BY <2>2, <2>3, <2>4 DEF Next, Work
<1> QED BY <1>1, <1>2, QpTypesHold, PTL DEF Spec

(* What the gate decides.                                                  *)
GateDecides ==
  /\ pc \in {"start", "active"} => ~Asymmetric(qp) /\ (Convex(qp) <=> \A i \in left : S[i][i] = 0)
  /\ status = QP_NON_CONVEX => Asymmetric(qp) \/ ~Convex(qp)

(* qp.h: completing the scan proves Q positive semidefinite.  What the     *)
(* scan does prove, for every program: when a search starts, the matrix is *)
(* symmetric, and the form is nonnegative on every direction just when no  *)
(* diagonal left over is negative.  The scan looks at the largest one      *)
(* only, which is the one way it has of being wrong; a program it rejects  *)
(* is not convex.                                                          *)
THEOREM GateErrsOnDiagonalsOnly ==
  ASSUME Scalars = Int PROVE Spec => []GateDecides
<1>1. QpTypes /\ VerdictInv /\ GateInv => GateDecides
  <2> SUFFICES ASSUME QpTypes, GateInv PROVE GateDecides
    OBVIOUS
  <2>1. Convex(qp) <=> NonNegative(qp.Q, Cols(qp), Cols(qp))
    BY ConvexIs DEF QpTypes
  <2>2. Passed => (NonNegative(qp.Q, Cols(qp), Cols(qp)) <=> \A i \in left : S[i][i] = 0)
    BY PassedDecides DEF GateInv
  <2> QED BY <2>1, <2>2 DEF GateDecides, GateInv, Passed, Rejects
<1> QED BY <1>1, QpInvariant, PTL

----------------------------------------------------------------------------
(* What the printed lines say of the program.                              *)

(* A table by rows and by columns, and what its lines add up to.           *)
Table(F, G, R, C) == \A i \in R, j \in C : F[i][j] \in Int /\ G[j][i] = F[i][j]
AddUp(f, F, R, C) == \A i \in R : f[i] = Total(F[i], C)

(* The lines' sums of a table add up to the same both ways.                *)
LEMMA TableAdds ==
  ASSUME NEW F, NEW R, IsFiniteSet(R), NEW C, IsFiniteSet(C), NEW G, NEW r, NEW c,
         Table(F, G, R, C), AddUp(r, F, R, C), AddUp(c, G, C, R)
  PROVE  Total(r, R) = Total(c, C)
BY TotalExchange DEF Table, AddUp

(* The columns a row combination has, and what the rows are along e.       *)
Combines(q, lam, col) ==
  \A j \in Cols(q) : col[j] = Total([i \in Rows(q) |-> q.A[i][j] * lam[i]], Rows(q))
Meet(q, e, r) == \A i \in Rows(q) : r[i] = Dot(q.A[i], e)
SameProduct(q, lam, e, col, r) ==
  /\ Inner(e, col, Cols(q)) = Inner(lam, r, Rows(q))
  /\ \A j \in Cols(q) : col[j] \in Int
  /\ \A i \in Rows(q) : r[i] \in Int

(* The rows combined by multipliers meet a direction as the columns do.    *)
LEMMA ColumnsMeetRows ==
  ASSUME NEW q \in QPs, NEW lam \in [Rows(q) -> Int], NEW e \in [Cols(q) -> Int], NEW col, NEW r,
         Combines(q, lam, col), Meet(q, e, r)
  PROVE  SameProduct(q, lam, e, col, r)
<1> DEFINE R == Rows(q)
           C == Cols(q)
           F == [i \in R |-> [j \in C |-> lam[i] * (q.A[i][j] * e[j])]]
           G == [j \in C |-> [i \in R |-> lam[i] * (q.A[i][j] * e[j])]]
           rows == [i \in R |-> lam[i] * r[i]]
           cols == [j \in C |-> e[j] * col[j]]
<1>1. /\ IsFiniteSet(R) /\ IsFiniteSet(C) /\ lam \in [R -> Int] /\ e \in [C -> Int]
      /\ \A i \in R : q.A[i] \in [C -> Int]
  BY ProgramFacts
<1>2. \A i \in R, j \in C : lam[i] \in Int /\ q.A[i][j] \in Int /\ e[j] \in Int
  BY <1>1
<1>0. /\ \A j \in C : col[j] = Total([i \in R |-> q.A[i][j] * lam[i]], R)
      /\ \A i \in R : r[i] = Dot(q.A[i], e)
  BY DEF Combines, Meet
<1>3. ASSUME NEW i \in R PROVE rows[i] = Total(F[i], C) /\ r[i] \in Int
  <2> DEFINE f == [j \in C |-> q.A[i][j] * e[j]]
             h == F[i]
  <2>1. \A j \in C : f[j] \in Int /\ h[j] = lam[i] * f[j]
    BY <1>2
  <2>2. r[i] = Total(f, C)
    <3>1. DOMAIN q.A[i] = C
      BY <1>1
    <3>2. Dot(q.A[i], e) = Inner(q.A[i], e, C)
      BY <3>1, DotIsInner
    <3> QED BY <1>0, <3>2 DEF Inner
  <2>3. lam[i] \in Int
    BY <1>2
  <2> HIDE DEF f, h
  <2>4. Total(h, C) = lam[i] * Total(f, C) /\ Total(f, C) \in Int
    BY <1>1, <2>1, <2>3, TotalScales, TotalInt
  <2> QED BY <2>2, <2>4 DEF h
<1>4. ASSUME NEW j \in C PROVE cols[j] = Total(G[j], R) /\ col[j] \in Int
  <2> DEFINE f == [i \in R |-> q.A[i][j] * lam[i]]
             h == G[j]
  <2>1. \A i \in R : f[i] \in Int /\ h[i] = e[j] * f[i]
    <3> TAKE i \in R
    <3>1. \A a, b, c \in Int : b * c \in Int /\ a * (b * c) = c * (b * a)
      OBVIOUS
    <3> QED BY <1>2, <3>1
  <2>2. col[j] = Total(f, R)
    BY <1>0
  <2>3. e[j] \in Int
    BY <1>1
  <2> HIDE DEF f, h
  <2>4. Total(h, R) = e[j] * Total(f, R) /\ Total(f, R) \in Int
    BY <1>1, <2>1, <2>3, TotalScales, TotalInt
  <2> QED BY <2>2, <2>4 DEF h
<1>5. \A i \in R, j \in C : F[i][j] \in Int /\ G[j][i] = F[i][j]
  BY <1>2
<1>6. Inner(e, col, C) = Total(cols, C) /\ Inner(lam, r, R) = Total(rows, R)
  BY DEF Inner
<1> HIDE DEF F, G, rows, cols, R, C
<1>7. Total(rows, R) = Total(cols, C)
  <2>1. IsFiniteSet(R) /\ IsFiniteSet(C)
    BY <1>1
  <2>2. AddUp(rows, F, R, C)
    BY <1>3 DEF AddUp
  <2>3. AddUp(cols, G, C, R)
    BY <1>4 DEF AddUp
  <2>4. Table(F, G, R, C)
    BY <1>5 DEF Table
  <2> QED BY <2>1, <2>2, <2>3, <2>4, TableAdds
<1> QED BY <1>3, <1>4, <1>6, <1>7 DEF SameProduct, R, C

(* Certified multipliers leave no direction that improves a convex         *)
(* program.                                                                *)
LEMMA OptimalIsUnbeaten ==
  ASSUME Scalars = Int, NEW q \in QPs, NEW y, IsPoint(y, Cols(q)), NEW m, IsPoint(m, Rows(q)),
         Optimal(q, y, m), Convex(q)
  PROVE  Unbeaten(q, y)
<1> SUFFICES ASSUME NEW e \in [Cols(q) -> Int], Improves(q, y, e) PROVE FALSE
  BY DEF Unbeaten, Optimal, Trials
<1> DEFINE R == Rows(q)
           C == Cols(q)
           g == Gradient(q, y)
           col == [j \in C |-> Total([i \in R |-> q.A[i][j] * m.v[i]], R)]
           r == [i \in R |-> Dot(q.A[i], e)]
<1>1. /\ IsFiniteSet(R) /\ IsFiniteSet(C) /\ g \in [C -> Int] /\ e \in [C -> Int]
      /\ m.v \in [R -> Int] /\ m.d \in Int /\ m.d > 0 /\ y.d \in Int /\ y.d > 0
  BY ProgramFacts, ResidInt DEF IsPoint
<1>2. /\ Inner(e, col, C) = Inner(m.v, r, R)
      /\ \A j \in C : col[j] \in Int
      /\ \A i \in R : r[i] \in Int
  <2>1. Combines(q, m.v, col)
    BY DEF Combines
  <2>2. Meet(q, e, r)
    BY DEF Meet
  <2> HIDE DEF col, r
  <2>3. SameProduct(q, m.v, e, col, r)
    BY <1>1, <2>1, <2>2, ColumnsMeetRows
  <2> QED BY <2>3 DEF SameProduct
<1>3. \A j \in C : g[j] * m.d + col[j] * y.d = 0
  <2> TAKE j \in C
  <2>1. MapThenSumSet(LAMBDA i : q.A[i][j] * m.v[i], R) = Total([i \in R |-> q.A[i][j] * m.v[i]], R)
    BY DEF Total, MapThenSumSet, MapThenFoldSet
  <2>2. g[j] * m.d + MapThenSumSet(LAMBDA i : q.A[i][j] * m.v[i], R) * y.d = 0
    BY DEF Optimal
  <2> QED BY <2>1, <2>2
<1>4. \A i \in R : m.v[i] >= 0 /\ (m.v[i] > 0 => r[i] <= 0)
  BY DEF Optimal, Improves
<1>5. Dot(g, e) < 0 \/ (Dot(g, e) = 0 /\ Curvature(q, e) < 0)
  BY DEF Improves
<1>6. Curvature(q, e) >= 0 /\ Curvature(q, e) \in Int
  BY CurvatureIsForm DEF Convex, Trials
<1>7. Dot(g, e) = Inner(e, g, C)
  <2>1. DOMAIN g = C
    BY <1>1
  <2>2. Dot(g, e) = Inner(g, e, C)
    BY <2>1, DotIsInner
  <2>3. Inner(g, e, C) = Inner(e, g, C)
    BY <1>1, InnerCommutes
  <2> QED BY <2>2, <2>3
<1> HIDE DEF col, r, g, R, C
(* The columns: m.d g + y.d col = 0 along e.                               *)
<1>8. m.d * Inner(e, g, C) + y.d * Inner(e, col, C) = 0 /\ Inner(e, g, C) \in Int /\ Inner(e, col, C) \in Int
  <2> DEFINE z == [j \in C |-> 0]
  <2>1. \A j \in C : e[j] \in Int /\ g[j] \in Int /\ col[j] \in Int
    BY <1>1, <1>2
  <2>2. \A j \in C : z[j] = m.d * g[j] + y.d * col[j]
    <3> TAKE j \in C
    <3>1. g[j] * m.d = m.d * g[j] /\ col[j] * y.d = y.d * col[j]
      BY <1>1, <2>1
    <3> QED BY <1>3, <3>1
  <2>3. Inner(e, z, C) = 0
    <3> DEFINE f == [j \in C |-> e[j] * z[j]]
    <3>1. \A j \in C : f[j] = 0
      BY <2>1
    <3> HIDE DEF f
    <3>2. Total(f, C) = 0
      BY <1>1, <3>1, TotalOfZeros
    <3> QED BY <3>2 DEF Inner, f
  <2> HIDE DEF z
  <2>4. Inner(e, z, C) = m.d * Inner(e, g, C) + y.d * Inner(e, col, C)
    BY <1>1, <2>1, <2>2, InnerLinear
  <2>5. Inner(e, g, C) \in Int /\ Inner(e, col, C) \in Int
    BY <1>1, <2>1, InnerInt
  <2> QED BY <2>3, <2>4, <2>5
(* The rows: active ones with a positive multiplier are not entered.       *)
<1>9. Inner(m.v, r, R) <= 0
  <2> DEFINE f == [i \in R |-> m.v[i] * r[i]]
             z == [i \in R |-> 0]
  <2>1. ASSUME NEW i \in R PROVE f[i] \in Int /\ z[i] \in Int /\ f[i] <= z[i]
    <3> DEFINE a == m.v[i]   b == r[i]
    <3>1. a \in Int /\ b \in Int /\ a >= 0 /\ (a > 0 => b <= 0)
      BY <1>1, <1>2, <1>4
    <3> HIDE DEF a, b
    <3>2. a * b \in Int /\ a * b <= 0
      BY <3>1
    <3> QED BY <3>2 DEF a, b
  <2>2. \A i \in R : z[i] = 0
    OBVIOUS
  <2> HIDE DEF f, z
  <2>3. Total(f, R) <= Total(z, R) /\ Total(z, R) = 0
    BY <1>1, <2>1, <2>2, TotalGrows, TotalOfZeros
  <2> QED BY <2>3 DEF Inner, f
<1> DEFINE ge == Inner(e, g, C)
           ce == Inner(e, col, C)
<1>10. ge >= 0
  <2>1. ce <= 0 /\ ce \in Int /\ ge \in Int /\ m.d * ge + y.d * ce = 0
    BY <1>2, <1>8, <1>9
  <2> DEFINE a == m.d   b == y.d
  <2>2. a \in Int /\ a > 0 /\ b \in Int /\ b > 0 /\ a * ge + b * ce = 0
    BY <1>1, <2>1
  <2> HIDE DEF ge, ce, a, b
  <2>3. b * ce <= 0 /\ b * ce \in Int
    BY <2>1, <2>2
  <2>4. a * ge >= 0
    BY <2>1, <2>2, <2>3
  <2> QED BY <2>1, <2>2, <2>4
<1> QED BY <1>5, <1>6, <1>7, <1>8, <1>10

(* A verified proof leaves no point at all, integral or not.               *)
LEMMA RefutedIsEmpty ==
  ASSUME NEW q \in QPs, NEW lam \in [Rows(q) -> Int], Refutes(q, lam), NEW y, IsPoint(y, Cols(q))
  PROVE  ~Feasible(q, y)
<1> SUFFICES ASSUME Feasible(q, y) PROVE FALSE
  OBVIOUS
<1> DEFINE R == Rows(q)
           C == Cols(q)
           e == y.v
           col == [j \in C |-> Total([i \in R |-> q.A[i][j] * lam[i]], R)]
           r == [i \in R |-> Dot(q.A[i], e)]
           res == [i \in R |-> Resid(q, i, y)]
<1>1. /\ IsFiniteSet(R) /\ IsFiniteSet(C) /\ e \in [C -> Int] /\ q.b \in [R -> Int] /\ lam \in [R -> Int]
      /\ y.d \in Int /\ y.d > 0 /\ \A i \in R : q.A[i] \in [C -> Int]
  BY ProgramFacts DEF IsPoint
<1>2. /\ Inner(e, col, C) = Inner(lam, r, R)
      /\ \A i \in R : r[i] \in Int
  <2>1. Combines(q, lam, col)
    BY DEF Combines
  <2>2. Meet(q, e, r)
    BY DEF Meet
  <2> HIDE DEF col, r, e
  <2>3. SameProduct(q, lam, e, col, r)
    BY <1>1, <2>1, <2>2, ColumnsMeetRows
  <2> QED BY <2>3 DEF SameProduct
<1>3. \A j \in C : col[j] = 0
  <2> TAKE j \in C
  <2> DEFINE f == [i \in R |-> lam[i] * q.A[i][j]]
             h == [i \in R |-> q.A[i][j] * lam[i]]
  <2>1. MapThenSumSet(LAMBDA i : lam[i] * q.A[i][j], R) = Total(f, R)
    BY DEF Total, MapThenSumSet, MapThenFoldSet
  <2>2. MapThenSumSet(LAMBDA i : lam[i] * q.A[i][j], R) = 0
    BY DEF Refutes
  <2>3. \A i \in R : f[i] = h[i]
    BY <1>1
  <2>4. col[j] = Total(h, R)
    OBVIOUS
  <2> HIDE DEF f, h, col
  <2>5. Total(f, R) = Total(h, R)
    BY <1>1, <2>3, TotalAgrees
  <2> QED BY <2>1, <2>2, <2>4, <2>5
<1>4. \A i \in R : lam[i] >= 0 /\ res[i] <= 0 /\ res[i] \in Int /\ res[i] = 1 * r[i] + (-y.d) * q.b[i]
  <2> TAKE i \in R
  <2>1. lam[i] >= 0 /\ Resid(q, i, y) <= 0 /\ Resid(q, i, y) \in Int
    BY ResidInt DEF Refutes, Feasible
  <2>2. r[i] \in Int /\ q.b[i] \in Int /\ Resid(q, i, y) = r[i] - q.b[i] * y.d
    BY <1>1, <1>2 DEF Resid
  <2> DEFINE a == r[i]   b == q.b[i]   d == y.d
  <2>3. a - b * d = 1 * a + (-d) * b
    <3>1. a \in Int /\ b \in Int /\ d \in Int
      BY <1>1, <2>2
    <3> HIDE DEF a, b, d
    <3> QED BY <3>1
  <2> QED BY <2>1, <2>2, <2>3
<1>5. Inner(lam, q.b, R) < 0 /\ Inner(lam, q.b, R) \in Int
  <2>1. DOMAIN lam = R
    OBVIOUS
  <2>2. Dot(lam, q.b) = Inner(lam, q.b, R)
    BY <2>1, DotIsInner
  <2>3. Dot(lam, q.b) < 0
    BY DEF Refutes
  <2>4. Inner(lam, q.b, R) \in Int
    BY <1>1, InnerInt
  <2> QED BY <2>2, <2>3, <2>4
<1> HIDE DEF col, r, res, e, R, C
<1>6. Inner(e, col, C) = 0
  <2> DEFINE f == [j \in C |-> e[j] * col[j]]
  <2>1. \A j \in C : f[j] = 0
    BY <1>1, <1>3
  <2> HIDE DEF f
  <2>2. Total(f, C) = 0
    BY <1>1, <2>1, TotalOfZeros
  <2> QED BY <2>2 DEF Inner, f
<1>7. Inner(lam, res, R) = 1 * Inner(lam, r, R) + (-y.d) * Inner(lam, q.b, R)
  <2>1. -y.d \in Int /\ 1 \in Int
    BY <1>1
  <2>2. (\A i \in R : lam[i] \in Int) /\ (\A i \in R : r[i] \in Int) /\ (\A i \in R : q.b[i] \in Int)
    BY <1>1, <1>2
  <2>3. \A i \in R : res[i] = 1 * r[i] + (-y.d) * q.b[i]
    BY <1>4
  <2> DEFINE k == -y.d   b == q.b
  <2> HIDE DEF k, b
  <2>4. k \in Int /\ (\A i \in R : b[i] \in Int) /\ \A i \in R : res[i] = 1 * r[i] + k * b[i]
    BY <2>1, <2>2, <2>3 DEF k, b
  <2>5. Inner(lam, res, R) = 1 * Inner(lam, r, R) + k * Inner(lam, b, R)
    BY <1>1, <2>1, <2>2, <2>4, InnerLinear
  <2> QED BY <2>5 DEF k, b
<1>8. Inner(lam, res, R) <= 0
  <2> DEFINE f == [i \in R |-> lam[i] * res[i]]
             z == [i \in R |-> 0]
  <2>1. ASSUME NEW i \in R PROVE f[i] \in Int /\ z[i] \in Int /\ f[i] <= z[i]
    <3> DEFINE a == lam[i]   b == res[i]
    <3>1. a \in Int /\ b \in Int /\ a >= 0 /\ b <= 0
      BY <1>1, <1>4
    <3> HIDE DEF a, b
    <3>2. a * b \in Int /\ a * b <= 0
      BY <3>1
    <3> QED BY <3>2 DEF a, b
  <2>2. \A i \in R : z[i] = 0
    OBVIOUS
  <2> HIDE DEF f, z
  <2>3. Total(f, R) <= Total(z, R) /\ Total(z, R) = 0
    BY <1>1, <2>1, <2>2, TotalGrows, TotalOfZeros
  <2> QED BY <2>3 DEF Inner, f
<1> DEFINE d == y.d
           lb == Inner(lam, q.b, R)
<1>9. (-d) * lb <= 0
  <2>1. Inner(lam, r, R) = 0
    BY <1>2, <1>6
  <2> QED BY <1>7, <1>8, <2>1, <1>1, <1>5
<1>10. d \in Int /\ d > 0 /\ lb \in Int /\ lb < 0
  BY <1>1, <1>5
<1> HIDE DEF d, lb
<1> QED BY <1>9, <1>10

(* What is printed is real.  Only a solution depends on the gate having    *)
(* judged right, and only where no direction descends at first order.      *)
LEMMA LinesReal ==
  ASSUME Scalars = Int, QpTypes, VerdictInv, GateInv, printed = "SOLUTION" => Convex(qp)
  PROVE  LineIsReal
<1>0. qp \in QPs /\ IsPoint(x, Cols(qp)) /\ PrintedFollows
  BY DEF QpTypes, VerdictInv
<1>1. printed = "SOLUTION" => Unbeaten(qp, x)
  BY <1>0, OptimalIsUnbeaten DEF QpTypes, PrintedFollows
<1>2. printed = UNBOUNDED => HasNoFloor(qp, x)
  BY <1>0 DEF QpTypes, VerdictInv, PrintedFollows, Descends, HasNoFloor, Trials
<1>3. printed = "PROVEN" => ~ \E y \in Points(qp) : Feasible(qp, y)
  <2> SUFFICES ASSUME printed = "PROVEN", NEW y \in Points(qp) PROVE ~Feasible(qp, y)
    OBVIOUS
  <2>1. IsPoint(y, Cols(qp))
    BY DEF Points, Trials, IsPoint
  <2>2. farkas \in [Rows(qp) -> Int] /\ Refutes(qp, farkas)
    BY <1>0 DEF QpTypes, VerdictInv, PrintedFollows
  <2> QED BY <1>0, <2>1, <2>2, RefutedIsEmpty
<1>4. printed = QP_NON_CONVEX => Asymmetric(qp) \/ ~Convex(qp)
  BY <1>0, ConvexIs DEF GateInv, PrintedFollows, Rejects
<1> QED BY <1>0, <1>1, <1>2, <1>3, <1>4 DEF LineIsReal, PrintedFollows

(* Every line printed is real over all rational points and directions,     *)
(* whatever the searches, the systems and the stops did, except that a     *)
(* solution is one of a convex program only if the gate judged right.      *)
THEOREM PrintedLinesAreReal ==
  ASSUME Scalars = Int
  PROVE  Spec => []((printed = "SOLUTION" => Convex(qp)) => LineIsReal)
<1>1. QpTypes /\ VerdictInv /\ GateInv => ((printed = "SOLUTION" => Convex(qp)) => LineIsReal)
  BY LinesReal
<1> QED BY <1>1, QpInvariant, PTL

(* A step keeps the program, and solves it from the active set alone.      *)
LEMMA SolvedFromActive ==
  ASSUME [Next]_vars
  PROVE  qp' = qp /\ (status' = SOLVED => pc = "active" \/ status = SOLVED)
<1>1. CASE Gate \/ FindFeasible
  <2>1. \/ \E s \in {QP_NON_CONVEX, QP_STOPPED, NO_START} : Reject(s)
        \/ \E y : EnterActive(y)
        \/ \E lam : Prove(lam)
        \/ qp' = qp /\ status' = status
    <3>1. CASE GateAsymmetric \/ GateRejects \/ DenseStopped \/ FarkasNothing
      BY <3>1 DEF GateAsymmetric, GateRejects, DenseStopped, FarkasNothing
    <3>2. CASE GatePivot \/ GateAccepts
      BY <3>2 DEF GatePivot, GateAccepts, result
    <3>3. CASE LpPoint \/ DensePoint \/ LpStopped \/ LpNothing \/ DenseNothing
      BY <3>3 DEF LpPoint, DensePoint, LpStopped, LpNothing, DenseNothing, NextSearch, result
    <3>4. CASE LpProof \/ FarkasProof
      BY <3>4 DEF LpProof, FarkasProof
    <3> QED BY <1>1, <3>1, <3>2, <3>3, <3>4 DEF Gate, FindFeasible
  <2>2. qp' = qp /\ status' \in {status, QP_NON_CONVEX, QP_STOPPED, NO_START}
    BY <2>1 DEF Reject, EnterActive, Prove
  <2> QED BY <2>2, StatusesDiffer
<1>2. CASE ActiveSet
  <2>1. pc = "active"
    BY <1>2 DEF ActiveSet, ActiveStopped, ActiveCapped, KktFails, Diverged, Iterate, InLoop
  <2>2. (\E y, w : Iterated(y, w)) \/ (\E s : Leave(s))
    <3>1. CASE ActiveStopped \/ ActiveCapped \/ Diverged \/ KktFails
      BY <3>1 DEF ActiveStopped, ActiveCapped, Diverged, KktFails
    <3>2. CASE Iterate
      <4>1. PICK step : Stationary(step) \/ Unbounded(step) \/ Move(step)
        BY <3>2 DEF Iterate
      <4>2. CASE Stationary(step)
        BY <4>2 DEF Stationary, DropRow, Conclude
      <4>3. CASE Unbounded(step)
        BY <4>3 DEF Unbounded
      <4>4. CASE Move(step)
        BY <4>4 DEF Move
      <4> QED BY <4>1, <4>2, <4>3, <4>4
    <3> QED BY <1>2, <3>1, <3>2 DEF ActiveSet
  <2> QED BY <2>1, <2>2 DEF Iterated, Leave
<1>3. CASE PrintLine \/ Alarm \/ UNCHANGED vars
  BY <1>3 DEF PrintLine, Alarm, vars, result
<1> QED BY <1>1, <1>2, <1>3 DEF Next, Work

(* So with a gate that does what qp.h says every line is real.             *)
THEOREM ExactGateMakesLinesReal ==
  ASSUME Scalars = Int
  PROVE  Spec /\ []GateIsExact => []LineIsReal
<1> DEFINE Judged == status = SOLVED => Convex(qp)
<1>1. Init => Judged
  BY StatusesDiffer DEF Init
<1>2. QpTypes /\ VerdictInv /\ GateInv /\ GateIsExact /\ Judged /\ [Next]_vars => Judged'
  <2> SUFFICES ASSUME QpTypes, VerdictInv, GateInv, GateIsExact, Judged, [Next]_vars, status' = SOLVED
               PROVE  Convex(qp)'
    OBVIOUS
  <2>1. qp' = qp /\ (pc = "active" \/ status = SOLVED)
    BY SolvedFromActive
  <2>2. Convex(qp)
    BY <2>1 DEF GateIsExact, Judged
  <2> QED BY <2>1, <2>2
<1>3. Judged /\ VerdictInv => (printed = "SOLUTION" => Convex(qp))
  BY DEF VerdictInv, PrintedFollows
<1> HIDE DEF Judged
<1>4. Spec /\ []GateIsExact => []Judged
  BY <1>1, <1>2, QpInvariant, PTL DEF Spec
<1> QED BY <1>3, <1>4, PrintedLinesAreReal, QpInvariant, PTL
=============================================================================
