----------------------------- MODULE PgsProofs ------------------------------
(***************************************************************************)
(* The fixed-point kernel minimizes: for every word size, any number of    *)
(* variables and every call within the contract of pgs.h, no update        *)
(* without over-relaxation raises the objective, and convergence is real,  *)
(* although every step is rounded, saturated and clipped.                  *)
(***************************************************************************)
EXTENDS PgsFixed, SumFacts

----------------------------------------------------------------------------
(* Arithmetic on words.                                                    *)

(* Division and remainder by a positive number.                            *)
LEMMA DivisionFacts ==
  ASSUME NEW a \in Int, NEW b \in Nat \ {0}
  PROVE  /\ a \div b \in Int /\ a % b \in Int
         /\ a = b * (a \div b) + (a % b)
         /\ 0 <= a % b /\ a % b < b
OBVIOUS

(* A value that fits a type of 2 * h values is left as it is.              *)
LEMMA WrapIsIdle ==
  ASSUME NEW h \in Nat \ {0}, NEW v \in Int, -h <= v, v < h
  PROVE  Wrap(v, h) = v
<1> DEFINE m == 2 * h   q == v \div m   low == v % m
<1>1. m \in Nat \ {0}
  OBVIOUS
<1>2. q \in Int /\ low \in Int /\ v = m * q + low /\ 0 <= low /\ low < m
  BY <1>1, DivisionFacts
<1>3. CASE 0 <= v
  <2>1. q = 0
    <3>1. CASE q >= 1
      <4>1. m * q >= m  BY <3>1, <1>1, <1>2
      <4> QED BY <4>1, <1>1, <1>2
    <3>2. CASE q <= -1
      <4>1. m * q <= -m  BY <3>2, <1>1, <1>2
      <4> QED BY <4>1, <1>1, <1>2, <1>3
    <3> QED BY <3>1, <3>2, <1>2
  <2>2. low = v
    BY <2>1, <1>1, <1>2
  <2> QED BY <2>2 DEF Wrap
<1>4. CASE v < 0
  <2>1. q = -1
    <3>1. CASE q >= 0
      <4>1. m * q >= 0  BY <3>1, <1>1, <1>2
      <4> QED BY <4>1, <1>1, <1>2, <1>4
    <3>2. CASE q <= -2
      <4>1. m * q <= -2 * m  BY <3>2, <1>1, <1>2
      <4> QED BY <4>1, <1>1, <1>2
    <3> QED BY <3>1, <3>2, <1>2
  <2>2. low = v + m
    BY <2>1, <1>1, <1>2
  <2> QED BY <2>2 DEF Wrap
<1> QED BY <1>3, <1>4

(* Sums that fit the wide accumulator are exact.                           *)
LEMMA WideIsIdle ==
  ASSUME NEW v \in Int, -WideHalf <= v, v < WideHalf
  PROVE  Wide(v) = v
<1>1. WideHalf \in Nat \ {0}
  BY HalfAssumption DEF WideHalf
<1> QED BY <1>1, WrapIsIdle DEF Wide

(* The quotient that div_round_sat rounds to, before it is saturated.      *)
Nearest(v, d) ==
  LET q == (2 * Magnitude(v) + d) \div (2 * d) IN IF v < 0 THEN -q ELSE q

(* It is within half of the exact quotient.                                *)
LEMMA NearestFacts ==
  ASSUME NEW v \in Int, NEW d \in Nat \ {0}
  PROVE  /\ Nearest(v, d) \in Int
         /\ 2 * (d * Nearest(v, d)) - d <= 2 * v
         /\ 2 * v <= 2 * (d * Nearest(v, d)) + d
         /\ div_round_sat(v, d) = sat64(Nearest(v, d))
<1> DEFINE a == 2 * Magnitude(v) + d   q == a \div (2 * d)
<1>1. a \in Int /\ 2 * d \in Nat \ {0} /\ Magnitude(v) \in Nat
  BY DEF Magnitude
<1>2. q \in Int /\ (2 * d) * q <= a /\ a < (2 * d) * q + 2 * d
  <2> DEFINE m == 2 * d
  <2>1. m \in Nat \ {0} /\ a \in Int
    BY <1>1
  <2> HIDE DEF m, a
  <2>2. a \div m \in Int /\ m * (a \div m) <= a /\ a < m * (a \div m) + m
    <3>1. /\ a \div m \in Int /\ a % m \in Int
          /\ a = m * (a \div m) + (a % m) /\ 0 <= a % m /\ a % m < m
      BY <2>1, DivisionFacts
    <3>2. m * (a \div m) \in Int
      BY <2>1, <3>1
    <3> QED BY <2>1, <3>1, <3>2
  <2> QED BY <2>2 DEF m, a
<1>3. (2 * d) * q = 2 * (d * q) /\ d * q \in Int /\ d * (-q) = -(d * q)
  BY <1>2
<1>4. Nearest(v, d) = IF v < 0 THEN -q ELSE q
  BY DEF Nearest
<1>5. div_round_sat(v, d) = sat64(Nearest(v, d))
  BY DEF div_round_sat, Nearest
<1> HIDE DEF q
<1> QED BY <1>1, <1>2, <1>3, <1>4, <1>5 DEF Magnitude

(* Words are integers between the two limits, and saturating gives one.    *)
LEMMA WordFacts ==
  /\ WORD_MIN \in Int /\ WORD_MAX \in Int /\ WORD_MIN < 0 /\ WORD_MAX >= 0
  /\ \A v \in Int : sat64(v) \in Word
  /\ \A v \in Word : v \in Int /\ WORD_MIN <= v /\ v <= WORD_MAX /\ Magnitude(v) \in 0 .. Half
BY HalfAssumption DEF WORD_MIN, WORD_MAX, Word, sat64, Clip, Magnitude

(* A saturated rounded quotient s of v by d: halfway to any word below it  *)
(* does not reach beyond v / d, nor does halfway to any word above it.     *)
LEMMA QuotientSides ==
  ASSUME NEW v \in Int, NEW d \in Nat \ {0}
  PROVE  LET s == div_round_sat(v, d)
         IN  /\ s \in Word
             /\ s > WORD_MIN => d * (2 * s - 1) <= 2 * v
             /\ s < WORD_MAX => 2 * v <= d * (2 * s + 1)
<1> DEFINE R == Nearest(v, d)   s == div_round_sat(v, d)
<1>1. R \in Int /\ 2 * (d * R) - d <= 2 * v /\ 2 * v <= 2 * (d * R) + d /\ s = sat64(R)
  BY NearestFacts
<1> HIDE DEF R, s
<1>2. s \in Word /\ s \in Int
  BY <1>1, WordFacts
<1>3. ASSUME s > WORD_MIN PROVE d * (2 * s - 1) <= 2 * v
  <2>1. s <= R
    BY <1>1, <1>3, WordFacts DEF sat64, Clip
  <2>2. d * (R - s) >= 0
    BY <2>1, <1>1, <1>2
  <2>3. d * (2 * s - 1) = 2 * (d * R) - d - 2 * (d * (R - s)) /\ d * (R - s) \in Int /\ d * R \in Int
    BY <1>1, <1>2
  <2> QED BY <2>2, <2>3, <1>1
<1>4. ASSUME s < WORD_MAX PROVE 2 * v <= d * (2 * s + 1)
  <2>1. s >= R
    BY <1>1, <1>4, WordFacts DEF sat64, Clip
  <2>2. d * (s - R) >= 0
    BY <2>1, <1>1, <1>2
  <2>3. d * (2 * s + 1) = 2 * (d * R) + d + 2 * (d * (s - R)) /\ d * (s - R) \in Int /\ d * R \in Int
    BY <1>1, <1>2
  <2> QED BY <2>2, <2>3, <1>1
<1> QED BY <1>2, <1>3, <1>4 DEF s

(* Under-relaxation stays between where it starts and where it aims.       *)
LEMMA Blends ==
  ASSUME NEW w \in Int, NEW W \in Word, 1 <= w, w <= W, NEW a \in Word, NEW s \in Word
  PROVE  LET y == div_round_sat(Wide((W - w) * a + w * s), W)
         IN  /\ y \in Int
             /\ a <= s => a <= y /\ y <= s
             /\ s <= a => s <= y /\ y <= a
             /\ w = W => y = s
<1> DEFINE num == (W - w) * a + w * s   y == div_round_sat(Wide(num), W)   R == Nearest(num, W)
<1>1. W \in Nat \ {0} /\ a \in Int /\ s \in Int /\ w \in Int /\ W <= Half
  BY WordFacts, HalfAssumption DEF WORD_MAX
<1>2. num \in Int /\ W * a \in Int /\ W * s \in Int
      /\ num - W * a = w * (s - a) /\ W * s - num = (W - w) * (s - a)
  BY <1>1
<1>3. a <= s => W * a <= num /\ num <= W * s
  <2> SUFFICES ASSUME a <= s PROVE W * a <= num /\ num <= W * s
    OBVIOUS
  <2>1. w * (s - a) >= 0 /\ (W - w) * (s - a) >= 0 /\ w * (s - a) \in Int /\ (W - w) * (s - a) \in Int
    BY <1>1
  <2> HIDE DEF num
  <2> QED BY <2>1, <1>2
<1>4. s <= a => W * s <= num /\ num <= W * a
  <2> SUFFICES ASSUME s <= a PROVE W * s <= num /\ num <= W * a
    OBVIOUS
  <2>1. w * (s - a) <= 0 /\ (W - w) * (s - a) <= 0 /\ w * (s - a) \in Int /\ (W - w) * (s - a) \in Int
    BY <1>1
  <2> HIDE DEF num
  <2> QED BY <2>1, <1>2
<1>4a. w = W => num = W * s
  BY <1>1
<1> HIDE DEF num
<1>5. Wide(num) = num
  <2>1. \A v \in Word : -(Half * Half) <= W * v /\ W * v <= Half * Half
    <3> SUFFICES ASSUME NEW v \in Word PROVE -(Half * Half) <= W * v /\ W * v <= Half * Half
      OBVIOUS
    <3>1. v \in Int /\ -Half <= v /\ v <= Half
      BY WordFacts, HalfAssumption DEF WORD_MIN, WORD_MAX
    <3>2. W * (Half - v) >= 0 /\ W * (Half + v) >= 0 /\ Half * (Half - W) >= 0
      BY <1>1, <3>1, HalfAssumption
    <3>3. W * (Half - v) = W * Half - W * v /\ W * (Half + v) = W * Half + W * v
          /\ Half * (Half - W) = Half * Half - W * Half
          /\ W * Half \in Int /\ W * v \in Int /\ Half * Half \in Int
      BY <1>1, <3>1, HalfAssumption
    <3> QED BY <3>2, <3>3
  <2>2. -(Half * Half) <= num /\ num <= Half * Half
    BY <2>1, <1>1, <1>2, <1>3, <1>4, HalfAssumption
  <2>3. Half * Half \in Nat \ {0} /\ WideHalf = 2 * (Half * Half)
    BY HalfAssumption DEF WideHalf
  <2> QED BY <2>2, <2>3, <1>2, WideIsIdle
<1>6. R \in Int /\ 2 * (W * R) - W <= 2 * num /\ 2 * num <= 2 * (W * R) + W /\ y = sat64(R)
  BY <1>1, <1>2, <1>5, NearestFacts
<1> HIDE DEF R
<1>7. \A v \in Int : /\ W * v <= num => v <= R
                     /\ num <= W * v => R <= v
  <2> SUFFICES ASSUME NEW v \in Int
               PROVE  /\ W * v <= num => v <= R
                      /\ num <= W * v => R <= v
    OBVIOUS
  <2>1. W * v \in Int /\ W * R \in Int /\ W * (v - R) = W * v - W * R
    BY <1>1, <1>6
  <2>2. ASSUME W * v <= num, v > R PROVE FALSE
    <3>1. W * (v - R) >= W
      BY <2>2, <1>1, <1>6
    <3> QED BY <3>1, <2>1, <2>2, <1>1, <1>2, <1>6
  <2>3. ASSUME num <= W * v, R > v PROVE FALSE
    <3>1. W * (v - R) <= -W
      BY <2>3, <1>1, <1>6
    <3> QED BY <3>1, <2>1, <2>3, <1>1, <1>2, <1>6
  <2> QED BY <2>2, <2>3, <1>6
<1>8. a <= s => a <= R /\ R <= s
  BY <1>1, <1>3, <1>7
<1>9. s <= a => s <= R /\ R <= a
  BY <1>1, <1>4, <1>7
<1>10. y = R
  BY <1>1, <1>6, <1>8, <1>9, WordFacts DEF sat64, Clip
<1>11. w = W => R = s
  BY <1>1, <1>2, <1>4a, <1>7, <1>6
<1> QED BY <1>6, <1>8, <1>9, <1>10, <1>11 DEF y, num

----------------------------------------------------------------------------
(* The objective.                                                          *)

Inner(p, j) == Total([k \in Ones |-> problem.A[j][k] * p[k]], Ones)
InBox(p) == p \in [Ones -> Int] /\ \A j \in Ones : problem.lo[j] <= p[j] /\ p[j] <= problem.hi[j]
Kept == problem \in Problems /\ InContract(problem)

(* The types of a call's data, row by row.                                 *)
LEMMA CallFacts ==
  ASSUME problem \in Problems
  PROVE  /\ n \in Nat /\ Ones = DOMAIN problem.b /\ IsFiniteSet(Ones) /\ Ones \subseteq Nat
         /\ \A j \in Ones : /\ problem.b[j] \in Int /\ problem.b[j] \in Word
                            /\ problem.lo[j] \in Int /\ problem.lo[j] \in Word
                            /\ problem.hi[j] \in Int /\ problem.hi[j] \in Word
                            /\ problem.x0[j] \in Int
                            /\ \A k \in Ones : problem.A[j][k] \in Int
         /\ problem.x0 \in [Ones -> Int]
         /\ w_den \in Word /\ w_den >= 1 /\ w_num \in Int /\ w_num >= 1
         /\ problem.tol \in Int /\ max_iter \in Int
<1>1. /\ problem.b \in Seq(Word)
      /\ problem.lo \in [DOMAIN problem.b -> Word] /\ problem.hi \in [DOMAIN problem.b -> Word]
      /\ problem.x0 \in [DOMAIN problem.b -> Word]
      /\ problem.A \in [DOMAIN problem.b -> [DOMAIN problem.b -> Word]]
      /\ problem.w_num \in Word /\ problem.w_den \in Word /\ problem.tol \in Word
      /\ problem.max_iter \in Int
  BY ProblemsAssumption
<1>2. n \in Nat /\ Ones = DOMAIN problem.b
  BY <1>1 DEF n, Ones
<1>3. IsFiniteSet(Ones) /\ Ones \subseteq Nat
  BY <1>2, FS_Interval DEF Ones
<1>4. Word \subseteq Int
  BY WordFacts
<1>5. \A j \in Ones : problem.b[j] \in Word
  BY <1>1, <1>2 DEF n, Ones
<1>6. w_den \in Word /\ w_den >= 1 /\ w_num \in Int /\ w_num >= 1
  BY <1>1, <1>4, HalfAssumption DEF w_den, w_num, Word, WORD_MIN, WORD_MAX
<1>7. max_iter \in Int
  BY <1>1 DEF max_iter
<1> QED BY <1>1, <1>2, <1>3, <1>4, <1>5, <1>6, <1>7

(* The inner sum of a row is an integer.                                   *)
LEMMA InnerInt ==
  ASSUME problem \in Problems, NEW p \in [Ones -> Int], NEW j \in Ones
  PROVE  Inner(p, j) \in Int
<1> DEFINE f == [k \in Ones |-> problem.A[j][k] * p[k]]
<1>1. \A k \in Ones : f[k] \in Int
  BY CallFacts
<1> HIDE DEF f
<1>2. Total(f, Ones) \in Int
  BY <1>1, CallFacts, TotalInt
<1> QED BY <1>2 DEF Inner, f

(* Moving one variable changes a row's product by its coefficient.         *)
LEMMA InnerMoves ==
  ASSUME problem \in Problems, NEW p \in [Ones -> Int], NEW j \in Ones, NEW y \in Int,
         NEW k \in Ones
  PROVE  Inner([p EXCEPT ![j] = y], k) = Inner(p, k) + (y - p[j]) * problem.A[k][j]
<1> DEFINE q == [p EXCEPT ![j] = y]
           f == [m \in Ones |-> problem.A[k][m] * p[m]]
           g == [m \in Ones |-> problem.A[k][m] * q[m]]
           rest == Ones \ {j}
<1>1. q \in [Ones -> Int] /\ q[j] = y /\ \A m \in rest : q[m] = p[m]
  OBVIOUS
<1>2. \A m \in Ones : f[m] \in Int /\ g[m] \in Int
  BY <1>1, CallFacts
<1>3. \A m \in rest : f[m] = g[m]
  BY <1>1
<1>4. f[j] = problem.A[k][j] * p[j] /\ g[j] = problem.A[k][j] * y
  BY <1>1
<1>5. Inner(p, k) = Total(f, Ones) /\ Inner(q, k) = Total(g, Ones)
  BY DEF Inner
<1> HIDE DEF f, g
<1>6. IsFiniteSet(Ones) /\ IsFiniteSet(rest)
  BY CallFacts, FS_Subset
<1>7. Total(f, Ones) = f[j] + Total(f, rest) /\ Total(g, Ones) = g[j] + Total(g, rest)
  BY <1>2, <1>6, TotalTakesOut
<1>8. Total(f, rest) = Total(g, rest)
  BY <1>3, <1>6, TotalAgrees
<1>9. Total(f, rest) \in Int
  BY <1>2, <1>6, TotalInt
<1>10. problem.A[k][j] \in Int /\ p[j] \in Int
  BY CallFacts
<1>11. problem.A[k][j] * y = problem.A[k][j] * p[j] + (y - p[j]) * problem.A[k][j]
       /\ problem.A[k][j] * p[j] \in Int /\ (y - p[j]) * problem.A[k][j] \in Int
  BY <1>10
<1> QED BY <1>4, <1>5, <1>7, <1>8, <1>9, <1>11

(* Moving one variable changes the objective by a parabola in the move.    *)
LEMMA EnergyMoves ==
  ASSUME Kept, NEW p \in [Ones -> Int], NEW j \in Ones, NEW y \in Int
  PROVE  /\ Energy(p) \in Int
         /\ Energy([p EXCEPT ![j] = y]) =
              Energy(p) + (y - p[j]) * (2 * (problem.b[j] + Inner(p, j))
                                        + (y - p[j]) * problem.A[j][j])
<1> USE DEF Kept
<1> DEFINE q == [p EXCEPT ![j] = y]
           e(r) == [k \in Ones |-> r[k] * (2 * problem.b[k] + Inner(r, k))]
           d == y - p[j]
           g == [k \in Ones |-> problem.A[j][k] * p[k]]
           dg == [k \in Ones |-> d * g[k]]
           ep == e(p)   eq == e(q)
           h == [k \in Ones |-> ep[k] + dg[k]]
           rest == Ones \ {j}
<1>1. q \in [Ones -> Int] /\ q[j] = y /\ \A k \in rest : q[k] = p[k]
  OBVIOUS
<1>2. d \in Int /\ IsFiniteSet(Ones) /\ IsFiniteSet(rest)
  BY CallFacts, FS_Subset
<1>3. Energy(p) = Total(ep, Ones) /\ Energy(q) = Total(eq, Ones)
  BY DEF Energy, Sum, Total, Inner
<1>4. \A k \in Ones : /\ Inner(p, k) \in Int /\ Inner(q, k) = Inner(p, k) + d * problem.A[k][j]
                       /\ problem.A[k][j] \in Int /\ problem.A[j][k] = problem.A[k][j]
                       /\ problem.b[k] \in Int /\ p[k] \in Int
  BY InnerInt, InnerMoves, CallFacts DEF InContract
<1>5. \A k \in Ones : /\ ep[k] = p[k] * (2 * problem.b[k] + Inner(p, k)) /\ ep[k] \in Int
                       /\ g[k] = problem.A[j][k] * p[k] /\ g[k] \in Int
                       /\ dg[k] = d * g[k] /\ dg[k] \in Int
                       /\ h[k] = ep[k] + dg[k] /\ h[k] \in Int
  BY <1>2, <1>4
<1>6. \A k \in rest : eq[k] = h[k]
  <2> SUFFICES ASSUME NEW k \in rest PROVE eq[k] = h[k]
    OBVIOUS
  <2>1. eq[k] = p[k] * (2 * problem.b[k] + (Inner(p, k) + d * problem.A[k][j]))
    BY <1>1, <1>4
  <2>2. h[k] = p[k] * (2 * problem.b[k] + Inner(p, k)) + d * (problem.A[k][j] * p[k])
    BY <1>4, <1>5
  <2> DEFINE P == p[k]   B == problem.b[k]   I == Inner(p, k)   A == problem.A[k][j]
  <2>3. P \in Int /\ B \in Int /\ I \in Int /\ A \in Int
    BY <1>4
  <2> HIDE DEF P, B, I, A, d
  <2>4. P * (2 * B + (I + d * A)) = P * (2 * B + I) + d * (A * P)
    BY <2>3, <1>2
  <2> QED BY <2>1, <2>2, <2>4 DEF P, B, I, A
<1> DEFINE move == d * (2 * problem.b[j] + Inner(p, j) + d * problem.A[j][j])
<1>7. eq[j] = h[j] + move /\ move \in Int /\ eq[j] \in Int
  <2>1. eq[j] = y * (2 * problem.b[j] + (Inner(p, j) + d * problem.A[j][j]))
    BY <1>1, <1>4
  <2>2. h[j] = p[j] * (2 * problem.b[j] + Inner(p, j)) + d * (problem.A[j][j] * p[j])
    BY <1>4, <1>5
  <2> DEFINE P == p[j]   B == problem.b[j]   I == Inner(p, j)   A == problem.A[j][j]
  <2>3. P \in Int /\ B \in Int /\ I \in Int /\ A \in Int /\ y = P + d
    BY <1>4
  <2>4. move = d * (2 * B + I + d * A)
    OBVIOUS
  <2> HIDE DEF P, B, I, A, d, move
  <2>5. y * (2 * B + (I + d * A)) = P * (2 * B + I) + d * (A * P) + d * (2 * B + I + d * A)
    BY <2>3, <1>2
  <2>6. d * (2 * B + I + d * A) \in Int /\ y * (2 * B + (I + d * A)) \in Int
    BY <2>3, <1>2
  <2>7. eq[j] = y * (2 * B + (I + d * A)) /\ h[j] = P * (2 * B + I) + d * (A * P)
    BY <2>1, <2>2 DEF P, B, I, A
  <2> HIDE DEF eq, h
  <2> QED BY <2>4, <2>5, <2>6, <2>7
<1>8. Inner(p, j) = Total(g, Ones)
  BY DEF Inner
<1> HIDE DEF ep, eq, g, h, dg, d, move, rest
<1>9. Total(h, Ones) = Total(ep, Ones) + Total(dg, Ones)
  BY <1>2, <1>5, TotalAdds
<1>10. Total(dg, Ones) = d * Total(g, Ones)
  BY <1>2, <1>5, TotalScales
<1>11. \A k \in Ones : eq[k] \in Int
  BY <1>5, <1>6, <1>7 DEF rest
<1>12. Total(eq, Ones) = eq[j] + Total(eq, rest) /\ Total(h, Ones) = h[j] + Total(h, rest)
  BY <1>2, <1>5, <1>11, TotalTakesOut DEF rest
<1>13. Total(eq, rest) = Total(h, rest)
  BY <1>2, <1>6, TotalAgrees
<1>14. Total(h, rest) \in Int /\ Total(ep, Ones) \in Int /\ Total(g, Ones) \in Int
  <2>1. \A k \in rest : h[k] \in Int
    BY <1>5 DEF rest
  <2> QED BY <2>1, <1>2, <1>5, TotalInt
<1>15. Total(eq, Ones) = Total(ep, Ones) + d * Total(g, Ones) + move
  <2>1. d * Total(g, Ones) \in Int
    BY <1>2, <1>14
  <2> QED BY <2>1, <1>5, <1>7, <1>9, <1>10, <1>12, <1>13, <1>14
<1>16. d * Total(g, Ones) + move =
         d * (2 * (problem.b[j] + Inner(p, j)) + d * problem.A[j][j])
  <2> DEFINE B == problem.b[j]   I == Inner(p, j)   A == problem.A[j][j]
  <2>1. B \in Int /\ I \in Int /\ A \in Int /\ Total(g, Ones) = I /\ move = d * (2 * B + I + d * A)
    BY <1>4, <1>8 DEF move
  <2> HIDE DEF B, I, A
  <2>2. d * I + d * (2 * B + I + d * A) = d * (2 * (B + I) + d * A)
    BY <2>1, <1>2
  <2> QED BY <2>1, <2>2 DEF B, I, A
<1>17. d * Total(g, Ones) \in Int
  BY <1>2, <1>14
<1> QED BY <1>3, <1>7, <1>14, <1>15, <1>16, <1>17 DEF d

----------------------------------------------------------------------------
(* One update.                                                             *)

Residual(p, j) == problem.b[j] + (Inner(p, j) - problem.A[j][j] * p[j])

(* A product is no larger than the largest products of its factors.        *)
LEMMA ProductBound ==
  ASSUME NEW a \in Int, NEW v \in Int, NEW m \in Nat, -m <= v, v <= m
  PROVE  /\ Magnitude(a) * m \in Nat
         /\ -(Magnitude(a) * m) <= a * v /\ a * v <= Magnitude(a) * m
<1>1. CASE a >= 0
  <2>1. a * (m - v) >= 0 /\ a * (m + v) >= 0
    BY <1>1
  <2>2. a * (m - v) = a * m - a * v /\ a * (m + v) = a * m + a * v
        /\ a * m \in Nat /\ a * v \in Int
    BY <1>1
  <2>3. Magnitude(a) = a
    BY <1>1 DEF Magnitude
  <2> QED BY <2>1, <2>2, <2>3
<1>2. CASE a < 0
  <2> DEFINE c == -a
  <2>1. c \in Nat /\ Magnitude(a) = c /\ a * v = -(c * v)
    BY <1>2 DEF Magnitude
  <2> HIDE DEF c
  <2>2. c * (m - v) >= 0 /\ c * (m + v) >= 0
    BY <2>1
  <2>3. c * (m - v) = c * m - c * v /\ c * (m + v) = c * m + c * v
        /\ c * m \in Nat /\ c * v \in Int
    BY <2>1
  <2> QED BY <2>1, <2>2, <2>3
<1> QED BY <1>1, <1>2

(* Under the contract no sum of an update leaves the wide range.           *)
LEMMA SumsFit ==
  ASSUME Kept, NEW p, InBox(p), NEW j \in Ones
  PROVE  /\ Inner(p, j) \in Int /\ -WideHalf < Inner(p, j) /\ Inner(p, j) < WideHalf
         /\ Residual(p, j) \in Int
         /\ -WideHalf < Residual(p, j) /\ Residual(p, j) < WideHalf
<1> USE DEF Kept
<1> DEFINE far(k) == IF Magnitude(problem.lo[k]) > Magnitude(problem.hi[k])
                     THEN Magnitude(problem.lo[k]) ELSE Magnitude(problem.hi[k])
           most == [k \in Ones |-> Magnitude(problem.A[j][k]) * far(k)]
           least == [k \in Ones |-> -1 * most[k]]
           f == [k \in Ones |-> problem.A[j][k] * p[k]]
           rest == Ones \ {j}
<1>1. IsFiniteSet(Ones) /\ IsFiniteSet(rest) /\ Ones = DOMAIN problem.b
  BY CallFacts, FS_Subset
<1>2. \A k \in Ones : /\ most[k] \in Nat /\ f[k] \in Int
                       /\ least[k] = -most[k] /\ -most[k] <= f[k] /\ f[k] <= most[k]
  <2> SUFFICES ASSUME NEW k \in Ones
               PROVE  /\ most[k] \in Nat /\ f[k] \in Int
                      /\ least[k] = -most[k] /\ -most[k] <= f[k] /\ f[k] <= most[k]
    OBVIOUS
  <2>1. /\ problem.A[j][k] \in Int /\ problem.lo[k] \in Int /\ problem.hi[k] \in Int
        /\ p[k] \in Int /\ problem.lo[k] <= p[k] /\ p[k] <= problem.hi[k]
    BY CallFacts DEF InBox
  <2>2. far(k) \in Nat /\ -far(k) <= p[k] /\ p[k] <= far(k)
    BY <2>1 DEF Magnitude
  <2> HIDE DEF far
  <2>3. /\ Magnitude(problem.A[j][k]) * far(k) \in Nat
        /\ -(Magnitude(problem.A[j][k]) * far(k)) <= problem.A[j][k] * p[k]
        /\ problem.A[j][k] * p[k] <= Magnitude(problem.A[j][k]) * far(k)
    BY <2>1, <2>2, ProductBound
  <2>4. problem.A[j][k] * p[k] \in Int
    BY <2>1
  <2> QED BY <2>3, <2>4
<1>3. Reach(problem, j) = Total(most, Ones) + Magnitude(problem.b[j])
  BY <1>1 DEF Reach, Sum, Total
<1>4. Inner(p, j) = Total(f, Ones)
  BY DEF Inner
<1>5. f[j] = problem.A[j][j] * p[j] /\ problem.b[j] \in Int /\ Reach(problem, j) < WideHalf
  BY CallFacts, <1>1 DEF InContract
<1> HIDE DEF most, least, f
<1>6. \A S \in {Ones, rest} : /\ Total(f, S) \in Int /\ Total(most, S) \in Int
                              /\ Total(f, S) <= Total(most, S)
                              /\ -Total(most, S) <= Total(f, S)
  <2> SUFFICES ASSUME NEW S \in {Ones, rest}
               PROVE  /\ Total(f, S) \in Int /\ Total(most, S) \in Int
                      /\ Total(f, S) <= Total(most, S)
                      /\ -Total(most, S) <= Total(f, S)
    OBVIOUS
  <2>1. IsFiniteSet(S) /\ S \subseteq Ones
    BY <1>1
  <2>2. \A k \in S : /\ most[k] \in Int /\ f[k] \in Int /\ least[k] \in Int
                      /\ least[k] <= f[k] /\ f[k] <= most[k]
    BY <2>1, <1>2
  <2>3. Total(f, S) \in Int /\ Total(most, S) \in Int
    BY <2>1, <2>2, TotalInt
  <2>4. Total(f, S) <= Total(most, S) /\ Total(least, S) <= Total(f, S)
    BY <2>1, <2>2, TotalGrows
  <2>5. Total(least, S) = (-1) * Total(most, S)
    <3>1. \A k \in S : least[k] = (-1) * most[k]
      BY <2>2, <2>1, <1>2
    <3> QED BY <3>1, <2>1, <2>2, TotalScales
  <2> QED BY <2>3, <2>4, <2>5
<1>7. Total(f, Ones) = f[j] + Total(f, rest) /\ Total(most, Ones) = most[j] + Total(most, rest)
  <2>1. \A k \in Ones : f[k] \in Int /\ most[k] \in Int
    BY <1>2
  <2> QED BY <2>1, <1>1, TotalTakesOut
<1>8. Residual(p, j) = problem.b[j] + Total(f, rest)
  BY <1>2, <1>4, <1>5, <1>6, <1>7 DEF Residual
<1>9. /\ Total(f, rest) \in Int /\ Total(most, rest) \in Int /\ Total(f, rest) <= Total(most, rest)
      /\ -Total(most, rest) <= Total(f, rest)
      /\ Total(f, Ones) \in Int /\ Total(most, Ones) \in Int /\ Total(f, Ones) <= Total(most, Ones)
      /\ -Total(most, Ones) <= Total(f, Ones)
  BY <1>6
<1>10. Magnitude(problem.b[j]) \in Nat /\ problem.b[j] <= Magnitude(problem.b[j])
       /\ -Magnitude(problem.b[j]) <= problem.b[j]
  BY <1>5 DEF Magnitude
<1>11. WideHalf \in Int
  BY HalfAssumption DEF WideHalf
<1>12. most[j] \in Nat
  BY <1>2
<1> QED BY <1>3, <1>4, <1>5, <1>7, <1>8, <1>9, <1>10, <1>11, <1>12

(* The step of a row with a positive diagonal is the rounded minimum.      *)
LEMMA StepIsRounded ==
  ASSUME Kept, InBox(x), NEW j \in Ones, problem.A[j][j] > 0
  PROVE  Step(j) = div_round_sat(-Residual(x, j), problem.A[j][j])
<1>1. Sum([k \in Ones |-> problem.A[j][k] * x[k]], Ones) = Inner(x, j)
  BY DEF Sum, Inner, Total
<1>2. Wide(Inner(x, j)) = Inner(x, j) /\ Wide(Residual(x, j)) = Residual(x, j)
      /\ Wide(-Residual(x, j)) = -Residual(x, j)
  <2>1. WideHalf \in Int
    BY HalfAssumption DEF WideHalf
  <2> QED BY <2>1, SumsFit, WideIsIdle
<1>3. Step(j) = LET r == Wide(problem.b[j] + (Wide(Inner(x, j)) - problem.A[j][j] * x[j]))
                IN  div_round_sat(Wide(-r), problem.A[j][j])
  BY <1>1 DEF Step
<1> QED BY <1>2, <1>3 DEF Residual

(* A relaxed entry stays inside its box.                                   *)
LEMMA RelaxedInBox ==
  ASSUME problem \in Problems, InBox(x), NEW j \in Ones, problem.lo[j] <= problem.hi[j]
  PROVE  /\ Relaxed(j) \in Int
         /\ problem.lo[j] <= Relaxed(j) /\ Relaxed(j) <= problem.hi[j]
<1> DEFINE v == div_round_sat(Wide((w_den - w_num) * x[j] + w_num * Step(j)), w_den)
<1>1. WideHalf \in Nat \ {0}
  BY HalfAssumption DEF WideHalf
<1>2. \A u \in Int : Wide(u) \in Int
  <2> SUFFICES ASSUME NEW u \in Int PROVE Wide(u) \in Int
    OBVIOUS
  <2> DEFINE m == 2 * WideHalf
  <2>1. m \in Nat \ {0}
    BY <1>1
  <2> HIDE DEF m
  <2>2. u % m \in Int
    BY <2>1, DivisionFacts
  <2> QED BY <2>2, <1>1 DEF Wide, Wrap, m
<1>3. \A u \in Int, d \in Nat \ {0} : div_round_sat(u, d) \in Word
  BY NearestFacts, WordFacts
<1>4. problem.A[j][j] \in Int /\ problem.b[j] \in Int /\ x[j] \in Int /\ Inner(x, j) \in Int
      /\ problem.lo[j] \in Int /\ problem.hi[j] \in Int
      /\ w_den \in Nat \ {0} /\ w_num \in Int
  <2>1. x \in [Ones -> Int]
    BY DEF InBox
  <2>2. Inner(x, j) \in Int
    BY <2>1, InnerInt
  <2>3. problem.A[j][j] \in Int /\ problem.b[j] \in Int /\ x[j] \in Int
        /\ problem.lo[j] \in Int /\ problem.hi[j] \in Int /\ w_num \in Int
    BY <2>1, CallFacts
  <2>4. w_den \in Nat \ {0}
    BY CallFacts, WordFacts
  <2> QED BY <2>2, <2>3, <2>4
<1>5. Step(j) \in Int
  <2>1. Sum([k \in Ones |-> problem.A[j][k] * x[k]], Ones) = Inner(x, j)
    BY DEF Sum, Inner, Total
  <2> DEFINE r == Wide(problem.b[j] + (Wide(Inner(x, j)) - problem.A[j][j] * x[j]))
  <2>2. Step(j) = IF problem.A[j][j] > 0 THEN div_round_sat(Wide(-r), problem.A[j][j]) ELSE 0
    BY <2>1 DEF Step
  <2>3. problem.b[j] + (Wide(Inner(x, j)) - problem.A[j][j] * x[j]) \in Int
    BY <1>2, <1>4
  <2>4. r \in Int
    BY <2>3, <1>2
  <2> HIDE DEF r
  <2>5. Wide(-r) \in Int
    BY <2>4, <1>2
  <2>6. ASSUME problem.A[j][j] > 0
        PROVE  div_round_sat(Wide(-r), problem.A[j][j]) \in Int
    <3>1. problem.A[j][j] \in Nat \ {0}
      BY <2>6, <1>4
    <3> QED BY <3>1, <2>5, <1>3, WordFacts
  <2> QED BY <2>2, <2>6
<1>6. (w_den - w_num) * x[j] + w_num * Step(j) \in Int
  BY <1>4, <1>5
<1>7. v \in Int
  BY <1>2, <1>3, <1>4, <1>6, WordFacts
<1>8. Relaxed(j) = Clip(v, problem.lo[j], problem.hi[j])
  BY DEF Relaxed
<1> HIDE DEF v
<1> QED BY <1>4, <1>7, <1>8 DEF Clip

(* Without over-relaxation an update moves towards the minimum along its   *)
(* variable and not beyond it by more than it was away.                    *)
LEMMA MovesToTheMinimum ==
  ASSUME Kept, InBox(x), NEW j \in Ones, problem.A[j][j] > 0, w_num <= w_den
  PROVE  LET y == Relaxed(j)   r == Residual(x, j)   d == problem.A[j][j]
         IN  /\ y > x[j] => d * (x[j] + y) <= -2 * r
             /\ y < x[j] => -2 * r <= d * (x[j] + y)
             /\ w_num = w_den /\ y = x[j] =>
                  \A v \in problem.lo[j] .. problem.hi[j] :
                    /\ v > y => -2 * r <= d * (y + v)
                    /\ v < y => d * (y + v) <= -2 * r
<1> USE DEF Kept
<1> DEFINE y == Relaxed(j)   r == Residual(x, j)   d == problem.A[j][j]
           s == div_round_sat(-r, d)
           v0 == div_round_sat(Wide((w_den - w_num) * x[j] + w_num * s), w_den)
           lo == problem.lo[j]   hi == problem.hi[j]
<1>1. d \in Nat \ {0} /\ r \in Int /\ lo \in Word /\ hi \in Word /\ lo \in Int /\ hi \in Int
      /\ x[j] \in Int /\ lo <= x[j] /\ x[j] <= hi /\ x[j] \in Word
  <2>1. d \in Nat \ {0} /\ lo \in Word /\ hi \in Word /\ lo \in Int /\ hi \in Int
    BY CallFacts
  <2>2. r \in Int
    BY SumsFit
  <2>3. x[j] \in Int /\ lo <= x[j] /\ x[j] <= hi
    BY DEF InBox
  <2> QED BY <2>1, <2>2, <2>3, WordFacts DEF Word
<1>2. y = Clip(v0, lo, hi)
  BY StepIsRounded DEF Relaxed
<1> HIDE DEF y, r, d, lo, hi
<1>3. /\ s \in Word /\ s \in Int
      /\ s > WORD_MIN => d * (2 * s - 1) <= 2 * (-r)
      /\ s < WORD_MAX => 2 * (-r) <= d * (2 * s + 1)
  <2>1. -r \in Int
    BY <1>1
  <2> HIDE DEF s
  <2> QED BY <2>1, <1>1, QuotientSides, WordFacts DEF s
<1> HIDE DEF s
<1>4. /\ v0 \in Int
      /\ x[j] <= s => x[j] <= v0 /\ v0 <= s
      /\ s <= x[j] => s <= v0 /\ v0 <= x[j]
      /\ w_num = w_den => v0 = s
  <2>1. w_den \in Word /\ w_num \in Int /\ 1 <= w_num
    BY CallFacts
  <2> DEFINE W == w_den   w == w_num   a == x[j]
  <2>2. W \in Word /\ w \in Int /\ 1 <= w /\ w <= W /\ a \in Word /\ s \in Word
        /\ v0 = div_round_sat(Wide((W - w) * a + w * s), W)
    BY <2>1, <1>1, <1>3
  <2> HIDE DEF W, w, a, v0
  <2>3. /\ v0 \in Int
        /\ a <= s => a <= v0 /\ v0 <= s
        /\ s <= a => s <= v0 /\ v0 <= a
        /\ w = W => v0 = s
    BY <2>2, Blends
  <2> QED BY <2>3 DEF W, w, a
<1> HIDE DEF v0
<1>5. ASSUME NEW a \in Int, NEW b \in Int, a <= b PROVE d * a <= d * b
  <2>1. d * (b - a) >= 0 /\ d * (b - a) = d * b - d * a /\ d * a \in Int /\ d * b \in Int
    BY <1>1, <1>5
  <2> QED BY <2>1
<1>6. y \in Int
  BY <1>1, <1>2, <1>4 DEF Clip
<1>7. ASSUME y > x[j] PROVE d * (x[j] + y) <= -2 * r
  <2>1. y <= s /\ s > x[j] /\ s > WORD_MIN
    BY <1>1, <1>2, <1>3, <1>4, <1>7, WordFacts DEF Clip
  <2>2. x[j] + y <= 2 * s - 1
    BY <2>1, <1>1, <1>3, <1>6
  <2>3. d * (x[j] + y) <= d * (2 * s - 1)
    BY <2>2, <1>1, <1>3, <1>5, <1>6
  <2>4. d * (x[j] + y) \in Int /\ d * (2 * s - 1) \in Int
    BY <1>1, <1>3, <1>6
  <2> QED BY <2>1, <2>3, <2>4, <1>1, <1>3
<1>8. ASSUME y < x[j] PROVE -2 * r <= d * (x[j] + y)
  <2>1. y >= s /\ s < x[j] /\ s < WORD_MAX
    BY <1>1, <1>2, <1>3, <1>4, <1>8, WordFacts DEF Clip
  <2>2. 2 * s + 1 <= x[j] + y
    BY <2>1, <1>1, <1>3, <1>6
  <2>3. d * (2 * s + 1) <= d * (x[j] + y)
    BY <2>2, <1>1, <1>3, <1>5, <1>6
  <2>4. d * (x[j] + y) \in Int /\ d * (2 * s + 1) \in Int
    BY <1>1, <1>3, <1>6
  <2> QED BY <2>1, <2>3, <2>4, <1>1, <1>3
<1>9. ASSUME w_num = w_den, NEW v \in lo .. hi, v > y PROVE -2 * r <= d * (y + v)
  <2>1. s <= y /\ s < WORD_MAX
    BY <1>1, <1>2, <1>3, <1>4, <1>9, WordFacts DEF Clip
  <2>2. 2 * s + 1 <= y + v
    BY <2>1, <1>1, <1>3, <1>6, <1>9
  <2>3. d * (2 * s + 1) <= d * (y + v)
    BY <2>2, <1>1, <1>3, <1>5, <1>6
  <2>4. d * (y + v) \in Int /\ d * (2 * s + 1) \in Int
    BY <1>1, <1>3, <1>6
  <2> QED BY <2>1, <2>3, <2>4, <1>1, <1>3
<1>10. ASSUME w_num = w_den, NEW v \in lo .. hi, v < y PROVE d * (y + v) <= -2 * r
  <2>1. y <= s /\ s > WORD_MIN
    BY <1>1, <1>2, <1>3, <1>4, <1>10, WordFacts DEF Clip
  <2>2. y + v <= 2 * s - 1
    BY <2>1, <1>1, <1>3, <1>6, <1>10
  <2>3. d * (y + v) <= d * (2 * s - 1)
    BY <2>2, <1>1, <1>3, <1>5, <1>6
  <2>4. d * (y + v) \in Int /\ d * (2 * s - 1) \in Int
    BY <1>1, <1>3, <1>6
  <2> QED BY <2>1, <2>3, <2>4, <1>1, <1>3
<1> QED BY <1>7, <1>8, <1>9, <1>10 DEF y, r, d, lo, hi

(* The parabola of a move, from the residual of its row.                   *)
LEMMA MoveIsParabola ==
  ASSUME Kept, InBox(x), NEW j \in Ones, NEW y \in Int
  PROVE  /\ Energy(x) \in Int /\ Energy([x EXCEPT ![j] = y]) \in Int
         /\ Energy([x EXCEPT ![j] = y]) =
              Energy(x) + (y - x[j]) * (2 * Residual(x, j) + problem.A[j][j] * (x[j] + y))
<1> USE DEF Kept
<1>1. /\ Energy(x) \in Int
      /\ Energy([x EXCEPT ![j] = y]) =
           Energy(x) + (y - x[j]) * (2 * (problem.b[j] + Inner(x, j))
                                     + (y - x[j]) * problem.A[j][j])
  BY EnergyMoves DEF InBox
<1> DEFINE B == problem.b[j]   I == Inner(x, j)   A == problem.A[j][j]   a == x[j]   E == Energy(x)
<1>2. B \in Int /\ I \in Int /\ A \in Int /\ a \in Int /\ E \in Int
  BY <1>1, CallFacts, SumsFit DEF InBox
<1>3. Residual(x, j) = B + (I - A * a)
  BY DEF Residual
<1> HIDE DEF B, I, A, a, E
<1>4. (y - a) * (2 * (B + I) + (y - a) * A) = (y - a) * (2 * (B + (I - A * a)) + A * (a + y))
  BY <1>2
<1>5. (y - a) * (2 * (B + I) + (y - a) * A) \in Int
  BY <1>2
<1> QED BY <1>1, <1>2, <1>3, <1>4, <1>5 DEF B, I, A, a, E

(* No update raises the objective.                                         *)
LEMMA UpdateDescends ==
  ASSUME Kept, InBox(x), NEW j \in Ones, problem.A[j][j] > 0, w_num <= w_den
  PROVE  Energy([x EXCEPT ![j] = Relaxed(j)]) <= Energy(x)
<1> DEFINE y == Relaxed(j)   r == Residual(x, j)   d == problem.A[j][j]
           slope == 2 * r + d * (x[j] + y)
<1>1. y \in Int /\ r \in Int /\ d \in Int /\ x[j] \in Int
  <2>1. problem.lo[j] <= problem.hi[j] /\ x[j] \in Int /\ d \in Int
    BY CallFacts DEF Kept, InBox
  <2> QED BY <2>1, SumsFit, RelaxedInBox DEF Kept
<1>2. /\ y > x[j] => d * (x[j] + y) <= -2 * r
      /\ y < x[j] => -2 * r <= d * (x[j] + y)
  BY MovesToTheMinimum
<1>3. /\ Energy(x) \in Int
      /\ Energy([x EXCEPT ![j] = y]) = Energy(x) + (y - x[j]) * slope
  BY <1>1, MoveIsParabola
<1>4. d * (x[j] + y) \in Int
  BY <1>1
<1> HIDE DEF y, r, d
<1>5. slope \in Int /\ (y > x[j] => slope <= 0) /\ (y < x[j] => slope >= 0)
  BY <1>1, <1>2, <1>4
<1> HIDE DEF slope
<1>6. (y - x[j]) * slope <= 0 /\ (y - x[j]) * slope \in Int
  <2>1. CASE y > x[j]
    <3>1. (y - x[j]) * (-slope) >= 0 /\ (y - x[j]) * (-slope) = -((y - x[j]) * slope)
      BY <2>1, <1>1, <1>5
    <3> QED BY <3>1, <1>1, <1>5
  <2>2. CASE y < x[j]
    <3>1. (x[j] - y) * slope >= 0 /\ (x[j] - y) * slope = -((y - x[j]) * slope)
      BY <2>2, <1>1, <1>5
    <3> QED BY <3>1, <1>1, <1>5
  <2>3. CASE y = x[j]
    <3>1. (y - x[j]) * slope = 0
      BY <2>3, <1>1, <1>5
    <3> QED BY <3>1
  <2> QED BY <2>1, <2>2, <2>3, <1>1
<1>7. Energy([x EXCEPT ![j] = y]) <= Energy(x)
  BY <1>3, <1>6
<1> QED BY <1>7 DEF y

(* Where plain Gauss-Seidel does not move a variable, no value of its box  *)
(* is better.                                                              *)
LEMMA StandsAtTheMinimum ==
  ASSUME Kept, InBox(x), NEW j \in Ones, problem.A[j][j] > 0, w_num = w_den,
         Relaxed(j) = x[j], NEW v \in problem.lo[j] .. problem.hi[j]
  PROVE  Energy(x) <= Energy([x EXCEPT ![j] = v])
<1> DEFINE a == x[j]   r == Residual(x, j)   d == problem.A[j][j]   slope == 2 * r + d * (a + v)
<1>1. a \in Int /\ r \in Int /\ d \in Int /\ v \in Int
  BY CallFacts, SumsFit DEF Kept, InBox
<1>2. /\ v > a => -2 * r <= d * (a + v)
      /\ v < a => d * (a + v) <= -2 * r
  BY MovesToTheMinimum, CallFacts DEF Kept
<1>3. /\ Energy(x) \in Int
      /\ Energy([x EXCEPT ![j] = v]) = Energy(x) + (v - a) * slope
  BY <1>1, MoveIsParabola
<1>4. d * (a + v) \in Int
  BY <1>1
<1> HIDE DEF a, r, d
<1>5. slope \in Int /\ (v > a => slope >= 0) /\ (v < a => slope <= 0)
  BY <1>1, <1>2, <1>4
<1> HIDE DEF slope
<1>6. (v - a) * slope >= 0 /\ (v - a) * slope \in Int
  <2>1. CASE v > a
    BY <2>1, <1>1, <1>5
  <2>2. CASE v < a
    <3>1. (a - v) * (-slope) >= 0 /\ (a - v) * (-slope) = (v - a) * slope
      BY <2>2, <1>1, <1>5
    <3> QED BY <3>1, <1>1, <1>5
  <2>3. CASE v = a
    <3>1. (v - a) * slope = 0
      BY <2>3, <1>1, <1>5
    <3> QED BY <3>1
  <2> QED BY <2>1, <2>2, <2>3, <1>1
<1> QED BY <1>3, <1>6

----------------------------------------------------------------------------
(* The sweeps.                                                             *)

(* The iterate never leaves the box.                                       *)
BoxInv ==
  /\ problem \in Problems /\ status \in {RUNNING, CONVERGED, LIMIT, PGS_INVALID}
  /\ status # PGS_INVALID => i \in 1 .. n + 1 /\ InBox(x) /\ InBox(start)

(* Within a sweep: the variables whose turn has come moved by at most      *)
(* maxdelta, or so far that the record has wrapped; the others not at all; *)
(* and as long as none has moved, each of the former stands where its      *)
(* update puts it.                                                         *)
Recorded(a, b, most) == Magnitude(a - b) <= most \/ Magnitude(a - b) >= Half
SweepInv ==
  status # PGS_INVALID =>
    /\ maxdelta \in Int
    /\ \A j \in Ones : j < i => Recorded(x[j], start[j], maxdelta)
    /\ \A j \in Ones : j >= i => x[j] = start[j]
    /\ x = start => \A j \in Ones : j < i => Relaxed(j) = x[j]
    /\ status = CONVERGED => i = n + 1 /\ maxdelta <= problem.tol

PgsInv == BoxInv /\ SweepInv

(* Projection at the start puts the point into the box.                    *)
LEMMA BoxStart == Init => BoxInv
<1> SUFFICES ASSUME Init PROVE BoxInv
  OBVIOUS
<1> USE DEF RUNNING, CONVERGED, LIMIT, PGS_INVALID
<1>1. problem \in Problems /\ status \in {RUNNING, PGS_INVALID} /\ i = 1 /\ start = x
  BY DEF Init
<1>2. ASSUME status # PGS_INVALID PROVE InBox(x)
  <2>1. /\ x = [j \in Ones |-> Clip(problem.x0[j], problem.lo[j], problem.hi[j])]
        /\ \A j \in Ones : problem.lo[j] <= problem.hi[j]
    BY <1>2 DEF Init
  <2>2. \A j \in Ones : problem.x0[j] \in Int /\ problem.lo[j] \in Int /\ problem.hi[j] \in Int
    BY <1>1, CallFacts
  <2> QED BY <2>1, <2>2 DEF InBox, Clip
<1>3. n \in Nat
  BY <1>1, CallFacts
<1> QED BY <1>1, <1>2, <1>3 DEF BoxInv

(* Every step keeps the point in the box.                                  *)
LEMMA BoxStep == BoxInv /\ [Next]_vars => BoxInv'
<1> SUFFICES ASSUME BoxInv, [Next]_vars PROVE BoxInv'
  OBVIOUS
<1> USE DEF RUNNING, CONVERGED, LIMIT, PGS_INVALID
<1>1. ASSUME problem' = problem
      PROVE  n' = n /\ Ones' = Ones /\ w_den' = w_den /\ w_num' = w_num
  BY <1>1 DEF n, Ones, w_den, w_num
<1>2. n \in Nat
  BY CallFacts DEF BoxInv
<1>3. CASE Relax
  <2>1. status = RUNNING /\ i \in Ones /\ InBox(x) /\ problem' = problem /\ status' = status
        /\ i' = i + 1 /\ x' = [x EXCEPT ![i] = Relaxed(i)] /\ start' = start /\ InBox(start)
    BY <1>2, <1>3 DEF Relax, BoxInv, Ones
  <2>2. /\ Relaxed(i) \in Int /\ problem.lo[i] <= Relaxed(i) /\ Relaxed(i) <= problem.hi[i]
    <3>1. problem.lo[i] <= problem.hi[i]
      BY <2>1, CallFacts DEF InBox, BoxInv
    <3> QED BY <3>1, <2>1, RelaxedInBox DEF BoxInv
  <2>3. InBox(x)' /\ InBox(start)'
    <3> HIDE DEF Ones
    <3>1. x \in [Ones -> Int] /\ x' \in [Ones -> Int] /\ Ones' = Ones
      BY <1>1, <2>1, <2>2 DEF InBox
    <3>2. ASSUME NEW j \in Ones PROVE problem.lo[j] <= x'[j] /\ x'[j] <= problem.hi[j]
      BY <2>1, <2>2, <3>1 DEF InBox
    <3> QED BY <2>1, <3>1, <3>2 DEF InBox
  <2>4. i' \in 1 .. n' + 1
    BY <1>1, <1>2, <2>1 DEF Ones
  <2> QED BY <2>1, <2>3, <2>4 DEF BoxInv
<1>4. CASE Sweep
  <2>1. status = RUNNING /\ InBox(x) /\ problem' = problem /\ x' = x /\ InBox(start)
        /\ status' \in {RUNNING, CONVERGED, LIMIT} /\ i' \in {1, i} /\ start' \in {x, start}
    BY <1>4 DEF Sweep, BoxInv
  <2>2. InBox(x)' /\ InBox(start)'
    BY <1>1, <2>1 DEF InBox
  <2>3. i' \in 1 .. n' + 1
    BY <1>1, <1>2, <2>1 DEF BoxInv
  <2> QED BY <2>1, <2>2, <2>3 DEF BoxInv
<1>5. CASE UNCHANGED vars
  BY <1>5, <1>1 DEF vars, BoxInv, InBox
<1> QED BY <1>3, <1>4, <1>5 DEF Next

(* Without over-relaxation no update raises the objective, or leaves the   *)
(* box, whatever the other variables did since the last one.               *)
THEOREM NoUpdateClimbs ==
  ASSUME \A p \in Problems : InContract(p)
  PROVE  Spec => UpdatesDescend
<1>1. BoxInv /\ [Next]_vars => [Descends]_vars
  <2> SUFFICES ASSUME BoxInv, Relax, w_num <= w_den, problem.A[i][i] > 0
               PROVE  /\ Energy(x') <= Energy(x)
                      /\ x'[i] \in problem.lo[i] .. problem.hi[i]
    BY DEF Descends
  <2>1. n \in Nat
    BY CallFacts DEF BoxInv
  <2>2. status = RUNNING /\ i \in Ones /\ InBox(x) /\ Kept /\ x' = [x EXCEPT ![i] = Relaxed(i)]
    BY <2>1 DEF Relax, BoxInv, Ones, Kept, RUNNING, PGS_INVALID
  <2>3. Energy(x') <= Energy(x)
    BY <2>2, UpdateDescends
  <2>4. x'[i] = Relaxed(i) /\ problem.lo[i] <= problem.hi[i]
        /\ problem.lo[i] \in Int /\ problem.hi[i] \in Int
    BY <2>2, CallFacts DEF InBox, BoxInv
  <2>5. Relaxed(i) \in problem.lo[i] .. problem.hi[i]
    BY <2>2, <2>4, RelaxedInBox DEF BoxInv
  <2> QED BY <2>3, <2>4, <2>5
<1> QED BY <1>1, BoxStart, BoxStep, PTL DEF Spec, UpdatesDescend

----------------------------------------------------------------------------
(* Convergence.                                                            *)

(* A move of less than half the words is recorded as it is.                *)
LEMMA MoveIsRecorded ==
  ASSUME NEW a \in Int, NEW b \in Int
  PROVE  /\ Delta(a, b) \in Int /\ Magnitude(b - a) \in Nat
         /\ Magnitude(b - a) < Half => Delta(a, b) = Magnitude(b - a)
<1>1. Magnitude(b - a) \in Nat
  BY DEF Magnitude
<1>2. Half \in Nat \ {0}
  BY HalfAssumption
<1>3. ASSUME NEW v \in Int PROVE Wrap(v, Half) \in Int
  <2>1. 2 * Half \in Nat \ {0}
    BY <1>2
  <2>2. v % (2 * Half) \in Int
    BY <2>1
  <2> QED BY <2>2, <1>2 DEF Wrap
<1>4. ASSUME Magnitude(b - a) < Half PROVE Wrap(Magnitude(b - a), Half) = Magnitude(b - a)
  <2>1. -Half <= Magnitude(b - a)
    BY <1>1, <1>2
  <2> QED BY <2>1, <1>1, <1>2, <1>4, WrapIsIdle
<1> QED BY <1>1, <1>3, <1>4 DEF Delta

(* An update depends on the call and the iterate only.                     *)
LEMMA RelaxedKept ==
  ASSUME x' = x, problem' = problem, NEW j
  PROVE  Relaxed(j)' = Relaxed(j)
<1>1. Ones' = Ones /\ w_den' = w_den /\ w_num' = w_num
  BY DEF Ones, n, w_den, w_num
<1>2. Step(j)' = Step(j)
  BY <1>1 DEF Step
<1> QED BY <1>1, <1>2 DEF Relaxed

(* Before the first sweep nothing has moved.                               *)
LEMMA SweepStart == Init => SweepInv
<1> SUFFICES ASSUME Init, status # PGS_INVALID PROVE SweepInv
  BY DEF SweepInv
<1>1. n \in Nat /\ problem \in Problems /\ i = 1 /\ maxdelta = 0 /\ start = x /\ status # CONVERGED
  BY CallFacts DEF Init, RUNNING, CONVERGED, PGS_INVALID
<1> QED BY <1>1 DEF SweepInv, Ones

(* The update of one variable keeps what is said of the others.            *)
LEMMA RelaxSweeps ==
  ASSUME BoxInv, SweepInv, Relax
  PROVE  SweepInv'
<1> USE DEF RUNNING, CONVERGED, LIMIT, PGS_INVALID
<1> DEFINE y == Relaxed(i)
<1>1. n \in Nat
  BY CallFacts DEF BoxInv
<1>2. /\ status = RUNNING /\ i \in Ones /\ i \in Nat /\ InBox(x) /\ InBox(start) /\ problem \in Problems
      /\ x' = [x EXCEPT ![i] = y] /\ i' = i + 1 /\ start' = start /\ problem' = problem /\ status' = status
      /\ maxdelta' = IF Delta(x[i], y) > maxdelta THEN Delta(x[i], y) ELSE maxdelta
  BY <1>1 DEF Relax, Record, BoxInv, Ones
<1>3. n' = n /\ Ones' = Ones
  BY <1>2 DEF n, Ones
<1>4. /\ maxdelta \in Int
      /\ \A j \in Ones : j < i => Recorded(x[j], start[j], maxdelta)
      /\ \A j \in Ones : j >= i => x[j] = start[j]
      /\ x = start => \A j \in Ones : j < i => Relaxed(j) = x[j]
  BY <1>2 DEF SweepInv
<1>5. x[i] \in problem.lo[i] .. problem.hi[i] /\ y \in problem.lo[i] .. problem.hi[i]
  <2>1. problem.lo[i] \in Int /\ problem.hi[i] \in Int /\ x[i] \in Int
        /\ problem.lo[i] <= x[i] /\ x[i] <= problem.hi[i]
    BY <1>2, CallFacts DEF InBox
  <2>2. y \in Int /\ problem.lo[i] <= y /\ y <= problem.hi[i]
    BY <2>1, <1>2, RelaxedInBox
  <2> QED BY <2>1, <2>2
<1>6. /\ x[i] \in Int /\ y \in Int /\ Delta(x[i], y) \in Int /\ Magnitude(y - x[i]) \in Nat
      /\ Magnitude(y - x[i]) < Half => Delta(x[i], y) = Magnitude(y - x[i])
  <2>1. x[i] \in Int /\ y \in Int
    BY <1>2, <1>5, CallFacts
  <2> QED BY <2>1, MoveIsRecorded
<1>7. maxdelta' \in Int /\ maxdelta' >= maxdelta /\ Half \in Int /\ Recorded(y, x[i], maxdelta')
  BY <1>2, <1>4, <1>6, HalfAssumption DEF Recorded
<1>8. \A j \in Ones : j \in Nat /\ x[j] \in Int /\ start[j] \in Int
  BY <1>2, CallFacts DEF InBox
<1>9. x \in [Ones -> Int] /\ start \in [Ones -> Int] /\ x' \in [Ones -> Int]
  BY <1>2, <1>5, CallFacts DEF InBox
<1> HIDE DEF y
<1>10. \A j \in Ones : x'[j] = IF j = i THEN y ELSE x[j]
  BY <1>2, <1>9
<1>11. ASSUME NEW j \in Ones, j < i' PROVE Recorded(x'[j], start[j], maxdelta')
  <2>1. CASE j = i
    BY <2>1, <1>4, <1>7, <1>8, <1>10
  <2>2. CASE j # i
    <3>1. j < i
      BY <2>2, <1>2, <1>8, <1>11
    <3>2. x'[j] = x[j] /\ Recorded(x[j], start[j], maxdelta) /\ Magnitude(x[j] - start[j]) \in Int
      BY <3>1, <2>2, <1>4, <1>8, <1>10 DEF Magnitude
    <3> QED BY <3>2, <1>4, <1>7 DEF Recorded
  <2> QED BY <2>1, <2>2
<1>12. ASSUME NEW j \in Ones, j >= i' PROVE x'[j] = start[j]
  BY <1>2, <1>4, <1>8, <1>10, <1>12
<1>13. ASSUME x' = start, NEW j \in Ones, j < i' PROVE Relaxed(j)' = x'[j]
  <2>1. \A k \in Ones : x[k] = start[k]
    <3> SUFFICES ASSUME NEW k \in Ones PROVE x[k] = start[k]
      OBVIOUS
    <3>1. CASE k = i
      BY <3>1, <1>2, <1>4
    <3>2. CASE k # i
      BY <3>2, <1>10, <1>13
    <3> QED BY <3>1, <3>2
  <2>2. x = start
    BY <2>1, <1>9
  <2>3. x' = x
    BY <2>2, <1>13
  <2>4. Relaxed(j)' = Relaxed(j)
    BY <2>3, <1>2, RelaxedKept
  <2>5. CASE j = i
    BY <2>3, <2>4, <2>5, <1>10 DEF y
  <2>6. CASE j # i
    BY <2>2, <2>3, <2>4, <2>6, <1>2, <1>4, <1>8, <1>13
  <2> QED BY <2>5, <2>6
<1> QED BY <1>2, <1>3, <1>7, <1>11, <1>12, <1>13 DEF SweepInv

(* The end of a sweep judges it, and starts the next one afresh.           *)
LEMMA SweepSweeps ==
  ASSUME BoxInv, SweepInv, Sweep
  PROVE  SweepInv'
<1> USE DEF RUNNING, CONVERGED, LIMIT, PGS_INVALID
<1>1. n \in Nat
  BY CallFacts DEF BoxInv
<1>2. /\ status = RUNNING /\ i = n + 1 /\ problem' = problem /\ x' = x /\ InBox(x)
      /\ problem \in Problems
  BY <1>1 DEF Sweep, BoxInv
<1>3. n' = n /\ Ones' = Ones
  BY <1>2 DEF n, Ones
<1>4. \A j \in Ones : Relaxed(j)' = Relaxed(j)
  BY <1>2, RelaxedKept
<1>5. CASE status' = RUNNING
  <2>1. i' = 1 /\ maxdelta' = 0 /\ start' = x
    BY <1>5 DEF Sweep
  <2>2. \A j \in Ones : j \in Nat /\ j >= 1
    BY <1>1 DEF Ones
  <2> QED BY <2>1, <2>2, <1>2, <1>3, <1>5 DEF SweepInv
<1>6. CASE status' # RUNNING
  <2>1. i' = i /\ maxdelta' = maxdelta /\ start' = start
    BY <1>6 DEF Sweep
  <2>2. status' = CONVERGED => maxdelta <= problem.tol
    BY <1>6 DEF Sweep
  <2> QED BY <2>1, <2>2, <1>2, <1>3, <1>4 DEF SweepInv
<1> QED BY <1>5, <1>6

(* The inductive invariant holds of every call, also one outside the       *)
(* contract, and in a box of any width.                                    *)
THEOREM SweepsCorrect == Spec => []PgsInv
<1>1. Init => PgsInv
  BY BoxStart, SweepStart DEF PgsInv
<1>2. PgsInv /\ [Next]_vars => PgsInv'
  <2> SUFFICES ASSUME PgsInv, [Next]_vars PROVE SweepInv'
    BY BoxStep DEF PgsInv
  <2>1. CASE Relax
    BY <2>1, RelaxSweeps DEF PgsInv, BoxInv
  <2>2. CASE Sweep
    BY <2>2, SweepSweeps DEF PgsInv
  <2>3. CASE UNCHANGED vars
    <3>1. Ones' = Ones /\ n' = n
      BY <2>3 DEF vars, Ones, n
    <3>2. \A j \in Ones : Relaxed(j)' = Relaxed(j)
      BY <2>3, RelaxedKept DEF vars
    <3> QED BY <2>3, <3>1, <3>2 DEF PgsInv, SweepInv, vars
  <2> QED BY <2>1, <2>2, <2>3 DEF Next
<1> QED BY <1>1, <1>2, PTL DEF Spec

(* Convergence is what pgs.h says but for the wrapped record, in boxes of  *)
(* any width: the last sweep moved no variable by more than the tolerance  *)
(* and less than half the words, and where plain Gauss-Seidel moved none,  *)
(* none can improve alone.                                                 *)
THEOREM ConvergenceIsReal ==
  ASSUME \A p \in Problems : InContract(p)
  PROVE  Spec => []ConvergedIsReal
<1>1. PgsInv => ConvergedIsReal
  <2> SUFFICES ASSUME PgsInv, status = CONVERGED
               PROVE  /\ \A j \in Ones : Recorded(x[j], start[j], problem.tol)
                      /\ x = start /\ w_num = w_den =>
                           \A j \in Ones : problem.A[j][j] > 0 =>
                             \A v \in problem.lo[j] .. problem.hi[j] :
                               Energy(x) <= Energy([x EXCEPT ![j] = v])
    BY DEF ConvergedIsReal, Recorded
  <2>1. /\ InBox(x) /\ InBox(start) /\ Kept /\ problem \in Problems
        /\ n \in Nat /\ i = n + 1 /\ maxdelta \in Int /\ maxdelta <= problem.tol
    BY CallFacts DEF PgsInv, BoxInv, SweepInv, Kept, CONVERGED, PGS_INVALID
  <2>2. \A j \in Ones : j < i
    BY <2>1 DEF Ones
  <2>3. ASSUME NEW j \in Ones PROVE Recorded(x[j], start[j], problem.tol)
    <3>1. Recorded(x[j], start[j], maxdelta)
      BY <2>2 DEF PgsInv, SweepInv, CONVERGED, PGS_INVALID
    <3>2. x[j] \in Int /\ start[j] \in Int /\ problem.tol \in Int
      BY <2>1, CallFacts DEF InBox
    <3>3. Magnitude(x[j] - start[j]) \in Int
      BY <3>2 DEF Magnitude
    <3> QED BY <3>1, <3>2, <3>3, <2>1 DEF Recorded
  <2>4. ASSUME x = start, w_num = w_den, NEW j \in Ones, problem.A[j][j] > 0,
               NEW v \in problem.lo[j] .. problem.hi[j]
        PROVE  Energy(x) <= Energy([x EXCEPT ![j] = v])
    <3>1. Relaxed(j) = x[j]
      BY <2>2, <2>4 DEF PgsInv, SweepInv, CONVERGED, PGS_INVALID
    <3> QED BY <3>1, <2>1, <2>4, StandsAtTheMinimum
  <2> QED BY <2>3, <2>4
<1>2. Spec => []PgsInv
  BY SweepsCorrect
<1> QED BY <1>1, <1>2, PTL
=============================================================================
