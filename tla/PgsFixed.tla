------------------------------ MODULE PgsFixed ------------------------------
(***************************************************************************)
(* src/src/pgs_fixed.c: projected Gauss-Seidel with over-relaxation on     *)
(* machine words, for x in a box minimizing x'Ax/2 + b'x.  One action is   *)
(* the update of one variable.  Sums are taken in words twice as wide.     *)
(***************************************************************************)
EXTENDS Integers, Sequences, FiniteSetsExt

CONSTANTS Half,       \* half the values of a word (2^63 in the code)
          Problems    \* the calls of pgsf_solve that a run reads

ASSUME HalfAssumption == Half \in Nat \ {0, 1}

WORD_MAX == Half - 1
WORD_MIN == -Half
Word == WORD_MIN .. WORD_MAX

(* What the build leaves of a result that does not fit its signed type of  *)
(* 2 * h values; a sum has the square of a word's.                         *)
Wrap(v, h) == LET low == v % (2 * h) IN IF low < h THEN low ELSE low - 2 * h
WideHalf == 2 * Half * Half
Wide(v) == Wrap(v, WideHalf)

ASSUME ProblemsAssumption ==
  \A p \in Problems :
    /\ p.b \in Seq(Word)
    /\ p.lo \in [DOMAIN p.b -> Word] /\ p.hi \in [DOMAIN p.b -> Word]
    /\ p.x0 \in [DOMAIN p.b -> Word] /\ p.A \in [DOMAIN p.b -> [DOMAIN p.b -> Word]]
    /\ p.w_num \in Word /\ p.w_den \in Word /\ p.tol \in Word /\ p.max_iter \in Int

Clip(v, lo, hi) == IF v < lo THEN lo ELSE IF v > hi THEN hi ELSE v
sat64(v) == Clip(v, WORD_MIN, WORD_MAX)
Magnitude(v) == IF v < 0 THEN -v ELSE v

div_round_sat_Truncated(v, d) ==      \* the half that C's division drops
  sat64(IF v < 0 THEN -((-v) \div d) ELSE v \div d)

(* v / d rounded half away from zero.                                      *)
div_round_sat(v, d) ==
  LET q == (2 * Magnitude(v) + d) \div (2 * d)
  IN  sat64(IF v < 0 THEN -q ELSE q)

VARIABLES problem,
          x,          \* the iterate
          i,          \* the variable whose turn it is
          iters,      \* sweeps performed
          maxdelta,   \* largest move of this sweep, as a word
          status,     \* PGSResult.status once the call has returned
          start       \* the iterate this sweep started from

vars == <<problem, x, i, iters, maxdelta, status, start>>

RUNNING == -1
CONVERGED == 0
LIMIT == 1
PGS_INVALID == 2

n == Len(problem.b)
Ones == 1 .. n
Sum(f, S) == MapThenSumSet(LAMBDA j : f[j], S)

(* Options out of range fall back to plain Gauss-Seidel and one sweep.     *)
w_den == IF problem.w_den <= 0 THEN 1 ELSE problem.w_den
w_num ==
  IF problem.w_den <= 0 THEN 1
  ELSE IF problem.w_num <= 0 \/ problem.w_num >= 2 * problem.w_den THEN problem.w_den
  ELSE problem.w_num
max_iter == IF problem.max_iter > 0 THEN problem.max_iter ELSE 1

(* A call with an empty box is invalid; a warm start is moved into the box.*)
Init ==
  /\ problem \in Problems
  /\ i = 1 /\ iters = 0 /\ maxdelta = 0
  /\ LET valid == n > 0 /\ \A j \in Ones : problem.lo[j] <= problem.hi[j]
     IN  /\ status = IF valid THEN RUNNING ELSE PGS_INVALID
         /\ x = IF valid
                THEN [j \in Ones |-> Clip(problem.x0[j], problem.lo[j], problem.hi[j])]
                ELSE problem.x0
  /\ start = x

(* The minimum along variable j, or 0 without a positive diagonal, then    *)
(* over-relaxed.                                                           *)
Step(j) ==
  LET d == problem.A[j][j]
      Ax == Wide(Sum([k \in Ones |-> problem.A[j][k] * x[k]], Ones))
      r == Wide(problem.b[j] + (Ax - d * x[j]))
  IN  IF d > 0 THEN div_round_sat(Wide(-r), d) ELSE 0
Relaxed(j) ==
  Clip(div_round_sat(Wide((w_den - w_num) * x[j] + w_num * Step(j)), w_den),
       problem.lo[j], problem.hi[j])

Delta(old, new) == Wrap(Magnitude(new - old), Half)

Record_Last(delta) == maxdelta' = delta      \* the move of the last variable only
Record(delta) == maxdelta' = IF delta > maxdelta THEN delta ELSE maxdelta

Relax ==
  /\ status = RUNNING /\ i <= n
  /\ x' = [x EXCEPT ![i] = Relaxed(i)]
  /\ Record(Delta(x[i], Relaxed(i)))
  /\ i' = i + 1
  /\ UNCHANGED <<problem, iters, status, start>>

Sweep ==
  /\ status = RUNNING /\ i > n
  /\ iters' = iters + 1
  /\ status' = IF problem.tol > 0 /\ maxdelta <= problem.tol THEN CONVERGED
               ELSE IF iters' = max_iter THEN LIMIT ELSE RUNNING
  /\ IF status' = RUNNING THEN i' = 1 /\ maxdelta' = 0 /\ start' = x
     ELSE UNCHANGED <<i, maxdelta, start>>
  /\ UNCHANGED <<problem, x>>

Next == Relax \/ Sweep

Spec == Init /\ [][Next]_vars

----------------------------------------------------------------------------
(* Properties.                                                             *)

(* The contract of pgs.h and pgs_fixed.h: A is symmetric, and no row can   *)
(* overflow the wide sums over the box.                                    *)
Reach(p, j) ==
  LET far(k) == IF Magnitude(p.lo[k]) > Magnitude(p.hi[k]) THEN Magnitude(p.lo[k])
                                                           ELSE Magnitude(p.hi[k])
      most == [k \in DOMAIN p.b |-> Magnitude(p.A[j][k]) * far(k)]
  IN  Sum(most, DOMAIN p.b) + Magnitude(p.b[j])
InContract(p) ==
  /\ \A j, k \in DOMAIN p.b : p.A[j][k] = p.A[k][j]
  /\ \A j \in DOMAIN p.b : Reach(p, j) < WideHalf

(* Twice the objective at p.                                               *)
Energy(p) ==
  Sum([j \in Ones |->
         p[j] * (2 * problem.b[j] + Sum([k \in Ones |-> problem.A[j][k] * p[k]], Ones))], Ones)

(* The kernel minimizes: without over-relaxation no update raises the      *)
(* objective or leaves the box, although steps are rounded, saturated and  *)
(* clipped, whatever the other variables did since the last update.        *)
Descends ==
  Relax /\ w_num <= w_den /\ problem.A[i][i] > 0 =>
    /\ Energy(x') <= Energy(x)
    /\ x'[i] \in problem.lo[i] .. problem.hi[i]
UpdatesDescend == [][Descends]_vars

(* pgs.h: status 0 is convergence.  In the last sweep no variable moved by *)
(* more than the tolerance -- unless it crossed more than half the words,  *)
(* where the recorded move has wrapped (README, section 7) -- and if none  *)
(* moved at all, plain Gauss-Seidel stands where no variable alone can     *)
(* improve.                                                                *)
ConvergedIsReal ==
  status = CONVERGED =>
    /\ \A j \in Ones : LET move == Magnitude(x[j] - start[j])
                       IN move <= problem.tol \/ move >= Half
    /\ x = start /\ w_num = w_den =>
         \A j \in Ones : problem.A[j][j] > 0 =>
           \A v \in problem.lo[j] .. problem.hi[j] : Energy(x) <= Energy([x EXCEPT ![j] = v])
=============================================================================
