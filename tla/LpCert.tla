------------------------------- MODULE LpCert -------------------------------
(***************************************************************************)
(* The LP lanes of src/src/cert.c: psv_cert_check of an LP_OPTIMAL, an     *)
(* LP_INFEASIBLE and an LP_UNBOUNDED claim, on the data of the original    *)
(* model.  Every datum is an integer number of 1/U; a product of two is in *)
(* 1/U^2 and is left there, so that no comparison is rounded: the grace    *)
(* margins of the code, which only absorb rounding, are zero here.         *)
(***************************************************************************)
EXTENDS Integers, Sequences, FiniteSets, FiniteSetsExt

CONSTANTS U,      \* units of every datum
          Inf     \* LP_INF: a bound at or beyond it is an open side

ASSUME LpCertAssumption == U \in Nat \ {0} /\ Inf \in Nat \ {0}

(* An LP: sets of columns and rows, cost c, box l..u, right-hand sides b,  *)
(* relations rel, and A[j], the coefficients of column j by row.           *)
OpenBelow(l) == l <= -Inf
OpenAbove(u) == u >= Inf

Sense(lp) == IF lp.maximize THEN 1 ELSE -1
Entries(lp, i) == {j \in lp.cols : i \in DOMAIN lp.A[j]}
RowValue(lp, i, x) == MapThenSumSet(LAMBDA j : lp.A[j][i] * x[j], Entries(lp, i))
Objective(lp, x) == MapThenSumSet(LAMBDA j : lp.c[j] * x[j], lp.cols)

Meets(rel, v, b) ==
  \/ rel = "<" /\ v <= b
  \/ rel = ">" /\ v >= b
  \/ rel = "=" /\ v = b

Finite(S, v) == \A k \in S : v[k] \in Int        \* isfinite, number by number

lp_primal_ok(lp, x) ==
  /\ Finite(lp.cols, x)
  /\ \A j \in lp.cols : /\ OpenBelow(lp.l[j]) \/ x[j] >= lp.l[j]
                        /\ OpenAbove(lp.u[j]) \/ x[j] <= lp.u[j]
  /\ \A i \in lp.rows : Meets(lp.rel[i], RowValue(lp, i, x), lp.b[i] * U)

Clipped_Kept(lp, y) == [i \in lp.rows |-> y[i]]        \* signs not looked at

(* A component of the wrong sign for its relation counts as zero.          *)
Clipped(lp, y) ==
  [i \in lp.rows |-> IF \/ lp.rel[i] = "<" /\ y[i] < 0
                        \/ lp.rel[i] = ">" /\ y[i] > 0
                     THEN 0 ELSE y[i]]

ATy(lp, y, j) ==
  MapThenSumSet(LAMBDA i : lp.A[j][i] * y[i], DOMAIN lp.A[j] \cap lp.rows)

Yb(lp, y) == MapThenSumSet(LAMBDA i : y[i] * lp.b[i], lp.rows)

(* What a column earns above the duals of its rows, and the largest and    *)
(* the least value that d takes on the box: its corners.                   *)
ReducedCosts(lp, y) == [j \in lp.cols |-> Sense(lp) * lp.c[j] * U - ATy(lp, y, j)]
LargestOnBox(lp, d) ==
  MapThenSumSet(LAMBDA j : IF d[j] > 0 THEN d[j] * lp.u[j] ELSE d[j] * lp.l[j],
                {j \in lp.cols : d[j] # 0})
LeastOnBox(lp, d) ==
  MapThenSumSet(LAMBDA j : IF d[j] > 0 THEN d[j] * lp.l[j] ELSE d[j] * lp.u[j],
                {j \in lp.cols : d[j] # 0})

(* The Lagrangian bound of the duals closes on the objective of the point. *)
(* A reduced cost that walks into an open side certifies nothing.          *)
check_lp_optimal(lp, x, y) ==
  LET yc == Clipped(lp, [i \in lp.rows |-> Sense(lp) * y[i]])
      rc == ReducedCosts(lp, yc)
  IN  /\ lp_primal_ok(lp, x) /\ Finite(lp.rows, y)
      /\ \A j \in lp.cols : /\ rc[j] > 0 => ~OpenAbove(lp.u[j])
                            /\ rc[j] < 0 => ~OpenBelow(lp.l[j])
      /\ Yb(lp, yc) * U + LargestOnBox(lp, rc) = Sense(lp) * Objective(lp, x) * U

(* solver_farkas_boxcert: the aggregated row lies above its right-hand     *)
(* side on the whole box.  A column it uses must have both sides closed.   *)
check_lp_infeasible(lp, ray) ==
  LET y == Clipped(lp, ray)
      z == [j \in lp.cols |-> ATy(lp, y, j)]
  IN  /\ Finite(lp.rows, ray)
      /\ lp.rows # {} /\ lp.cols # {}
      /\ \A j \in lp.cols : z[j] # 0 => ~OpenBelow(lp.l[j]) /\ ~OpenAbove(lp.u[j])
      /\ LeastOnBox(lp, z) > Yb(lp, y) * U

(* A feasible point and a direction that leaves through open sides only,   *)
(* stays on every row and improves the objective.                          *)
check_lp_unbounded(lp, x, d) ==
  /\ lp_primal_ok(lp, x) /\ Finite(lp.cols, d)
  /\ \E j \in lp.cols : d[j] # 0
  /\ \A j \in lp.cols : /\ d[j] > 0 => OpenAbove(lp.u[j])
                        /\ d[j] < 0 => OpenBelow(lp.l[j])
  /\ \A i \in lp.rows : Meets(lp.rel[i], RowValue(lp, i, d), 0)
  /\ Sense(lp) * Objective(lp, d) > 0
=============================================================================
