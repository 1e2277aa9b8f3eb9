------------------------------ MODULE QpSolve ------------------------------
(***************************************************************************)
(* src/src/qp.c and tools/qpsolve.c: minimize x'Qx/2 + c'x subject to      *)
(* A x <= b.  The convexity gate, the ladder of searches for a feasible    *)
(* start with its cooperative stops and Farkas proofs, the primal active   *)
(* set, and what the command line prints after the evidence checks of      *)
(* src/src/cert.c.                                                         *)
(*                                                                         *)
(* The model computes in exact rationals, so a tolerance is a comparison   *)
(* with zero.  What rounding may do is a choice: a KKT system may fail, a  *)
(* search for a start may come back with nothing, and of a flat direction  *)
(* the curvature may or may not be resolved as zero.  The steps a          *)
(* regularized singular system yields are taken in the limit.              *)
(***************************************************************************)
EXTENDS Integers, Sequences, FiniteSetsExt, SequencesExt

CONSTANTS QPs,          \* programs: [n, Q, c, A, b, x0, lp_first]
          Starts,       \* points the searches for a start may come up with
          Multipliers,  \* row multipliers the LP core may hand back
          DenseLimit,   \* n + m up to which the dense search runs
          Boxes,        \* length of the ladder of boxes
          IterCap,      \* maxit
          Far,          \* length of a step along an uncertified flat direction
          Huge,         \* the divergence guard
          Span,         \* flat directions are looked for in -Span .. Span
          Scalars       \* the numbers properties try points and directions of

ASSUME BoundsAssumption ==
  /\ {DenseLimit, Boxes, IterCap, Far, Huge, Span} \subseteq Nat
  /\ 0 < Boxes /\ 0 < IterCap /\ 0 < Span
ASSUME NumbersAssumption == Multipliers \subseteq Int /\ Scalars \subseteq Int
ASSUME ProgramsAssumption ==
  \A q \in QPs :
    /\ q.n \in Nat
    /\ q.Q \in [1 .. q.n -> [1 .. q.n -> Int]] /\ q.c \in [1 .. q.n -> Int]
    /\ q.A \in Seq([1 .. q.n -> Int]) /\ q.b \in [1 .. Len(q.A) -> Int]
    /\ q.x0 # <<>> => q.x0 \in [1 .. q.n -> Int]
    /\ Starts[q.n] \subseteq [1 .. q.n -> Int]

VARIABLES qp,        \* the program
          pc,        \* "gate", "start", "active", "done", "printed"
          S, left,   \* the elimination of the gate and the indices left in it
          plan,      \* searches for a start still to run, the current one first
          boxes,     \* boxes left for the LP search
          x,         \* the iterate: [v, d] is the point v/d
          W,         \* the working set, in the order of its rows
          it,        \* iterations
          status, mult, ray, farkas, has_x,   \* the QPResult
          stop,      \* what psolve_stop returns
          printed    \* the line printed

vars == <<qp, pc, S, left, plan, boxes, x, W, it, status, mult, ray, farkas, has_x, stop, printed>>
result == <<status, mult, ray, farkas, has_x>>

None == <<>>                                  \* a NULL array
Unset == "unset"
SOLVED == "0"
UNBOUNDED == "1"
QP_ITERATION_LIMIT == "2"
QP_KKT_FAIL == "3"
QP_NON_CONVEX == "4"
QP_STOPPED == "6"
NO_START == "-1"

----------------------------------------------------------------------------
(* Vectors, matrices and points.                                           *)
Cols(q) == 1 .. q.n
Rows(q) == DOMAIN q.A
Dot(u, v) == MapThenSumSet(LAMBDA j : u[j] * v[j], DOMAIN u)
Zeros(n) == [j \in 1 .. n |-> 0]
Apply(M, v) == [i \in DOMAIN M |-> Dot(M[i], v)]
Curvature(q, p) == Dot(p, Apply(q.Q, p))
Magnitude(i) == IF i < 0 THEN -i ELSE i

(* v/d in lowest terms, the denominator positive.                          *)
Integral(v, d, k) == \A j \in DOMAIN v : (k * v[j]) % Magnitude(d) = 0
Lowest(v, d) ==
  CHOOSE k \in 1 .. Magnitude(d) : Integral(v, d, k) /\ \A l \in 1 .. k - 1 : ~Integral(v, d, l)
Point(v, d) ==
  LET k == Lowest(v, d)
  IN [v |-> [j \in DOMAIN v |-> (IF d < 0 THEN -(k * v[j]) ELSE k * v[j]) \div Magnitude(d)], d |-> k]

(* The determinant, by expansion along the rows.                           *)
Det(M) ==
  LET minor[C \in SUBSET DOMAIN M] ==
        LET r == Len(M) - Cardinality(C) + 1
            Sign(j) == IF Cardinality({i \in C : i < j}) % 2 = 0 THEN 1 ELSE -1
        IN IF C = {} THEN 1
           ELSE MapThenSumSet(LAMBDA j : IF M[r][j] = 0 THEN 0 ELSE Sign(j) * M[r][j] * minor[C \ {j}], C)
  IN minor[DOMAIN M]

(* Row residuals and the gradient at a point, times its denominator.       *)
Resid(q, i, y) == Dot(q.A[i], y.v) - q.b[i] * y.d
Gradient(q, y) == [j \in Cols(q) |-> Dot(q.Q[j], y.v) + q.c[j] * y.d]
Feasible(q, y) == \A i \in Rows(q) : Resid(q, i, y) <= 0
Recedes(q, p) == \A i \in Rows(q) : Dot(q.A[i], p) <= 0

----------------------------------------------------------------------------
(* The convexity gate: the largest remaining diagonal is eliminated, with  *)
(* the remainder scaled by the positive pivot to stay integral.            *)
Reject(s) ==
  /\ pc' = "done" /\ status' = s
  /\ UNCHANGED <<qp, S, left, plan, boxes, x, W, it, mult, ray, farkas, has_x, stop, printed>>

Asymmetric(q) == \E i, j \in Cols(q) : q.Q[i][j] # q.Q[j][i]
Pivots == {p \in left : \A i \in left : S[i][i] <= S[p][p]}

GateAsymmetric == pc = "gate" /\ Asymmetric(qp) /\ Reject(QP_NON_CONVEX)

GatePivot ==
  /\ pc = "gate" /\ ~Asymmetric(qp)
  /\ \E p \in Pivots :
       /\ S[p][p] > 0
       /\ S' = [i \in Cols(qp) |-> [j \in Cols(qp) |-> S[p][p] * S[i][j] - S[i][p] * S[p][j]]]
       /\ left' = left \ {p}
  /\ UNCHANGED <<qp, pc, plan, boxes, x, W, it, result, stop, printed>>

(* No positive diagonal remains: a negative one rejects, and a zero one    *)
(* has the off-diagonals looked at.                                        *)
TailIsFlat_DiagonalOnly == \A p \in Pivots : S[p][p] = 0

TailIsFlat == \A p \in Pivots : S[p][p] = 0 /\ \A i, j \in left : i # j => S[i][j] = 0

GateRejects ==
  /\ pc = "gate" /\ ~Asymmetric(qp)
  /\ \A p \in Pivots : S[p][p] <= 0
  /\ ~TailIsFlat
  /\ Reject(QP_NON_CONVEX)

(* The rows active or violated at a point that are independent of the ones *)
(* before them.                                                            *)
Independent(q, w) == Det([r \in DOMAIN w |-> [s \in DOMAIN w |-> Dot(q.A[w[r]], q.A[w[s]])]]) # 0
Joined_Unranked(q, w, i) == Append(w, i)

Joined(q, w, i) == IF Independent(q, Append(w, i)) THEN Append(w, i) ELSE w

WorkingSet(q, y) ==
  LET among[i \in 0 .. Len(q.A)] ==
        IF i = 0 THEN <<>>
        ELSE LET w == among[i - 1] IN IF Resid(q, i, y) >= 0 THEN Joined(q, w, i) ELSE w
  IN among[Len(q.A)]

(* active_set from a start.                                                *)
EnterActive(y) ==
  /\ pc' = "active" /\ x' = y /\ W' = WorkingSet(qp, y) /\ it' = 0 /\ has_x' = TRUE
  /\ mult' = Point(Zeros(Len(qp.A)), 1)
  /\ UNCHANGED <<qp, S, left, boxes, status, ray, farkas, stop, printed>>

Base == IF qp.x0 = None THEN Point(Zeros(qp.n), 1) ELSE Point(qp.x0, 1)

(* The searches, in the order the caller asked for.                        *)
Dense == IF qp.n + Len(qp.A) <= DenseLimit THEN <<"dense">> ELSE <<>>
Plan == (IF qp.lp_first THEN <<"lp">> \o Dense ELSE Dense \o <<"lp">>) \o <<"farkas">>

GateAccepts ==
  /\ pc = "gate" /\ ~Asymmetric(qp)
  /\ \A p \in Pivots : S[p][p] <= 0
  /\ TailIsFlat
  /\ IF Feasible(qp, Base)
     THEN EnterActive(Base) /\ UNCHANGED plan
     ELSE /\ pc' = "start" /\ plan' = Plan /\ boxes' = Boxes
          /\ UNCHANGED <<qp, S, left, x, W, it, result, stop, printed>>

----------------------------------------------------------------------------
(* find_feasible.                                                          *)
Searching(route) == pc = "start" /\ Head(plan) = route

NextSearch == plan' = Tail(plan) /\ UNCHANGED <<qp, pc, S, left, boxes, x, W, it, result, stop, printed>>

(* Both searches hand over only points that clear the rows.                *)
LpPoint ==
  /\ Searching("lp") /\ ~stop
  /\ \E y \in Starts[qp.n] : Feasible(qp, Point(y, 1)) /\ EnterActive(Point(y, 1))
  /\ UNCHANGED plan

DensePoint ==
  /\ Searching("dense") /\ ~stop
  /\ \E y \in Starts[qp.n] : Feasible(qp, Point(y, 1)) /\ EnterActive(Point(y, 1))
  /\ UNCHANGED plan

LpNothing ==                                  \* try the next box, then the next search
  /\ Searching("lp") /\ ~stop
  /\ IF boxes > 1
     THEN boxes' = boxes - 1 /\ UNCHANGED <<qp, pc, S, left, plan, x, W, it, result, stop, printed>>
     ELSE NextSearch

DenseNothing == Searching("dense") /\ ~stop /\ NextSearch

(* A stop in the LP search is the value 3, which find_feasible returns and *)
(* qp_solve does not look for: the active set starts from the base point.  *)
LpStopped == Searching("lp") /\ stop /\ EnterActive(Base) /\ UNCHANGED plan

DenseStopped == Searching("dense") /\ stop /\ Reject(QP_STOPPED)

(* farkas_verify.  It tries the multipliers it is given under four sign    *)
(* conventions; here they are any multipliers in the first place.          *)
Refutes(q, lam) ==
  /\ \A i \in Rows(q) : lam[i] >= 0
  /\ \A j \in Cols(q) : MapThenSumSet(LAMBDA i : lam[i] * q.A[i][j], Rows(q)) = 0
  /\ Dot(lam, q.b) < 0

Prove(lam) ==
  /\ Refutes(qp, lam)
  /\ pc' = "done" /\ status' = NO_START /\ farkas' = lam
  /\ UNCHANGED <<qp, S, left, plan, boxes, x, W, it, mult, ray, has_x, stop, printed>>

LpProof ==
  /\ Searching("lp") /\ ~stop
  /\ \E lam \in [Rows(qp) -> Multipliers] : Prove(lam)

FarkasProof ==
  /\ Searching("farkas") /\ ~stop
  /\ \E lam \in [Rows(qp) -> Multipliers] : Prove(lam)

FarkasNothing == Searching("farkas") /\ Reject(NO_START)

----------------------------------------------------------------------------
(* The KKT system [Q A'; A 0] of a working set, and its solution by        *)
(* Cramer's rule: a step with a positive denominator, and the multipliers. *)
Kkt(q, w, H) ==
  [i \in 1 .. q.n + Len(w) |-> [j \in 1 .. q.n + Len(w) |->
     IF i <= q.n /\ j <= q.n THEN H[i][j]
     ELSE IF i <= q.n THEN q.A[w[j - q.n]][i]
     ELSE IF j <= q.n THEN q.A[w[i - q.n]][j] ELSE 0]]

Solution(q, w, K, g, d) ==
  LET rhs == [i \in DOMAIN K |-> IF i <= q.n THEN -g[i] ELSE 0]
      Cramer(c) == Det([i \in DOMAIN K |-> [K[i] EXCEPT ![c] = rhs[i]]])
      s == Point([c \in DOMAIN K |-> Cramer(c)], Det(K) * d)
  IN [p |-> SubSeq(s.v, 1, q.n), d |-> s.d, mu |-> SubSeq(s.v, q.n + 1, Len(K)), flat |-> FALSE]

Directions(q) == [Cols(q) -> -Span .. Span]
Null(q, w) ==
  {e \in Directions(q) : Apply(q.Q, e) = Zeros(q.n) /\ \A r \in DOMAIN w : Dot(q.A[w[r]], e) = 0}

(* Where a singular system has no solution, the regularized one steps far  *)
(* along the projection of -g on the flat directions.                      *)
Primitive(e, es) == ~ \E f \in es, k \in 2 .. Span : e = [j \in DOMAIN f |-> k * f[j]]
FlatDescents(w, g, es) ==
  {e \in es : Dot(g, e) < 0 /\ Primitive(e, es) /\ \A f \in es : Dot(e, f) = 0 => Dot(g, f) = 0}

(* Where it has one, the regularized system steps to the least of them.    *)
Regularized(q, es) ==
  [i \in Cols(q) |-> [j \in Cols(q) |-> q.Q[i][j] + MapThenSumSet(LAMBDA e : e[i] * e[j], es)]]

SolveKkt(q, w, y) ==
  LET g == Gradient(q, y)
      K == Kkt(q, w, q.Q)
      es == Null(q, w)
      R == Kkt(q, w, Regularized(q, es))
  IN IF Det(K) # 0 THEN {Solution(q, w, K, g, y.d)}
     ELSE IF \E e \in es : Dot(g, e) # 0
     THEN {[p |-> [j \in Cols(q) |-> Far * e[j]], d |-> 1, mu |-> Zeros(Len(w)), flat |-> TRUE] :
             e \in FlatDescents(w, g, es)}
     ELSE IF Det(R) # 0 THEN {Solution(q, w, R, g, y.d)} ELSE {}

----------------------------------------------------------------------------
(* The active-set loop.                                                    *)
InLoop == pc = "active" /\ ~stop /\ it < IterCap

Leave(s) ==
  /\ pc' = "done" /\ status' = s
  /\ UNCHANGED <<qp, S, left, plan, boxes, x, W, it, farkas, has_x, stop, printed>>

Iterated_MovesOnly(y, w) ==                        \* the iterations that only change W do not count
  /\ x' = y /\ W' = w /\ it' = IF y = x THEN it ELSE it + 1
  /\ UNCHANGED <<qp, pc, S, left, plan, boxes, result, stop, printed>>

Iterated(y, w) ==
  /\ x' = y /\ W' = w /\ it' = it + 1
  /\ UNCHANGED <<qp, pc, S, left, plan, boxes, result, stop, printed>>

ActiveStopped == pc = "active" /\ stop /\ it < IterCap /\ Leave(QP_STOPPED) /\ UNCHANGED <<mult, ray>>
ActiveCapped == pc = "active" /\ it >= IterCap /\ Leave(QP_ITERATION_LIMIT) /\ UNCHANGED <<mult, ray>>

KktFails ==
  /\ InLoop
  /\ IF W # <<>> THEN Iterated(x, Front(W)) ELSE Leave(QP_KKT_FAIL) /\ UNCHANGED <<mult, ray>>

RanAway(y) == \E j \in DOMAIN y.v : Magnitude(y.v[j]) >= Huge * y.d
Diverged == InLoop /\ RanAway(x) /\ Leave(QP_ITERATION_LIMIT) /\ UNCHANGED <<mult, ray>>

(* Stationary on the working set: drop the row of the most negative        *)
(* multiplier, the last row taking its place.                              *)
Dropped(w, r) == SubSeq([w EXCEPT ![r] = w[Len(w)]], 1, Len(w) - 1)

DropRow(step) ==
  \E r \in DOMAIN W :
    /\ step.mu[r] < 0
    /\ \A s \in DOMAIN W : step.mu[s] > step.mu[r] \/ (step.mu[s] = step.mu[r] /\ s >= r)
    /\ Iterated(x, Dropped(W, r))

RowMultipliers(step) ==
  [v |-> [i \in Rows(qp) |-> MapThenSumSet(LAMBDA r : IF W[r] = i THEN step.mu[r] ELSE 0, DOMAIN W)],
   d |-> step.d]

(* Or conclude, if the multipliers' rows are active and the rows hold.     *)
Conclude(step) ==
  /\ \A r \in DOMAIN W : step.mu[r] >= 0
  /\ IF (\A r \in DOMAIN W : Resid(qp, W[r], x) = 0) /\ Feasible(qp, x)
     THEN Leave(SOLVED) /\ mult' = RowMultipliers(step)
     ELSE Leave(QP_KKT_FAIL) /\ UNCHANGED mult
  /\ UNCHANGED ray

Stationary(step) ==
  step.p = Zeros(qp.n) /\ (DropRow(step) \/ Conclude(step))

(* The evidence for an unbounded program.                                  *)
IsRay(p) == Dot(Gradient(qp, x), p) < 0 /\ Feasible(qp, x) /\ Curvature(qp, p) <= 0 /\ Recedes(qp, p)

Unbounded(step) ==
  /\ step.p # Zeros(qp.n) /\ IsRay(step.p)
  /\ Leave(UNBOUNDED) /\ ray' = step.p /\ UNCHANGED mult

(* The step to the first row it meets, which joins the working set if it   *)
(* is independent of it.                                                   *)
Room(i, step) == Max({0, -Resid(qp, i, x)}) * step.d          \* over x.d
Speed(i, step) == Dot(qp.A[i], step.p)                        \* the ratio is Room / (x.d * Speed)
Meets(i, step) == i \notin Range(W) /\ Speed(i, step) > 0 /\ Room(i, step) < x.d * Speed(i, step)
Sooner(i, k, step) == Room(i, step) * Speed(k, step) < Room(k, step) * Speed(i, step)
Blocks(i, step) ==
  /\ Meets(i, step)
  /\ \A k \in Rows(qp) : Meets(k, step) => ~Sooner(k, i, step) /\ (k < i => Sooner(i, k, step))

(* x + (num/den) p                                                         *)
Moved(step, num, den) ==
  Point([j \in Cols(qp) |-> x.v[j] * step.d * den + num * step.p[j] * x.d], x.d * step.d * den)

Move_FullStep(step) ==
  /\ step.p # Zeros(qp.n)
  /\ IsRay(step.p) => step.flat
  /\ Iterated(Moved(step, 1, 1), W)

Move(step) ==
  /\ step.p # Zeros(qp.n)
  /\ IsRay(step.p) => step.flat                  \* unresolved curvature
  /\ IF \E i \in Rows(qp) : Meets(i, step)
     THEN \E i \in Rows(qp) :
            /\ Blocks(i, step)
            /\ Iterated(Moved(step, Room(i, step), x.d * Speed(i, step)), Joined(qp, W, i))
     ELSE Iterated(Moved(step, 1, 1), W)

Iterate ==
  /\ InLoop /\ ~RanAway(x)
  /\ \E step \in SolveKkt(qp, W, x) : Stationary(step) \/ Unbounded(step) \/ Move(step)

----------------------------------------------------------------------------
(* qpsolve: verdicts are printed through the evidence checks of cert.c.    *)
OptimalCertified ==
  /\ Feasible(qp, x)
  /\ \A j \in Cols(qp) :
       Gradient(qp, x)[j] * mult.d + MapThenSumSet(LAMBDA i : qp.A[i][j] * mult.v[i], Rows(qp)) * x.d = 0
  /\ \A i \in Rows(qp) : mult.v[i] >= 0 /\ (mult.v[i] > 0 => Resid(qp, i, x) = 0)

UnboundedCertified ==
  /\ Feasible(qp, x) /\ Recedes(qp, ray)
  /\ Curvature(qp, ray) <= 0 /\ Dot(Gradient(qp, x), ray) < 0

InfeasibleCertified ==
  /\ \A i \in Rows(qp) : farkas[i] >= 0
  /\ \A j \in Cols(qp) : MapThenSumSet(LAMBDA i : qp.A[i][j] * farkas[i], Rows(qp)) = 0
  /\ Dot(qp.b, farkas) < 0

Line ==
  CASE status = SOLVED -> IF OptimalCertified THEN "SOLUTION" ELSE QP_KKT_FAIL
    [] status = UNBOUNDED -> IF UnboundedCertified THEN UNBOUNDED ELSE QP_KKT_FAIL
    [] status = QP_STOPPED -> IF has_x THEN "INCUMBENT" ELSE QP_STOPPED
    [] status = NO_START /\ farkas # None -> IF InfeasibleCertified THEN "PROVEN" ELSE NO_START
    [] OTHER -> status

PrintLine ==
  /\ pc = "done" /\ pc' = "printed" /\ printed' = Line
  /\ UNCHANGED <<qp, S, left, plan, boxes, x, W, it, result, stop>>

(* The flag may be raised between any two steps, and stays raised.         *)
Alarm ==
  /\ pc \notin {"done", "printed"} /\ ~stop /\ stop' = TRUE
  /\ UNCHANGED <<qp, pc, S, left, plan, boxes, x, W, it, result, printed>>

Init ==
  /\ qp \in QPs /\ pc = "gate" /\ S = qp.Q /\ left = Cols(qp)
  /\ plan = <<>> /\ boxes = 0 /\ x = Point(Zeros(qp.n), 1) /\ W = <<>> /\ it = 0
  /\ status = Unset /\ mult = None /\ ray = None /\ farkas = None /\ has_x = FALSE
  /\ stop = FALSE /\ printed = Unset

Gate == GateAsymmetric \/ GatePivot \/ GateRejects \/ GateAccepts
FindFeasible ==
  \/ LpPoint \/ LpNothing \/ LpProof \/ LpStopped
  \/ DensePoint \/ DenseNothing \/ DenseStopped
  \/ FarkasProof \/ FarkasNothing
ActiveSet == ActiveStopped \/ ActiveCapped \/ KktFails \/ Diverged \/ Iterate
Work == Gate \/ FindFeasible \/ ActiveSet \/ PrintLine
Next == Work \/ Alarm
Spec == Init /\ [][Next]_vars

(* Weak fairness of Work, of which some step can be taken until the line   *)
(* is printed.                                                             *)
FairSpec == Spec /\ ([]<>(pc = "printed") \/ []<><<Work>>_vars)

----------------------------------------------------------------------------
(* The directions and the points the properties try.                       *)
Trials(q) == [Cols(q) -> Scalars]
Points(q) == [v : Trials(q), d : {k \in Scalars : k > 0}]

Convex(q) == \A e \in Trials(q) : Curvature(q, e) >= 0

(* A short move along e from y stays feasible and lowers the objective.    *)
Improves(q, y, e) ==
  /\ \A i \in Rows(q) : Resid(q, i, y) = 0 => Dot(q.A[i], e) <= 0
  /\ \/ Dot(Gradient(q, y), e) < 0
     \/ Dot(Gradient(q, y), e) = 0 /\ Curvature(q, e) < 0

Unbeaten(q, y) == Feasible(q, y) /\ \A e \in Trials(q) : ~Improves(q, y, e)
HasNoFloor(q, y) ==
  /\ Feasible(q, y)
  /\ \E e \in Trials(q) :
       Recedes(q, e) /\ Curvature(q, e) <= 0 /\ Dot(Gradient(q, y), e) < 0

(* What is printed is real: a solution is feasible and no direction        *)
(* improves it, an unbounded program has a feasible descent without end, a *)
(* program proven empty has no point and one called non-convex is.  A ray  *)
(* or proof the engine has found the evidence checks do not take back.     *)
LineIsReal ==
  /\ printed = "SOLUTION" => Unbeaten(qp, x)
  /\ printed = UNBOUNDED => HasNoFloor(qp, x)
  /\ printed = "PROVEN" => ~ \E y \in Points(qp) : Feasible(qp, y)
  /\ printed = QP_NON_CONVEX => Asymmetric(qp) \/ ~Convex(qp)
  /\ printed = QP_KKT_FAIL => status \in {QP_KKT_FAIL, SOLVED}
  /\ printed = NO_START => farkas = None

(* qp.c: "still feasible": from a feasible start no iteration leaves the   *)
(* feasible set or raises the objective, degenerate steps, dropped rows    *)
(* and failed systems included.                                            *)
TwiceObjective(q, y) == Dot(y.v, Apply(q.Q, y.v)) + 2 * y.d * Dot(q.c, y.v)     \* times y.d ^ 2
StepsDescend ==
  [][pc = "active" /\ Feasible(qp, x) =>
       /\ Feasible(qp, x')
       /\ TwiceObjective(qp, x') * x.d * x.d <= TwiceObjective(qp, x) * x'.d * x'.d]_vars

(* The working set is kept row-independent, so that the KKT system is      *)
(* singular for a flat Hessian only, and its rows stay active while others *)
(* are dropped and blocked upon; and the solution concluded from it passes *)
(* the evidence check.                                                     *)
WorkingSetHolds ==
  /\ pc = "active" =>
       /\ Independent(qp, W)
       /\ Feasible(qp, x) => \A r \in DOMAIN W : Resid(qp, W[r], x) = 0
  /\ status = SOLVED => OptimalCertified

(* Every solve ends with a printed line, with and without a stop.          *)
EventuallyPrints == <>(pc = "printed")

(* qp.h: completing the scan proves that Q is positive semidefinite.       *)
GateIsExact == pc \in {"start", "active"} => Convex(qp)

(* qpsolve.c: the incumbent printed on a stop is feasible.                 *)
IncumbentIsFeasible == printed = "INCUMBENT" => Feasible(qp, x)
=============================================================================
