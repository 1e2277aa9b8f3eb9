----------------------------- MODULE WarmSimplex -----------------------------
(***************************************************************************)
(* src/src/solver.c: the bounded-variable revised simplex and its          *)
(* incremental interface (solver.h): solver_create, solver_solve,          *)
(* solver_set_objective, solver_set_bounds, solver_add_row and             *)
(* solver_warm_solve, called in any order, after solves that ended in any  *)
(* state.                                                                  *)
(*                                                                         *)
(* Arithmetic is exact.  Rows are integer and totally unimodular, so every *)
(* pivot element is 1 or -1, every basic solution is integral and a        *)
(* quotient by a pivot is a product.  Tolerances and the equilibration are *)
(* then without effect; the entering column is any improving one (steepest *)
(* edge, Bland) and the leaving row of the dual simplex any violated one.  *)
(***************************************************************************)
EXTENDS Integers, Sequences, FiniteSets, FiniteSetsExt

CONSTANTS
  LP_INF,        \* the token of an absent bound
  Problems,      \* linear programs a solver is created for
  Objectives,    \* objectives the caller may set: [c, maximize]
  Boxes,         \* boxes the caller may set: [l, u]
  NewRows,       \* rows the caller may add: [a, rel, b]
  ColdAfterBounds, \* whether the caller may solver_solve changed bounds
  MaxCalls,      \* calls of the interface in a behaviour
  MaxRows,       \* rows a behaviour may reach
  Window         \* integers the points of the reference range over

Abs(v) == IF v < 0 THEN -v ELSE v

(* A bound is absent, at LP_INF or beyond, or it is far below LP_INF.      *)
Small(v) == 4 * Abs(v) <= LP_INF

Box(b, n) ==
  /\ b.l \in Seq(Int) /\ Len(b.l) = n /\ \A j \in 1 .. n : b.l[j] <= -LP_INF \/ Small(b.l[j])
  /\ b.u \in Seq(Int) /\ Len(b.u) = n /\ \A j \in 1 .. n : b.u[j] >= LP_INF \/ Small(b.u[j])

Objective(o, n) == o.c \in Seq(Int) /\ Len(o.c) = n /\ o.maximize \in BOOLEAN

LinearRow == [a : Seq(Int), rel : {"<", ">", "="}, b : Int]

Constraint(row, n) == row \in LinearRow /\ Len(row.a) = n

LinearProgram(p) ==
  LET n == Len(p.c) IN
  /\ p \in [c : Seq(Int), maximize : BOOLEAN, l : Seq(Int), u : Seq(Int), rows : Seq(LinearRow),
            limit : Int]
  /\ n > 0 /\ Box(p, n)
  /\ \A i \in DOMAIN p.rows : Constraint(p.rows[i], n)

(* Total unimodularity: no basis of [A | I] with an integral inverse (its  *)
(* entries may be what one pivot makes of -1, 0 and 1) has other entries   *)
(* than -1, 0 and 1 in its tableau.                                        *)
Unimodular(rows, n) ==
  LET M == DOMAIN rows
      col(k) == [r \in M |-> IF k \in 1 .. n THEN rows[r].a[k] ELSE IF k = n + r THEN 1 ELSE 0]
      times(y, v) == MapThenSumSet(LAMBDA r : y[r] * v[r], M)
  IN  \A basis \in [M -> 1 .. n + Len(rows)], inv \in [M -> [M -> -2 .. 2]] :
        (\A i, t \in M : times(inv[i], col(basis[t])) = (IF i = t THEN 1 ELSE 0))
          => \A i \in M, k \in 1 .. n + Len(rows) : times(inv[i], col(k)) \in {-1, 0, 1}

(* The data of rows and box add up to less than LP_INF, so that no value   *)
(* of a basic solution can be mistaken for an absent bound.                *)
Modest(rows, b) ==
  LET finite(v) == IF Abs(v) < LP_INF THEN Abs(v) ELSE 0
  IN  MapThenSumSet(LAMBDA i : Abs(rows[i].b), DOMAIN rows)
        + MapThenSumSet(LAMBDA j : finite(b.l[j]) + finite(b.u[j]), DOMAIN b.l) < LP_INF

(* The rows of p and what solver_add_row can make of them.                 *)
RowLists(p) ==
  LET fitting == {row \in NewRows : Constraint(row, Len(p.c))}
  IN  {p.rows} \cup {p.rows \o q : q \in UNION {[1 .. m -> fitting] : m \in 0 .. MaxRows - Len(p.rows)}}

BoxOf(p) == [l |-> p.l, u |-> p.u]

ASSUME SimplexAssumption ==
  /\ LP_INF \in Nat \ {0} /\ MaxCalls \in Nat /\ MaxRows \in Nat /\ Window \subseteq Int
  /\ ColdAfterBounds \in BOOLEAN
  /\ \A o \in Objectives : Objective(o, Len(o.c))
  /\ \A b \in Boxes : Box(b, Len(b.l))
  /\ \A row \in NewRows : Constraint(row, Len(row.a))
  /\ \A p \in Problems :
       /\ LinearProgram(p)
       /\ \A rows \in RowLists(p) :
            /\ Unimodular(rows, Len(p.c))
            /\ \A b \in {BoxOf(p)} \cup {c \in Boxes : Len(c.l) = Len(p.c)} : Modest(rows, b)

VARIABLES
  s,        \* the Solver struct
  asked,    \* the linear program the caller has described so far
  calls,    \* calls made
  changed   \* what the caller changed since the last solve

vars == <<s, asked, calls, changed>>

-----------------------------------------------------------------------------
(* The equality form.  A column is <<"x", j>> (orig_pos), <<"n", j>>       *)
(* (orig_neg), <<"s", i>> (slackVar) or <<"a", i>> (artVar).               *)

Free(l, u) == l <= -LP_INF /\ u >= LP_INF

Split(lp) == {j \in DOMAIN lp.c : Free(lp.l[j], lp.u[j])}

Rows(e) == DOMAIN e.lp.rows

Core(e) == {<<"x", j>> : j \in DOMAIN e.lp.c} \cup {<<"n", j>> : j \in e.split}

Slacks(e) == {<<"s", i>> : i \in {r \in Rows(e) : e.lp.rows[r].rel # "="}}

Artificials(e) == {<<"a", i>> : i \in Rows(e)}

Columns(e) == Core(e) \cup Slacks(e) \cup Artificials(e)

Mlt(row) == IF row.b >= 0 THEN 1 ELSE -1          \* the right-hand side is |b|

SlackSign(row) == Mlt(row) * (IF row.rel = "<" THEN 1 ELSE -1)

(* Column k of the equality form, at row i.                                *)
A(e, k, i) ==
  CASE k[1] = "x" -> Mlt(e.lp.rows[i]) * e.lp.rows[i].a[k[2]]
    [] k[1] = "n" -> -(Mlt(e.lp.rows[i]) * e.lp.rows[i].a[k[2]])
    [] k[1] = "s" -> IF k[2] = i THEN SlackSign(e.lp.rows[i]) ELSE 0
    [] k[1] = "a" -> IF k[2] = i THEN e.artSign[i] ELSE 0

Basic(e) == {e.basis[i] : i \in Rows(e)}

Parked(e) == {k \in Columns(e) : e.status[k] \in {"NBL", "NBU"}}

Fixed(e, k) == e.u[k] <= e.l[k]

(* B^-1 v and y^T B^-1, from the factors the struct holds.                 *)
Ftran(e, v) == [i \in Rows(e) |-> MapThenSumSet(LAMBDA r : e.inv[i][r] * v[r], Rows(e))]

Btran(e, y) == [r \in Rows(e) |-> MapThenSumSet(LAMBDA i : y[i] * e.inv[i][r], Rows(e))]

Column(e, k) == [i \in Rows(e) |-> A(e, k, i)]

Dot(e, y, k) == MapThenSumSet(LAMBDA i : y[i] * A(e, k, i), Rows(e))

Duals(e) == Btran(e, [i \in Rows(e) |-> e.cobj[e.basis[i]]])

(* The reduced costs of the parked columns under the active objective.     *)
Price(e) == LET y == Duals(e) IN [k \in Parked(e) |-> e.cobj[k] - Dot(e, y, k)]

(* The basic values that the parked ones imply.                            *)
recompute_basic(e) ==
  LET rest == [i \in Rows(e) |-> Abs(e.lp.rows[i].b)
                 - MapThenSumSet(LAMBDA k : A(e, k, i) * e.x[k], Parked(e))]
      xB == Ftran(e, rest)
  IN  [e EXCEPT !.x = [k \in Columns(e) |->
         IF k \in Basic(e) THEN xB[CHOOSE i \in Rows(e) : e.basis[i] = k] ELSE e.x[k]]]

Violation(e, k) == CASE e.x[k] < e.l[k] -> e.l[k] - e.x[k]
                     [] e.x[k] > e.u[k] -> e.x[k] - e.u[k]
                     [] OTHER -> 0

solver_feasible(e) ==
  LET present == {k \in Columns(e) : e.status[k] # "REMOVED"}
  IN  /\ \A k \in present : Violation(e, k) = 0
      /\ \A i \in Rows(e) :
           MapThenSumSet(LAMBDA k : A(e, k, i) * e.x[k], present) = Abs(e.lp.rows[i].b)

-----------------------------------------------------------------------------
(* Creation.                                                               *)

(* The objective in maximize form over the normalized columns: c0.         *)
TrueCost(e) ==
  LET cost(j) == IF e.lp.maximize THEN e.lp.c[j] ELSE -e.lp.c[j]
  IN  [k \in Columns(e) |-> CASE k[1] = "x" -> cost(k[2])
                              [] k[1] = "n" -> -cost(k[2])
                              [] OTHER -> 0]

PhaseOneCost(e) == [k \in Columns(e) |-> IF k[1] = "a" THEN -1 ELSE 0]

(* Every core column at its lower bound if it has one, else at its upper;  *)
(* each row served by its slack if that makes it nonnegative, else by an   *)
(* artificial of the sign that does.                                       *)
InitialBasis(e) ==
  LET at(k) == IF e.l[k] > -LP_INF THEN e.l[k] ELSE e.u[k]
      resid(i) == Abs(e.lp.rows[i].b)
                    - MapThenSumSet(LAMBDA k : A(e, k, i) * at(k), Core(e))
      bySlack(i) == /\ e.lp.rows[i].rel # "="
                    /\ resid(i) * SlackSign(e.lp.rows[i]) >= 0
      sign == [i \in Rows(e) |-> IF bySlack(i) \/ resid(i) >= 0 THEN 1 ELSE -1]
      basis == [i \in Rows(e) |-> IF bySlack(i) THEN <<"s", i>> ELSE <<"a", i>>]
      unit(i) == IF bySlack(i) THEN SlackSign(e.lp.rows[i]) ELSE sign[i]
      basics == {basis[i] : i \in Rows(e)}
  IN  [e EXCEPT
        !.artSign = sign,
        !.basis = basis,
        !.inv = [i \in Rows(e) |-> [r \in Rows(e) |-> IF r = i THEN unit(i) ELSE 0]],
        !.status = [k \in Columns(e) |->
                      IF k \in basics THEN "BASIC"
                      ELSE IF k \in Core(e) /\ e.l[k] <= -LP_INF THEN "NBU" ELSE "NBL"],
        !.x = [k \in Columns(e) |-> IF k \in basics THEN Abs(resid(k[2]))
                                    ELSE IF k \in Core(e) THEN at(k) ELSE 0]]

NoRay == <<>>

ColumnBounds(e) ==
  [e EXCEPT
     !.l = [k \in Columns(e) |-> IF k[1] = "x" /\ k[2] \notin e.split
                                 THEN e.lp.l[k[2]] ELSE 0],
     !.u = [k \in Columns(e) |-> IF k[1] = "x" /\ k[2] \notin e.split
                                 THEN e.lp.u[k[2]] ELSE LP_INF]]

solver_create(lp) ==
  LET blank == [lp |-> lp, split |-> Split(lp),
                rebuild_pending |-> FALSE, artSign |-> [i \in DOMAIN lp.rows |-> 1],
                l |-> <<>>, u |-> <<>>, c0 |-> <<>>, cobj |-> <<>>,
                basis |-> <<>>, inv |-> <<>>, status |-> <<>>, x |-> <<>>,
                iters |-> 0, carried |-> 0, local |-> 0, restarted |-> FALSE,
                lane |-> "idle", status_out |-> 0,
                farkas_ok |-> FALSE, dfarkas_ok |-> FALSE, dfarkas_ray |-> NoRay,
                unb_ray |-> NoRay, objval |-> 0, duals |-> [i \in DOMAIN lp.rows |-> 0]]
      bounded == ColumnBounds(blank)
      costed == [bounded EXCEPT !.c0 = TrueCost(bounded), !.cobj = PhaseOneCost(bounded)]
  IN  InitialBasis(costed)

-----------------------------------------------------------------------------
(* Ends of a call.  A clean re-solve adds the pivots it inherited.         *)

Return(e, code) ==
  [e EXCEPT !.lane = "idle", !.status_out = code,
            !.iters = @ + e.carried, !.carried = 0]

EmptyBox(e) == \E k \in Columns(e) : e.l[k] > e.u[k]

(* The ray of an unbounded solve survives the next one.                    *)
ClearEvidence_KeepsRay(e) == [e EXCEPT !.farkas_ok = FALSE, !.dfarkas_ok = FALSE]

ClearEvidence(e) ==
  [e EXCEPT !.farkas_ok = FALSE, !.dfarkas_ok = FALSE, !.unb_ray = NoRay]

(* cleanup_phase1 and what follows it in solver_solve_impl.                *)
EnterPhaseTwo(e) ==
  recompute_basic(
    [e EXCEPT !.status = [k \in Columns(e) |->
                            IF k[1] = "a" /\ @[k] # "BASIC" THEN "REMOVED" ELSE @[k]],
              !.cobj = e.c0,
              !.lane = "phase2"])

(* solver_solve_impl, up to its first pivot.                               *)
SolveFrom(e) ==
  LET c == ClearEvidence(e)
  IN  IF EmptyBox(c) THEN Return(c, 1)
      ELSE IF \E k \in Basic(c) : k[1] = "a"
      THEN [c EXCEPT !.lane = "phase1", !.cobj = PhaseOneCost(c), !.restarted = FALSE]
      ELSE EnterPhaseTwo(c)

(* solver_refresh: the exported problem is created and solved anew.        *)
solver_refresh(e) ==
  SolveFrom([solver_create(e.lp) EXCEPT !.carried = e.iters])

-----------------------------------------------------------------------------
(* One primal iteration: a set of outcomes <<code, struct>>, as iterate    *)
(* returns 0 (no candidate), 1 (moved) or 2 (nothing blocks).              *)

Improves(e, rc, k) ==
  /\ ~Fixed(e, k)
  /\ \/ e.status[k] = "NBL" /\ rc[k] > 0
     \/ e.status[k] = "NBU" /\ rc[k] < 0

Entering(e) == LET rc == Price(e) IN {k \in Parked(e) : Improves(e, rc, k)}

(* push_eta: row p of the factors over the pivot, the others reduced.      *)
Eta(e, d, p) ==
  [i \in Rows(e) |-> [r \in Rows(e) |->
     IF i = p THEN d[p] * e.inv[p][r] ELSE e.inv[i][r] - d[i] * d[p] * e.inv[p][r]]]

Exchange(e, q, d, p, leavesAt) ==
  [e EXCEPT !.status[e.basis[p]] = leavesAt,
            !.status[q] = "BASIC",
            !.basis[p] = q,
            !.inv = Eta(e, d, p)]

Move(e, q) ==
  LET dir == IF e.status[q] = "NBL" THEN 1 ELSE -1
      d == Ftran(e, Column(e, q))
      v == [i \in Rows(e) |-> -dir * d[i]]
      blocks(i) == LET k == e.basis[i] IN \/ v[i] > 0 /\ e.u[k] < LP_INF
                                          \/ v[i] < 0 /\ e.l[k] > -LP_INF
      room(i) == LET k == e.basis[i]
                 IN  IF v[i] > 0 THEN e.u[k] - e.x[k] ELSE e.x[k] - e.l[k]
      slots == {i \in Rows(e) : blocks(i)}
      least == Min({room(i) : i \in slots})
      own == e.u[q] - e.l[q]
      flips == /\ e.l[q] > -LP_INF /\ e.u[q] < LP_INF
               /\ slots = {} \/ own <= least
      theta == IF flips THEN own ELSE least
      p == Min({i \in slots : room(i) = least})
      moved == [e EXCEPT
        !.x = [k \in Columns(e) |->
          IF k = q THEN (IF dir > 0 THEN e.l[q] + theta ELSE e.u[q] - theta)
          ELSE IF k \in Basic(e)
          THEN e.x[k] + theta * v[CHOOSE i \in Rows(e) : e.basis[i] = k]
          ELSE e.x[k]],
        !.iters = @ + 1]
  IN  IF slots = {} /\ ~flips
      THEN <<2, [e EXCEPT !.unb_ray = [k \in Columns(e) |->
                   IF k = q THEN dir
                   ELSE IF k \in Basic(e) THEN v[CHOOSE i \in Rows(e) : e.basis[i] = k]
                   ELSE 0]]>>
      ELSE IF flips
      THEN <<1, [moved EXCEPT !.status[q] = IF dir > 0 THEN "NBU" ELSE "NBL"]>>
      ELSE <<1, Exchange(moved, q, d, p, IF v[p] > 0 THEN "NBU" ELSE "NBL")>>

iterate(e) ==
  IF Entering(e) = {} THEN {<<0, e>>} ELSE {Move(e, q) : q \in Entering(e)}

-----------------------------------------------------------------------------
(* One dual iteration, with the codes of dual_iterate.                     *)

(* The candidates of the ratio test for leaving slot p in direction D, and *)
(* their ratio (a pivot element is 1 or -1).                               *)
Pushes(e, p, D) ==
  {k \in Parked(e) :
     /\ k[1] # "a" /\ ~Fixed(e, k)
     /\ D * (IF e.status[k] = "NBU" THEN -1 ELSE 1) * Dot(e, e.inv[p], k) < 0}

Ratio(e, rc, k) == IF e.status[k] = "NBU" THEN rc[k] ELSE -rc[k]

DualMove(e, p, D, q) ==
  LET sq == IF e.status[q] = "NBU" THEN -1 ELSE 1
      d == Ftran(e, Column(e, q))
      k == e.basis[p]
      target == IF D > 0 THEN e.l[k] ELSE e.u[k]
      t == (e.x[k] - target) * sq * d[p]
      moved == [e EXCEPT
        !.x = [c \in Columns(e) |->
          IF c = q THEN (IF sq > 0 THEN e.l[q] ELSE e.u[q]) + sq * t
          ELSE IF c = k THEN target
          ELSE IF c \in Basic(e)
          THEN e.x[c] - sq * t * d[CHOOSE i \in Rows(e) : e.basis[i] = c]
          ELSE e.x[c]],
        !.iters = @ + 1]
  IN  Exchange(moved, q, d, p, IF D > 0 THEN "NBL" ELSE "NBU")

DualOutcomes(e, p) ==
  LET D == IF e.x[e.basis[p]] < e.l[e.basis[p]] THEN 1 ELSE -1
      rc == Price(e)
      pushes == Pushes(e, p, D)
      sound == {k \in pushes : Ratio(e, rc, k) >= 0}
      least == Min({Ratio(e, rc, k) : k \in sound})
  IN  IF sound # {}
      THEN {<<1, DualMove(e, p, D, q)>> : q \in {k \in sound : Ratio(e, rc, k) = least}}
      ELSE IF pushes # {} THEN {<<1, recompute_basic(e)>>}
      ELSE {<<2, [e EXCEPT !.dfarkas_ray = [r \in Rows(e) |-> D * e.inv[p][r]]]>>}

dual_iterate(e) ==
  LET violated == {i \in Rows(e) : Violation(e, e.basis[i]) > 0}
  IN  IF violated = {} THEN {<<0, e>>} ELSE UNION {DualOutcomes(e, p) : p \in violated}

(* dual_cert_infeasible: the box certificate on the equality form.  It     *)
(* clips by the caller's relations and needs both sides of a column it     *)
(* uses, slacks included.                                                  *)
dual_cert_infeasible(e) ==
  LET clipped(i) == LET y == e.dfarkas_ray[i] IN
                    IF \/ e.lp.rows[i].rel = "<" /\ y < 0
                       \/ e.lp.rows[i].rel = ">" /\ y > 0
                    THEN 0 ELSE y
      y == [i \in Rows(e) |-> clipped(i)]
      z(k) == Dot(e, y, k)
      lo(k) == IF e.status[k] = "REMOVED" THEN 0 ELSE e.l[k]
      hi(k) == IF e.status[k] = "REMOVED" THEN 0 ELSE e.u[k]
      used == {k \in Columns(e) : z(k) # 0}
      corner(k) == IF z(k) > 0 THEN z(k) * lo(k) ELSE z(k) * hi(k)
  IN  /\ Rows(e) # {}
      /\ \A k \in used : lo(k) > -LP_INF /\ hi(k) < LP_INF
      /\ MapThenSumSet(corner, used)
           > MapThenSumSet(LAMBDA i : y[i] * Abs(e.lp.rows[i].b), Rows(e))
-----------------------------------------------------------------------------
(* solver_warm_solve, up to its first pivot.                               *)

(* Values snapped into the box, statuses as they were.                     *)
Repaired_ValuesOnly(e) ==
  [e EXCEPT !.x = [k \in Columns(e) |->
     IF k \notin Parked(e) THEN @[k]
     ELSE IF e.x[k] < e.l[k] THEN e.l[k] ELSE IF e.x[k] > e.u[k] THEN e.u[k] ELSE @[k]]]

(* Every parked column goes to a bound of the current box, the nearer one  *)
(* of its value, and its status names that bound.                          *)
Repaired(e) ==
  LET clamped(k) == IF e.x[k] < e.l[k] THEN e.l[k]
                    ELSE IF e.x[k] > e.u[k] THEN e.u[k] ELSE e.x[k]
      low(k) == Fixed(e, k) \/ clamped(k) - e.l[k] <= e.u[k] - clamped(k)
  IN  [e EXCEPT
        !.status = [k \in Columns(e) |->
                      IF k \notin Parked(e) THEN @[k] ELSE IF low(k) THEN "NBL" ELSE "NBU"],
        !.x = [k \in Columns(e) |->
                 IF k \notin Parked(e) THEN @[k] ELSE IF low(k) THEN e.l[k] ELSE e.u[k]]]

(* A basic artificial is let through whether it is pinned or not.          *)
LiveArtificial_Basic(e) == \E k \in Artificials(e) : e.status[k] \in {"NBL", "NBU"}

(* An artificial that may still absorb the residual of its row.            *)
LiveArtificial(e) ==
  \E k \in Artificials(e) :
    /\ e.status[k] # "REMOVED"
    /\ ~(e.status[k] = "BASIC" /\ e.l[k] = 0 /\ e.u[k] = 0 /\ e.x[k] = 0)

WarmFrom(e) ==
  LET c == ClearEvidence(e)
      r == recompute_basic(Repaired([c EXCEPT !.cobj = c.c0]))
  IN  IF c.rebuild_pending THEN solver_refresh(c)
      ELSE IF EmptyBox(c) THEN Return(c, 1)
      ELSE IF LiveArtificial(r) THEN solver_refresh(r)
      ELSE IF Entering(r) = {} THEN [r EXCEPT !.lane = "dual", !.local = 0]
      ELSE [r EXCEPT !.lane = "primal"]

-----------------------------------------------------------------------------
(* The three ways an optimum is reported.                                  *)

Solved(e) ==
  Return([e EXCEPT !.objval = MapThenSumSet(LAMBDA k : e.cobj[k] * e.x[k], Columns(e))], 0)

(* Only solver_solve_impl saves the duals.                                 *)
SolvedCold(e) == Solved([e EXCEPT !.duals = Duals(e)])

(* A basic artificial at zero is pinned there: remove_basic_artificials.   *)
Pinned(e) ==
  LET pin == {k \in Basic(e) : k[1] = "a"}
  IN  [e EXCEPT !.l = [k \in Columns(e) |-> IF k \in pin THEN 0 ELSE @[k]],
                !.u = [k \in Columns(e) |-> IF k \in pin THEN 0 ELSE @[k]]]

(* The end of Phase I with the code of its last iteration.                 *)
AfterPhaseOne(code, e) ==
  LET artsum == MapThenSumSet(LAMBDA k : e.x[k], Basic(e) \cap Artificials(e))
      certified == /\ code = 0
                   /\ \A k \in Columns(e) :
                        e.status[k] # "REMOVED" => Violation(e, k) = 0
  IN  CASE certified /\ artsum > 0 -> Return([e EXCEPT !.farkas_ok = TRUE], 1)
        [] certified /\ artsum = 0 -> EnterPhaseTwo(Pinned(e))
        [] ~certified /\ e.restarted -> Return(e, 5)
        [] ~certified /\ ~e.restarted -> InitialBasis([e EXCEPT !.restarted = TRUE])

AfterPhaseTwo(code, e) ==
  IF ~solver_feasible(e) THEN Return(e, 5)
  ELSE IF code = 2 THEN Return(e, 2) ELSE SolvedCold(e)

AfterWarmPrimal(code, e) ==
  IF code = 2 \/ ~solver_feasible(e) THEN solver_refresh(e) ELSE Solved(e)

AfterDual(code, e) ==
  CASE code = 2 /\ dual_cert_infeasible(e) -> Return([e EXCEPT !.dfarkas_ok = TRUE], 1)
    [] code = 0 /\ Entering(e) = {} /\ solver_feasible(e) -> Solved(e)
    [] OTHER -> solver_refresh(e)

-----------------------------------------------------------------------------
(* The interface, one action per function.                                 *)

Init ==
  \E lp \in Problems :
    /\ asked = lp
    /\ s = solver_create(lp)
    /\ calls = 0
    /\ changed = {"created"}

Call == s.lane = "idle" /\ calls < MaxCalls /\ calls' = calls + 1

solver_solve ==
  /\ Call
  /\ ColdAfterBounds \/ "bounds" \notin changed
  /\ s' = SolveFrom(s)
  /\ changed' = {}
  /\ UNCHANGED asked

solver_warm_solve ==
  /\ Call
  /\ s' = WarmFrom(s)
  /\ changed' = {}
  /\ UNCHANGED asked

WithObjective(e, o) ==
  LET told == [e EXCEPT !.lp = [@ EXCEPT !.c = o.c, !.maximize = o.maximize]]
  IN  [told EXCEPT !.c0 = TrueCost(told), !.cobj = TrueCost(told)]

solver_set_objective(o) ==
  /\ Call
  /\ Len(o.c) = Len(asked.c)
  /\ asked' = [asked EXCEPT !.c = o.c, !.maximize = o.maximize]
  /\ s' = WithObjective(s, o)
  /\ changed' = changed \cup {"objective"}

(* A variable that turns free, or stops being free, has no column to put   *)
(* its bounds in: the struct is rebuilt by the next warm solve.            *)
WithBounds(e, b) ==
  LET told == [e EXCEPT !.lp = [@ EXCEPT !.l = b.l, !.u = b.u]]
      own(k) == k[1] = "x" /\ k[2] \notin e.split
  IN  IF e.rebuild_pending \/ Split(told.lp) # e.split
      THEN [told EXCEPT !.rebuild_pending = TRUE]
      ELSE [told EXCEPT
              !.l = [k \in Columns(e) |-> IF own(k) THEN b.l[k[2]] ELSE @[k]],
              !.u = [k \in Columns(e) |-> IF own(k) THEN b.u[k[2]] ELSE @[k]]]

solver_set_bounds(b) ==
  /\ Call
  /\ Len(b.l) = Len(asked.c)
  /\ asked' = [asked EXCEPT !.l = b.l, !.u = b.u]
  /\ s' = WithBounds(s, b)
  /\ changed' = changed \cup {"bounds"}

(* Rebuilt with the row and solved at once, from scratch.                  *)
solver_add_row(row) ==
  /\ Call
  /\ Len(row.a) = Len(asked.c) /\ Len(asked.rows) < MaxRows
  /\ asked' = [asked EXCEPT !.rows = Append(@, row)]
  /\ s' = SolveFrom(solver_create([s.lp EXCEPT !.rows = Append(@, row)]))
  /\ changed' = {}

-----------------------------------------------------------------------------
(* The loops of solve_phase and dual_phase, one action per iteration.      *)

(* After a move: the limit, then the stop flag (polled every 256 moves in  *)
(* the code, after any of them here).                                      *)
Onward(e, count) == IF count > e.lp.limit THEN {Return(e, 3)} ELSE {e, Return(e, 4)}

Pivot ==
  /\ s.lane \in {"phase1", "phase2", "primal"}
  /\ \E o \in iterate(s) : o[1] = 1 /\ s' \in Onward(o[2], o[2].iters)
  /\ UNCHANGED <<asked, calls, changed>>

PhaseOneEnds ==
  /\ s.lane = "phase1"
  /\ \E o \in iterate(s) : o[1] # 1 /\ s' = AfterPhaseOne(o[1], o[2])
  /\ UNCHANGED <<asked, calls, changed>>

PhaseTwoEnds ==
  /\ s.lane = "phase2"
  /\ \E o \in iterate(s) : o[1] # 1 /\ s' = AfterPhaseTwo(o[1], o[2])
  /\ UNCHANGED <<asked, calls, changed>>

WarmPrimalEnds ==
  /\ s.lane = "primal"
  /\ \E o \in iterate(s) : o[1] # 1 /\ s' = AfterWarmPrimal(o[1], o[2])
  /\ UNCHANGED <<asked, calls, changed>>

DualPivot ==
  /\ s.lane = "dual"
  /\ \E o \in dual_iterate(s) :
       /\ o[1] = 1
       /\ LET e == [o[2] EXCEPT !.local = @ + 1] IN s' \in Onward(e, e.local)
  /\ UNCHANGED <<asked, calls, changed>>

DualEnds ==
  /\ s.lane = "dual"
  /\ \E o \in dual_iterate(s) : o[1] # 1 /\ s' = AfterDual(o[1], o[2])
  /\ UNCHANGED <<asked, calls, changed>>

Next ==
  \/ solver_solve \/ solver_warm_solve
  \/ \E o \in Objectives : solver_set_objective(o)
  \/ \E b \in Boxes : solver_set_bounds(b)
  \/ \E row \in NewRows : solver_add_row(row)
  \/ Pivot \/ PhaseOneEnds \/ PhaseTwoEnds \/ WarmPrimalEnds
  \/ DualPivot \/ DualEnds

Spec == Init /\ [][Next]_vars

-----------------------------------------------------------------------------
(* What the caller may rely on.  The window is wide enough for every       *)
(* vertex; a totally unimodular program has an integral optimum, and rays  *)
(* in {-1, 0, 1} if it has any.                                            *)

Value(lp, p) == MapThenSumSet(LAMBDA j : lp.c[j] * p[j], DOMAIN lp.c)

RowAt(row, p) == MapThenSumSet(LAMBDA j : row.a[j] * p[j], DOMAIN row.a)

Meets(rel, v, b) ==
  \/ rel = "<" /\ v <= b
  \/ rel = ">" /\ v >= b
  \/ rel = "=" /\ v = b

Feasible(lp, p) ==
  /\ \A j \in DOMAIN lp.c : /\ lp.l[j] <= -LP_INF \/ p[j] >= lp.l[j]
                            /\ lp.u[j] >= LP_INF \/ p[j] <= lp.u[j]
  /\ \A i \in DOMAIN lp.rows : Meets(lp.rows[i].rel, RowAt(lp.rows[i], p), lp.rows[i].b)

Points(lp) == {p \in [DOMAIN lp.c -> Window] : Feasible(lp, p)}

Gain(lp, v) == IF lp.maximize THEN v ELSE -v

Improving(lp, d) ==
  /\ \A j \in DOMAIN lp.c : /\ d[j] > 0 => lp.u[j] >= LP_INF
                            /\ d[j] < 0 => lp.l[j] <= -LP_INF
  /\ \A i \in DOMAIN lp.rows : Meets(lp.rows[i].rel, RowAt(lp.rows[i], d), 0)
  /\ Gain(lp, Value(lp, d)) > 0

(* A value per column of the struct, in the caller's variables.            *)
Unsplit(e, x) ==
  [j \in DOMAIN e.lp.c |-> x[<<"x", j>>] - (IF j \in e.split THEN x[<<"n", j>>] ELSE 0)]

Current == s.lane = "idle" /\ changed = {}

(* Whatever was called before, and however the solves before it ended, the *)
(* status of a solve is the truth about the program as the caller has      *)
(* described it: 0 comes with an optimal point and its value, 1 only       *)
(* without a feasible point, 2 only with a feasible point and an improving *)
(* ray.                                                                    *)
WarmIsExact ==
  Current =>
    LET x == Unsplit(s, s.x) IN
    /\ s.status_out = 0 =>
         /\ Feasible(asked, x)
         /\ \A p \in Points(asked) : Gain(asked, Value(asked, p)) <= Gain(asked, Value(asked, x))
         /\ ~\E d \in [DOMAIN asked.c -> {-1, 0, 1}] : Improving(asked, d)
         /\ Gain(asked, Value(asked, x)) = s.objval
    /\ s.status_out = 1 => Points(asked) = {}
    /\ s.status_out = 2 =>
         /\ Feasible(asked, x)
         /\ Improving(asked, Unsplit(s, s.unb_ray))

(* "The whole simplex state rests on nonbasic == sitting at its status     *)
(* bound" (solver.c:2010): between two pivots of any lane every parked     *)
(* column sits at the bound its status names, the rows hold, the factors   *)
(* are the inverse of the basis, and outside Phase I no artificial can     *)
(* absorb a residual.                                                      *)
StandsOnBounds ==
  s.lane # "idle" =>
    LET present == {k \in Columns(s) : s.status[k] # "REMOVED"} IN
    /\ \A k \in Parked(s) : s.x[k] = (IF s.status[k] = "NBL" THEN s.l[k] ELSE s.u[k])
    /\ \A i \in Rows(s) :
         MapThenSumSet(LAMBDA k : A(s, k, i) * s.x[k], present) = Abs(s.lp.rows[i].b)
    /\ \A i, r \in Rows(s) :
         Ftran(s, Column(s, s.basis[r]))[i] = (IF i = r THEN 1 ELSE 0)
    /\ s.lane # "phase1" =>
         \A k \in Artificials(s) : s.status[k] = "REMOVED" \/ (s.l[k] = 0 /\ s.u[k] = 0)

Refutes(lp, y) ==
  LET z(j) == MapThenSumSet(LAMBDA i : y[i] * lp.rows[i].a[j], DOMAIN lp.rows)
      used == {j \in DOMAIN lp.c : z(j) # 0}
  IN  /\ \A i \in DOMAIN lp.rows : /\ lp.rows[i].rel = "<" => y[i] >= 0
                                   /\ lp.rows[i].rel = ">" => y[i] <= 0
      /\ \A j \in used : IF z(j) > 0 THEN lp.l[j] > -LP_INF ELSE lp.u[j] < LP_INF
      /\ MapThenSumSet(LAMBDA j : z(j) * (IF z(j) > 0 THEN lp.l[j] ELSE lp.u[j]), used)
           > MapThenSumSet(LAMBDA i : y[i] * lp.rows[i].b, DOMAIN lp.rows)

Signed(e, y) == [i \in Rows(e) |-> Mlt(e.lp.rows[i]) * y[i]]

(* The evidence left behind (solver_farkas_duals, solver_dual_farkas,      *)
(* solver_unbounded_ray) belongs to the verdict just returned and proves   *)
(* it of the caller's program; what an earlier solve left is gone.  (A     *)
(* solve given up as numerical at an infeasible point may keep its ray.)   *)
EvidenceRefutes ==
  Current =>
    /\ s.farkas_ok => s.status_out = 1 /\ Refutes(asked, Signed(s, Duals(s)))
    /\ s.dfarkas_ok => s.status_out = 1 /\ Refutes(asked, Signed(s, s.dfarkas_ray))
    /\ s.status_out = 2 => s.unb_ray # NoRay
    /\ s.unb_ray # NoRay =>
         s.status_out \in {2, 5} /\ Improving(asked, Unsplit(s, s.unb_ray))

(* solver_duals after an optimum (solver.h:197-199): prices of the rows    *)
(* that support the reported point.                                        *)
PricesSupport ==
  Current /\ s.status_out = 0 =>
    LET y == Signed(s, s.duals)
        x == Unsplit(s, s.x)
        d(j) == Gain(asked, asked.c[j])
                  - MapThenSumSet(LAMBDA i : y[i] * asked.rows[i].a[j], DOMAIN asked.rows)
    IN  /\ \A i \in DOMAIN asked.rows :
             /\ asked.rows[i].rel = "<" => y[i] >= 0
             /\ asked.rows[i].rel = ">" => y[i] <= 0
             /\ y[i] # 0 => RowAt(asked.rows[i], x) = asked.rows[i].b
        /\ \A j \in DOMAIN asked.c : /\ d(j) > 0 => x[j] = asked.u[j]
                                     /\ d(j) < 0 => x[j] = asked.l[j]
=============================================================================
