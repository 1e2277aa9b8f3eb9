--------------------------- MODULE ExactSimplex ----------------------------
(***************************************************************************)
(* fx_solve of src/src/fx.c: a two-phase tableau simplex on exact          *)
(* fractions, run in the narrow core and, when a number is lost there,     *)
(* once more from the start in the wide one.  A step is one pivot of       *)
(* src/src/fx_core.inc.                                                    *)
(*                                                                         *)
(* The columns are V shifted variables, S slacks and M artificials, in     *)
(* this order; column K + 1 is the right-hand side and row M + 1 the cost. *)
(***************************************************************************)
EXTENDS FxArith, FiniteSets, SequencesExt

CONSTANTS Problems,               \* the linear programs
          ITER_BASE, ITER_STEP,   \* 10000 and 200 in the code
          None                    \* no bound on a side, no column, no answer

VARIABLES lp, call,               \* the program; fx_solve or fx_solve_wide
          core, pc,               \* the width at work and the phase
          form,                   \* how columns stand for variables
          t,                      \* the tableau
          bland, stale, niter,    \* the locals of simplex
          verdict, answer         \* the status; the objective and the point

vars == <<lp, call, core, pc, form, t, bland, stale, niter, verdict, answer>>

Add(a, b) == add(core, a, b)
Sub(a, b) == sub(core, a, b)
Mul(a, b) == mul(core, a, b)
Cmp(a, b) == cmp(core, a, b)
Whole(i) == Fraction(i, 1)
IsLost(a) == a.den = 0
SumOver(f(_), s) == FoldLeft(LAMBDA sum, i : Add(sum, f(i)), Zero, s)
Upto(n) == [i \in 1..n |-> i]

----------------------------------------------------------------------------
(* A variable whose bounds coincide is replaced by its value; another is   *)
(* counted up from its lower bound or, without one, down from its upper.   *)
IsFixed(j) == lp.l[j] # None /\ lp.u[j] # None /\ Cmp(of_fx(lp.l[j]), of_fx(lp.u[j])) = 0
base(j) == of_fx(IF lp.l[j] # None THEN lp.l[j] ELSE lp.u[j])
sign(j) == Whole(IF lp.l[j] # None THEN 1 ELSE -1)
Free == SelectSeq(Upto(lp.n), LAMBDA j : ~IsFixed(j))
Boxed == SelectSeq(Free, LAMBDA j : lp.l[j] # None /\ lp.u[j] # None)

Flip(rel) == CASE rel = "<" -> ">" [] rel = ">" -> "<" [] OTHER -> rel

(* A row in the shifted variables, its right-hand side made nonnegative.   *)
Normalised(r) ==
  IF Cmp(r.b, Zero) # -1 THEN r
  ELSE [a |-> [k \in DOMAIN r.a |-> neg(core, r.a[k])], rel |-> Flip(r.rel), b |-> neg(core, r.b)]

Row(i) ==
  LET used == SelectSeq(Upto(lp.n), LAMBDA j : of_fx(lp.A[i][j]).num # 0)
  IN Normalised(
       [a |-> [k \in DOMAIN Free |-> Mul(of_fx(lp.A[i][Free[k]]), sign(Free[k]))], rel |-> lp.rel[i],
        b |-> FoldLeft(LAMBDA b, j : Sub(b, Mul(of_fx(lp.A[i][j]), base(j))), of_fx(lp.b[i]), used)])

(* The upper bound of a variable that also has a lower one, as it comes.   *)
BoundRow(j) ==
  [a |-> [k \in DOMAIN Free |-> IF Free[k] = j THEN One ELSE Zero], rel |-> "<",
   b |-> Sub(of_fx(lp.u[j]), of_fx(lp.l[j]))]

BuiltRows == [i \in 1..lp.m |-> Row(i)] \o [k \in DOMAIN Boxed |-> BoundRow(Boxed[k])]

Sense == IF lp.maximize THEN 1 ELSE -1
Form ==
  [free |-> Free,
   coef |-> [k \in DOMAIN Free |->
               Mul(of_fx(lp.c[Free[k]]), IF sign(Free[k]) = Whole(Sense) THEN One ELSE Whole(-1))],
   C0 |-> SumOver(LAMBDA j : Mul(of_fx(lp.c[j]), base(j)), Upto(lp.n))]

Slacked(rows) == SelectSeq(Upto(Len(rows)), LAMBDA r : rows[r].rel # "=")

(* Every row with its slack and an artificial, which is basic.             *)
Body(rows, slacked, V, S, M) ==
  [r \in 1..M |-> [j \in 1..(V + S + M + 1) |->
     IF j <= V THEN rows[r].a[j]
     ELSE IF j <= V + S
     THEN IF slacked[j - V] # r THEN Zero ELSE Whole(IF rows[r].rel = "<" THEN 1 ELSE -1)
     ELSE IF j <= V + S + M THEN (IF j = V + S + r THEN One ELSE Zero)
     ELSE rows[r].b]]

(* Phase I: the sum of the artificials, as a cost to be raised to zero.    *)
PhaseOneRow(body, V, S, M) ==
  [j \in 1..(V + S + M + 1) |->
     IF j \in V + S + 1 .. V + S + M THEN Zero
     ELSE IF j <= V + S THEN neg(core, SumOver(LAMBDA r : body[r][j], Upto(M)))
     ELSE FoldLeft(LAMBDA z, r : Sub(z, body[r][j]), Zero, Upto(M))]

Laid(body, V, S, M) ==
  [V |-> V, S |-> S, M |-> M, T |-> Append(body, PhaseOneRow(body, V, S, M)),
   basis |-> [r \in 1..M |-> V + S + r], activeVar |-> 1..(V + S + M), activeRow |-> 1..M,
   wrapped |-> FALSE]

Stacked(rows, slacked) ==
  LET S == Len(slacked)
      M == Len(rows)
  IN Laid(Body(rows, slacked, Len(Free), S, M), Len(Free), S, M)

Tableau == LET From(rows) == Stacked(rows, Slacked(rows)) IN From(BuiltRows)

----------------------------------------------------------------------------
K(q) == q.V + q.S + q.M
Corner(q) == q.T[q.M + 1][K(q) + 1]
AnyLost(q) == \E r \in DOMAIN q.T : \E j \in DOMAIN q.T[r] : IsLost(q.T[r][j])

Wraps(q) == \E r \in DOMAIN q.T : \E j \in DOMAIN q.T[r] : q.T[r][j].wrapped
Noted(q) == [q EXCEPT !.wrapped = @ \/ Wraps(q)]      \* the history of negations, for the properties

(* The pivot row is divided, and subtracted from every row that is not     *)
(* zero in the column.                                                     *)
Cleared(q, r, j, p) ==
  [i \in DOMAIN q.T |->
     IF i = r THEN p
     ELSE [c \in DOMAIN p |-> IF q.T[i][j].num = 0 \/ p[c].num = 0 THEN q.T[i][c]
                              ELSE Sub(q.T[i][c], Mul(q.T[i][j], p[c]))]]

pivot(q, r, j) ==
  Noted([q EXCEPT !.T = Cleared(q, r, j, [c \in DOMAIN q.T[r] |-> div(core, q.T[r][c], q.T[r][j])]),
                  !.basis[r] = j])

(* A scan in order that moves on to what is strictly better, and is lost   *)
(* with any comparison on its way.                                         *)
Nobody == [at |-> None, lost |-> FALSE]
Leader(compare(_, _), s) ==
  LET against(best, i, c) == [at |-> IF c = -1 THEN i ELSE best.at, lost |-> best.lost \/ c = Unknown]
  IN FoldLeft(LAMBDA best, i : IF best = Nobody THEN [at |-> i, lost |-> FALSE]
                               ELSE against(best, i, compare(i, best.at)), Nobody, s)

Cost(j) == t.T[t.M + 1][j]
Improving ==
  SelectSeq(Upto(K(t)), LAMBDA j : /\ j \in t.activeVar
                                   /\ \A r \in 1..t.M : t.basis[r] # j
                                   /\ Cmp(Cost(j), Zero) = -1)

(* The most negative cost, and after too many steps without progress the   *)
(* first negative one.                                                     *)
Entering ==
  LET from(s) == IF bland /\ s # <<>> THEN [at |-> Head(s), lost |-> FALSE]
                 ELSE Leader(LAMBDA i, j : Cmp(Cost(i), Cost(j)), s)
  IN from(Improving)

Blocking_EitherSign(j) == SelectSeq(Upto(t.M), LAMBDA r : r \in t.activeRow /\ t.T[r][j].num # 0)
Blocking(j) == SelectSeq(Upto(t.M), LAMBDA r : r \in t.activeRow /\ Cmp(t.T[r][j], Zero) = 1)

(* The least ratio, among equals the lowest basic column.                  *)
Shortest(ratio, s) ==
  LET or(c, r, i) == IF c = 0 THEN Sign(t.basis[r] - t.basis[i]) ELSE c
      best == Leader(LAMBDA r, i : or(Cmp(ratio[r], ratio[i]), r, i), s)
  IN [best EXCEPT !.lost = @ \/ \E k \in DOMAIN s : IsLost(ratio[s[k]])]

Leaving(j) ==
  LET among(s) == Shortest([r \in ToSet(s) |-> div(core, t.T[r][K(t) + 1], t.T[r][j])], s)
  IN among(Blocking(j))

----------------------------------------------------------------------------
(* Artificials that are still basic after Phase I leave for the first      *)
(* column that is not zero in their row, or the row is redundant.          *)
Expelled(p, r) ==
  LET js == {j \in 1..(p.V + p.S) : p.T[r][j].num # 0}
  IN IF js = {} THEN [p EXCEPT !.activeRow = @ \ {r}] ELSE pivot(p, r, CHOOSE j \in js : \A i \in js : j <= i)

DriveOut(q) ==
  LET out(p, a) ==
        LET rows == {r \in 1..p.M : p.basis[r] = p.V + p.S + a}
        IN IF rows = {} THEN p ELSE Expelled(p, CHOOSE r \in rows : TRUE)
  IN [FoldLeft(out, q, Upto(q.M)) EXCEPT !.activeVar = 1..(q.V + q.S)]

(* The reduced costs of the true objective.                                *)
PhaseTwoRow(q) ==
  LET coef(k) == IF k <= q.V THEN form.coef[k] ELSE Zero
      rows == SelectSeq(Upto(q.M), LAMBDA r : r \in q.activeRow)
      term(r, j) == Mul(coef(q.basis[r]), q.T[r][j])
      row == [j \in 1..(K(q) + 1) |->
                IF j > K(q) THEN SumOver(LAMBDA r : term(r, j), rows)
                ELSE IF j \notin q.activeVar THEN Zero
                ELSE neg(core, Add(FoldLeft(LAMBDA rc, r : Sub(rc, term(r, j)), Zero, rows), coef(j)))]
  IN Noted([q EXCEPT !.T[q.M + 1] = row])

Objective == to_fx(Add(form.C0, IF lp.maximize THEN Corner(t) ELSE neg(core, Corner(t))))

Value(j) ==
  LET k == {k \in DOMAIN form.free : form.free[k] = j}
      r == {r \in 1..t.M : t.basis[r] \in k}
      y == IF r = {} THEN Zero ELSE t.T[CHOOSE i \in r : TRUE][K(t) + 1]
  IN to_fx(IF k = {} THEN base(j) ELSE Add(base(j), Mul(sign(j), y)))

----------------------------------------------------------------------------
Start == bland' = FALSE /\ stale' = 0 /\ niter' = 0

Stop(word, result) ==
  /\ pc' = "done" /\ verdict' = word /\ answer' = result
  /\ UNCHANGED <<lp, call, core, form, t, bland, stale, niter>>

(* A lost number: the narrow core is tried again in the wide one.          *)
Abandon ==
  IF core = "narrow"
  THEN /\ core' = "wide" /\ pc' = "build" /\ t' = None /\ form' = None /\ Start
       /\ UNCHANGED <<lp, call, verdict, answer>>
  ELSE Stop("OVERFLOW", None)

Init ==
  /\ lp \in Problems /\ call \in {"fx_solve", "fx_solve_wide"}
  /\ core = IF call = "fx_solve" THEN "narrow" ELSE "wide"
  /\ pc = "build" /\ form = None /\ t = None
  /\ bland = FALSE /\ stale = 0 /\ niter = 0 /\ verdict = None /\ answer = None

Build ==
  /\ pc = "build"
  /\ \E f \in {Form}, q \in {Noted(Tableau)} :
       IF AnyLost(q) \/ IsLost(f.C0) \/ \E k \in DOMAIN f.coef : IsLost(f.coef[k])
       THEN Abandon
       ELSE /\ form' = f /\ t' = q /\ pc' = "one" /\ Start
            /\ UNCHANGED <<lp, call, core, verdict, answer>>

(* Bland's rule, once the corner has stood still this often.               *)
Patience_Endless == 10 * (t.V + t.M + 2)
Patience == t.V + t.M + 2

PivotTo(q, progress) ==
  IF AnyLost(q) \/ progress = Unknown THEN Abandon
  ELSE /\ t' = q
       /\ stale' = IF progress = 0 THEN stale + 1 ELSE 0
       /\ bland' = (bland \/ stale' > Patience)
       /\ niter' = niter + 1
       /\ IF niter' >= ITER_BASE + ITER_STEP * (t.M + t.V + t.S)
          THEN pc' = "done" /\ verdict' = "ITERATION_LIMIT"
          ELSE UNCHANGED <<pc, verdict>>
       /\ UNCHANGED <<lp, call, core, form, answer>>

(* One step of simplex: a column enters, and a row leaves for it; or a     *)
(* comparison or a ratio is lost; or nothing stops the column.             *)
Simplex ==
  /\ pc \in {"one", "two"}
  /\ \E in \in {Entering} :
       /\ in.at # None
       /\ \E out \in {IF in.lost THEN in ELSE Leaving(in.at)} :
            \/ /\ ~out.lost /\ out.at # None
               /\ \E q \in {pivot(t, out.at, in.at)} : PivotTo(q, Cmp(Corner(q), Corner(t)))
            \/ out.lost /\ Abandon
            \/ /\ ~out.lost /\ out.at = None
               /\ Stop(IF pc = "one" THEN "ITERATION_LIMIT" ELSE "UNBOUNDED", None)

PhaseOneEnds ==
  /\ pc = "one" /\ Improving = <<>>
  /\ IF Cmp(Corner(t), Zero) # 0 THEN Stop("INFEASIBLE", None)
     ELSE \E p \in {DriveOut(t)} : \E q \in {PhaseTwoRow(p)} :
            IF AnyLost(p) \/ AnyLost(q) THEN Abandon
            ELSE /\ t' = q /\ pc' = "two" /\ Start
                 /\ UNCHANGED <<lp, call, core, form, verdict, answer>>

PhaseTwoEnds ==
  /\ pc = "two" /\ Improving = <<>>
  /\ \E best \in {[obj |-> Objective, x |-> [j \in 1..lp.n |-> Value(j)]]} :
       IF IsLost(best.obj) \/ \E j \in 1..lp.n : IsLost(best.x[j]) THEN Abandon
       ELSE Stop("OPTIMAL", best)

Next == Build \/ Simplex \/ PhaseOneEnds \/ PhaseTwoEnds
Spec == Init /\ [][Next]_vars

----------------------------------------------------------------------------
(* What the program asks, in whole numbers, for two variables: a polytope  *)
(* without a line (one bound of every variable is finite), so it is the    *)
(* hull of its vertices and its extreme rays, which all lie on lines.      *)
(* A point is <<p, q, d>> for (p/d, q/d) with d > 0, a ray has d = 0.      *)
Planar == lp.n = 2 /\ \A i \in 1..lp.m : \A j \in 1..2 : lp.A[i][j].den = 1
Unit(j) == IF j = 1 THEN <<1, 0>> ELSE <<0, 1>>
Half(a, rel, b) == [a |-> a, rel |-> rel, b |-> b]
Sides ==
  {Half(<<lp.A[i][1].num, lp.A[i][2].num>>, lp.rel[i], lp.b[i].num) : i \in 1..lp.m}
    \cup {Half(Unit(j), ">", lp.l[j].num) : j \in {i \in 1..2 : lp.l[i] # None}}
    \cup {Half(Unit(j), "<", lp.u[j].num) : j \in {i \in 1..2 : lp.u[i] # None}}

Within(x, s) ==
  LET left == s.a[1] * x[1] + s.a[2] * x[2]
      right == s.b * x[3]
  IN CASE s.rel = "<" -> left <= right [] s.rel = ">" -> left >= right [] OTHER -> left = right

Det(a, b) == a[1] * b[2] - a[2] * b[1]
Crossing(s, r) ==
  LET d == Det(s.a, r.a)
      e == IF d < 0 THEN -1 ELSE 1
  IN <<e * Det(<<s.b, s.a[2]>>, <<r.b, r.a[2]>>), e * Det(<<s.a[1], s.b>>, <<r.a[1], r.b>>), e * d>>
Corners ==
  {x \in {Crossing(s, r) : <<s, r>> \in {p \in Sides \X Sides : Det(p[1].a, p[2].a) # 0}} :
     \A s \in Sides : Within(x, s)}
Rays ==
  {x \in UNION {{<<s.a[2], -s.a[1], 0>>, <<-s.a[2], s.a[1], 0>>} : s \in Sides} :
     \A s \in Sides : Within(x, s)}

(* The objective of a point or a ray, in d-ths, larger is better.          *)
Worth(x) == Sense * (lp.c[1].num * x[1] + lp.c[2].num * x[2])
Gains == \E x \in Rays : Worth(x) > 0

Exact ==
  CASE verdict = "OPTIMAL" ->
         LET x1 == answer.x[1]
             x2 == answer.x[2]
             at == <<x1.num * x2.den, x2.num * x1.den, x1.den * x2.den>>
         IN /\ \A s \in Sides : Within(at, s)
            /\ Sense * answer.obj.num * at[3] = Worth(at) * answer.obj.den
            /\ \A x \in Corners : Worth(x) * at[3] <= Worth(at) * x[3]
            /\ ~Gains
    [] verdict = "INFEASIBLE" -> Corners = {}
    [] verdict = "UNBOUNDED" -> Corners # {} /\ Gains
    [] OTHER -> TRUE

(* fx.h, "exact": an optimum satisfies the program to the last digit, has  *)
(* the value printed with it, and no point of the program beats it; an     *)
(* infeasible program has no point and an unbounded one no best -- unless  *)
(* the lowest word was negated on the way.                                 *)
Tainted ==
  \/ t # None /\ (t.wrapped \/ form.C0.wrapped \/ \E k \in DOMAIN form.coef : form.coef[k].wrapped)
  \/ answer # None /\ (answer.obj.wrapped \/ \E j \in DOMAIN answer.x : answer.x[j].wrapped)
VerdictIsExact == Planar /\ pc = "done" /\ ~Tainted => Exact

(* fx.h: `"no answer", never a wrong one'.                                 *)
NeverAWrongAnswer == Planar /\ pc = "done" => Exact

(* pivot, simplex and the passage to Phase II keep the tableau canonical:  *)
(* basic columns are unit columns, right-hand sides in force are not       *)
(* negative, and a row that was dropped as redundant stays zero for good.  *)
TableauIsCanonical ==
  t # None /\ ~Tainted =>
    /\ \A r \in t.activeRow :
         /\ t.T[r][K(t) + 1].num >= 0
         /\ \A i \in 1..(t.M + 1) : t.T[i][t.basis[r]] = IF i = r THEN One ELSE Zero
    /\ \A r \in 1..t.M \ t.activeRow : \A j \in t.activeVar \cup {K(t) + 1} : t.T[r][j] = Zero

(* use_bland: the simplex never circles, so a solve ends with an answer or *)
(* for want of digits, never at the iteration limit.                       *)
NeverCycles == verdict # "ITERATION_LIMIT"
=============================================================================
