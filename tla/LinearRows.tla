----------------------------- MODULE LinearRows -----------------------------
(***************************************************************************)
(* Linear forms and the row builder of the FlatZinc bridge (src/src/fzn.c, *)
(* Lin and Builder), the exact big-M gates built with them, and the points *)
(* that a builder's rows describe.                                         *)
(*                                                                         *)
(* Variables are numbered, the model's first.  Coefficients, constants and *)
(* right-hand sides are counted in fractions 1/One, so that a constant may *)
(* fall between two integers; variables take integer values.               *)
(***************************************************************************)
EXTENDS BigM, SequencesExt

CONSTANTS
  One,           \* the unit: an integer i is written i * One
  EXACT,         \* largest integer a coefficient may be (2^53 in the code)
  SELECTORS      \* most selector variables of one encoding (64 to 4096 there)

ASSUME LinearRowsAssumption == One \in Nat \ {0}

----------------------------------------------------------------------------
(* Forms.                                                                  *)

Form(coef, const) == [coef |-> coef, const |-> const]
K(i) == Form(<< >>, i * One)
X(v) == Form(v :> One, 0)
Weighted(w) == Form([v \in DOMAIN w |-> w[v] * One], 0)
Bits(S) == Weighted([v \in S |-> 1])

Coef(f, v) == IF v \in DOMAIN f.coef THEN f.coef[v] ELSE 0
lin_into(f, g, k) ==
  Form([v \in DOMAIN f.coef \cup DOMAIN g.coef |-> Coef(f, v) + k * Coef(g, v)],
       f.const + k * g.const)
Plus(f, g) == lin_into(f, g, 1)
Minus(f, g) == lin_into(f, g, -1)
Scaled(k, f) == Form([v \in DOMAIN f.coef |-> k * f.coef[v]], k * f.const)
Product(k, f) ==            \* of a constant form and a form
  Form([v \in DOMAIN f.coef |-> (k.const * f.coef[v]) \div One], (k.const * f.const) \div One)
Total(forms) == FoldLeft(Plus, K(0), forms)

Listed(S) == FoldSet(LAMBDA e, s : Append(s, e), << >>, S)
Numbers(lo, hi) == [i \in 1 .. hi - lo + 1 |-> lo + i - 1]
Ascending(S) == IF S = {} THEN << >> ELSE SelectSeq(Numbers(Min(S), Max(S)), LAMBDA i : i \in S)

IsConst(f) == DOMAIN f.coef = {}
IntOf(f) == f.const \div One
IsInt(f) == IsConst(f) /\ f.const % One = 0
lin_unit_var(f) == \E v \in DOMAIN f.coef : f = X(v)
VarOf(f) == CHOOSE v \in DOMAIN f.coef : TRUE

----------------------------------------------------------------------------
(* The builder: boxes of all variables; which sides of the model's boxes   *)
(* no declaration or constraint bounds, so that the bridge's own clamp     *)
(* stands there (haslo, hashi); the rows; and whether every constraint so  *)
(* far has a linear form.                                                  *)

LinRow(rel, f, rhs) == [rel |-> rel, coef |-> f.coef, rhs |-> rhs - f.const]
Equal(f, g) == LinRow("=", Minus(f, g), 0)
AtMost(f, g) == LinRow("<", Minus(f, g), 0)
AtLeast(f, g) == LinRow(">", Minus(f, g), 0)
IMPOSSIBLE == LinRow("=", K(0), One)                          \* 0 = 1

Top(b) == Len(b.lo)
b_newvar(b, lo, hi) == [b EXCEPT !.lo = Append(@, lo), !.hi = Append(@, hi)]
NewBits(b, n) == [b EXCEPT !.lo = @ \o [i \in 1 .. n |-> 0], !.hi = @ \o [i \in 1 .. n |-> 1]]
b_put(b, rows) == [b EXCEPT !.rows = @ \cup rows]
Declined(b) == [b EXCEPT !.handled = FALSE]

Low(b, f) == f.const + MapThenSumSet(
  LAMBDA v : f.coef[v] * (IF f.coef[v] >= 0 THEN b.lo[v] ELSE b.hi[v]), DOMAIN f.coef)
High(b, f) == -Low(b, Scaled(-1, f))
Magnitude(b, f) == Max({High(b, f), -Low(b, f)})
Floor(a) == a \div One
Ceiling(a) == -((-a) \div One)

(* A form as a variable: itself, or a fresh one pinned to it.              *)
Whole(b, f) == Low(b, f) % One = 0 /\ High(b, f) % One = 0
lin_materialize(b, f) ==
  IF lin_unit_var(f) THEN [b |-> b, v |-> VarOf(f)]
  ELSE IF ~Whole(b, f) THEN [b |-> Declined(b), v |-> 1]
  ELSE [b |-> b_put(b_newvar(b, Floor(Low(b, f)), Floor(High(b, f))),
                    {Equal(X(Top(b) + 1), f)}),
        v |-> Top(b) + 1]
Materialized(b, forms) ==
  FoldLeft(LAMBDA s, f : LET m == lin_materialize(s.b, f) IN [b |-> m.b, v |-> Append(s.v, m.v)],
           [b |-> b, v |-> << >>], forms)

----------------------------------------------------------------------------
(* Gates.  On the values of a form with integer coefficients, d > 0 means  *)
(* d >= Above and d < 0 means d <= Below (int_lattice_steps).              *)

Regular(f) == \A v \in DOMAIN f.coef : f.coef[v] % One = 0
Above_Whole(f) == One                                         \* a mutant
Above(f) == IF f.const % One > 0 THEN f.const % One ELSE One
Below(f) == IF f.const % One > 0 THEN (f.const % One) - One ELSE -One
Fractional(f) == Above(f) < One

Lifted(row, f, r, pos, neg) ==
  LinRow(row.rel,
         Total(<<Scaled(row.d, f)>> \o SelectSeq(
                 <<Form(r :> row.r, 0), Form(pos :> row.pos, 0), Form(neg :> row.neg, 0)>>,
                 LAMBDA g : \E v \in DOMAIN g.coef : g.coef[v] # 0)),
         row.rhs)

Tie(b, f, r, gate) ==
  LET split == \E row \in gate : row.pos # 0
  IN b_put(IF split THEN NewBits(b, 2) ELSE b,
           {Lifted(row, f, r, Top(b) + 1, Top(b) + 2) : row \in gate})

NotZero(b, f) ==
  IF ~Regular(f) THEN Declined(b)
  ELSE IF Fractional(f) THEN b
  ELSE Tie(b, f, 0, add_int_ne(Low(b, f), High(b, f), Above(f), Below(f)))

IsBit(b, v) == b.lo[v] >= 0 /\ b.hi[v] <= 1

Reified(b, f, r, which) ==
  IF ~IsBit(b, r) \/ ~Regular(f) THEN Declined(b)
  ELSE IF Fractional(f) /\ which = "eq" THEN b_put(b, {Equal(X(r), K(0))})
  ELSE IF Fractional(f) /\ which = "ne" THEN b_put(b, {Equal(X(r), K(1))})
  ELSE Tie(b, f, r, add_int_reif(which, Low(b, f), High(b, f), Above(f), Below(f)))

Implied(b, f, r, which) ==
  IF ~IsBit(b, r) \/ ~Regular(f) THEN Declined(b)
  ELSE IF Fractional(f) /\ which = "eq" THEN b_put(b, {AtMost(X(r), K(0))})
  ELSE IF Fractional(f) /\ which = "ne" THEN b
  ELSE Tie(b, f, r, add_int_imp(which, Low(b, f), High(b, f), Above(f), Below(f)))

(* The relation itself, as a row.                                          *)
Impose(b, f, which) ==
  CASE which = "eq" -> b_put(b, {LinRow("=", f, 0)})
    [] which = "le" -> b_put(b, {LinRow("<", f, 0)})
    [] which = "ge" -> b_put(b, {LinRow(">", f, 0)})
    [] which = "lt" -> IF Regular(f) THEN b_put(b, {LinRow("<", f, Below(f))}) ELSE Declined(b)
    [] which = "gt" -> IF Regular(f) THEN b_put(b, {LinRow(">", f, Above(f))}) ELSE Declined(b)
    [] which = "ne" -> NotZero(b, f)

Negation(which) == CASE which = "eq" -> "ne" [] which = "le" -> "gt" [] which = "lt" -> "ge"
                     [] which = "ge" -> "lt" [] which = "gt" -> "le" [] which = "ne" -> "eq"
add_int_relation_constant(b, f, which, want) ==
  IF ~Regular(f) THEN Declined(b) ELSE Impose(b, f, IF want THEN which ELSE Negation(which))

(* A fresh 0/1 variable that tells whether the relation holds.             *)
Reify(b, f, which) ==
  [b |-> Reified(NewBits(b, 1), f, Top(b) + 1, which), v |-> Top(b) + 1]

(* One for each x and y, that tells whether the two forms are equal.       *)
Selected(b, xs, ys) ==
  LET pair(q) == <<((q - 1) \div Len(ys)) + 1, ((q - 1) % Len(ys)) + 1>>
      Add(s, ik) == LET e == Reify(s.b, Minus(xs[ik[1]], ys[ik[2]]), "eq")
                    IN [b |-> e.b, z |-> s.z @@ (ik :> e.v)]
  IN FoldLeft(Add, [b |-> b, z |-> << >>], [q \in 1 .. Len(xs) * Len(ys) |-> pair(q)])

(* The same table of fresh 0/1 variables, tied to nothing.                 *)
Table(b, n, k) ==
  [b |-> NewBits(b, n * k),
   z |-> [ik \in (1 .. n) \X (1 .. k) |-> Top(b) + (ik[1] - 1) * k + ik[2]]]

OfRow(z, i) == Bits({z[p] : p \in {q \in DOMAIN z : q[1] = i}})
OfColumn(z, k) == Bits({z[p] : p \in {q \in DOMAIN z : q[2] = k}})
OneOf(f) == Equal(f, K(1))
NoneOrOne(f) == AtMost(f, K(1))

(* The integer, of vals, that row i of the table selects.                  *)
Chosen(z, i, vals) ==
  Total(Listed({Scaled(vals[p[2]], X(z[p])) : p \in {q \in DOMAIN z : q[1] = i}}))

(* r is the conjunction of u and v.                                        *)
And(r, u, v) == {AtMost(r, u), AtMost(r, v), AtLeast(Plus(r, K(1)), Plus(u, v))}

----------------------------------------------------------------------------
(* The assignments of the first n variables that extend to all variables   *)
(* within the boxes and the rows: what a search of the MIP can find.       *)
(* Variables are assigned in order; of an assignment only those n values   *)
(* and the sums of the rows are kept, while every row can still be met.    *)

Points(b, n) ==
  LET rows == Listed(b.rows)
      coef == [v \in 1 .. Top(b) |-> [r \in DOMAIN rows |-> Coef(rows[r], v)]]
      of == [v \in 1 .. Top(b) |-> {r \in DOMAIN rows : coef[v][r] # 0}]
      Later(r, v, lo, hi) == MapThenSumSet(
        LAMBDA u : coef[u][r] * (IF coef[u][r] >= 0 THEN lo[u] ELSE hi[u]),
        {u \in DOMAIN rows[r].coef : u > v})
      least == [v \in 1 .. Top(b) |-> [r \in of[v] |-> Later(r, v, b.lo, b.hi)]]
      most == [v \in 1 .. Top(b) |-> [r \in of[v] |-> Later(r, v, b.hi, b.lo)]]
      Hopeful(s, v) == \A r \in of[v] :
        /\ rows[r].rel # ">" => s.sum[r] + least[v][r] <= rows[r].rhs
        /\ rows[r].rel # "<" => s.sum[r] + most[v][r] >= rows[r].rhs
      Assigned(s, v, a) == [x |-> IF v <= n THEN Append(s.x, a) ELSE s.x,
                            sum |-> [r \in DOMAIN rows |-> s.sum[r] + coef[v][r] * a]]
      start == [x |-> << >>, sum |-> [r \in DOMAIN rows |-> 0]]
      reach[v \in 0 .. Top(b)] ==
        IF v = 0 THEN {start}
        ELSE {t \in {Assigned(s, v, a) : s \in reach[v - 1], a \in b.lo[v] .. b.hi[v]} :
                Hopeful(t, v)}
  IN {s.x : s \in {s0 \in reach[Top(b)] :
                     \A r \in DOMAIN rows : Compare(s0.sum[r], rows[r].rel, rows[r].rhs)}}

=============================================================================
