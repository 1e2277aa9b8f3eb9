------------------------------ MODULE Presolve ------------------------------
(***************************************************************************)
(* src/src/presolve.c: the reductions of an LP before the simplex engine   *)
(* sees it, and the maps that carry a point, a ray or the duals of the     *)
(* reduced LP back to the original one.                                    *)
(*                                                                         *)
(* One action is one iteration of a scan of the code over columns or rows. *)
(* Data are integer numbers of 1/U (LpCert).  A fold of a bound rounds     *)
(* outward to that grid as the code rounds to doubles; the other           *)
(* operations are exact on the grid in the instances that are checked, as  *)
(* they are in doubles for the same numbers.                               *)
(***************************************************************************)
EXTENDS LpCert, SequencesExt

CONSTANTS
  PassCap,     \* PRE_PASS_CAP: passes at most
  NnzGrowth,   \* PRE_NNZ_GROWTH: entries, as a multiple of the original's
  SnapCap      \* PRE_SNAP_BYTES: entries of all pivot snapshots together

VARIABLES
  lp,        \* the original LP, never changed
  w,         \* the working image
  recs,      \* the reductions so far, for the replay maps
  notes,     \* eliminated columns that improve without limit
  ray,       \* the separating row combination behind an infeasible verdict
  phase, at, \* the scan that runs and its index
  pass, fired,
  rc         \* lp_presolve's return code, "running" before there is one

pvars == <<lp, w, recs, notes, ray, phase, at, pass, fired, rc>>

----------------------------------------------------------------------------
(* Arithmetic on the grid.                                                 *)

Floor(p, q) == IF q < 0 THEN (-p) \div (-q) ELSE p \div q
Ceil(p, q) == -Floor(-p, q)
Mul(a, b) == (a * b) \div U
Div(a, b) == Floor(a * U, b)
ExactMul(a, b) == Mul(a, b) * U = a * b
ExactDiv(a, b) == b * Div(a, b) = a * U
Mag(v) == IF v < 0 THEN -v ELSE v
Huge == 2 * Inf                  \* an infinite quotient: beyond any bound

(* rd_div and ru_div; a zero denominator is a coefficient that cancelled   *)
(* since the last rebuild.  NaN is the side that no comparison acts on.    *)
DivDown(a, b, nan) ==
  IF b # 0 THEN Div(a, b) ELSE IF a = 0 THEN nan ELSE IF a > 0 THEN Huge ELSE -Huge
DivUp(a, b, nan) ==
  IF b # 0 THEN Ceil(a * U, b) ELSE IF a = 0 THEN nan ELSE IF a > 0 THEN Huge ELSE -Huge

----------------------------------------------------------------------------
(* The working image.  A[j] keeps the entries of dead rows, and entries    *)
(* that cancelled, until the rebuild of the next pass.                     *)

pw_init(p) ==
  [c |-> p.c, lo |-> p.l, hi |-> p.u, b |-> p.b, A |-> p.A,
   lo_src |-> [j \in p.cols |-> 0], hi_src |-> [j \in p.cols |-> 0],   \* 0: original
   cols |-> p.cols, rows |-> p.rows, touched |-> {}, objconst |-> 0,
   nnz |-> 0]

Nnz(A, cols) == MapThenSumSet(LAMBDA j : Cardinality(DOMAIN A[j]), cols)

pw_rebuild(v) ==
  LET A == [j \in lp.cols |->
              [i \in {r \in DOMAIN v.A[j] \cap v.rows : j \in v.cols /\ v.A[j][r] # 0}
                 |-> v.A[j][i]]]
  IN  [v EXCEPT !.A = A, !.nnz = Nnz(A, v.cols)]

(* The columns with an entry in row i.                                     *)
row_collect(v, i) == {j \in v.cols : i \in DOMAIN v.A[j]}

(* Least and greatest value of row i over the box; an open side counts as  *)
(* infinitely far.                                                         *)
row_activity(v, i) ==
  LET E == {j \in v.cols : i \in DOMAIN v.A[j]}
      low(j)  == IF v.A[j][i] > 0 THEN v.lo[j] ELSE v.hi[j]
      high(j) == IF v.A[j][i] > 0 THEN v.hi[j] ELSE v.lo[j]
      isopen(x) == OpenBelow(x) \/ OpenAbove(x)
  IN  [min |-> IF \E j \in E : isopen(low(j)) THEN -Huge
               ELSE MapThenSumSet(LAMBDA j : Mul(v.A[j][i], low(j)), E),
       max |-> IF \E j \in E : isopen(high(j)) THEN Huge
               ELSE MapThenSumSet(LAMBDA j : -Mul(-v.A[j][i], high(j)), E)]

ps_snapshot_AllRows(v, j) == [i \in DOMAIN v.A[j] |-> v.A[j][i]]    \* dead ones too

(* The entries of column j in the rows that are active now.                *)
ps_snapshot(v, j) ==
  [i \in {r \in DOMAIN v.A[j] : v.A[j][r] # 0 /\ r \in v.rows} |-> v.A[j][i]]

(* fold_bounds: a candidate that improves the lower side is taken and the  *)
(* upper one is left for later, otherwise the upper side has its turn.  A  *)
(* candidate past the opposite side is a conflict: with the original box,  *)
(* with the bound of another singleton row, or beyond what is decided.     *)
Folded(v, result) == [w |-> v, result |-> result]
Conflict(v, other, kind, both, side) ==
  Folded(v, IF other = 0 /\ (kind = "singleton" \/ both) THEN side
            ELSE IF kind = "singleton" THEN "pair " \o side ELSE "abort")

fold_bounds(v, j, vlo, vhi, src, kind, both) ==
  CASE vlo > v.lo[j] /\ vlo > v.hi[j] -> Conflict(v, v.hi_src[j], kind, both, "low")
    [] vlo > v.lo[j] /\ vlo <= v.hi[j] ->
         Folded(IF vlo > -Inf /\ vlo < Inf
                THEN [v EXCEPT !.lo[j] = vlo, !.lo_src[j] = src] ELSE v, "folded")
    [] vlo <= v.lo[j] /\ vhi < v.hi[j] /\ vhi < v.lo[j] ->
         Conflict(v, v.lo_src[j], kind, both, "high")
    [] vlo <= v.lo[j] /\ vhi < v.hi[j] /\ vhi >= v.lo[j] ->
         Folded(IF vhi > -Inf /\ vhi < Inf
                THEN [v EXCEPT !.hi[j] = vhi, !.hi_src[j] = src] ELSE v, "folded")
    [] OTHER -> Folded(v, "unchanged")

----------------------------------------------------------------------------
(* The scans.  Every action handles the index at of its phase and moves on *)
(* with the image v; Decide ends the run instead.                          *)

n == Cardinality(lp.cols)
m == Cardinality(lp.rows)

NextPhase ==
  [empty |-> "pass", rows |-> "redundant", redundant |-> "fixed",
   fixed |-> "doubleton", doubleton |-> "end"]

MoveOn(v) ==
  LET last == IF phase \in {"empty", "fixed"} THEN n ELSE m
  IN  /\ w' = v
      /\ IF at < last THEN at' = at + 1 /\ phase' = phase
                       ELSE at' = 1 /\ phase' = NextPhase[phase]

Reduce(v, rec) ==
  /\ MoveOn(v)
  /\ recs' = Append(recs, rec)
  /\ fired' = TRUE
  /\ UNCHANGED <<lp, notes, ray, pass, rc>>

Skip ==
  /\ MoveOn(w)
  /\ UNCHANGED <<lp, recs, notes, ray, pass, fired, rc>>

Decide(code, y) ==
  /\ rc' = code
  /\ ray' = y
  /\ phase' = "done"
  /\ UNCHANGED <<lp, w, recs, notes, at, pass, fired>>

Decline == Decide("declined", << >>)
Infeasible(y) == Decide("infeasible", [i \in lp.rows |-> IF i \in DOMAIN y THEN y[i] ELSE 0])
OneRow(i, s) == Infeasible([r \in {i} |-> s * U])

(* A ray that names a row speaks of the original data, so only while that  *)
(* row is still the original one.                                          *)
OneRowIfOriginal(i, s) == IF i \in w.touched THEN Decline ELSE OneRow(i, s)

Scans(p, alive) == phase = p /\ at \in alive

----------------------------------------------------------------------------
(* Columns that are empty in the model as read are set where their cost    *)
(* pulls them; if that side is open, the model is unbounded once any point *)
(* is found, and a note keeps the direction.                               *)

NearEnd(j) ==
  IF ~OpenBelow(w.lo[j]) THEN w.lo[j] ELSE IF ~OpenAbove(w.hi[j]) THEN w.hi[j] ELSE 0
FarEnd(j) ==
  IF ~OpenAbove(w.hi[j]) THEN w.hi[j] ELSE IF ~OpenBelow(w.lo[j]) THEN w.lo[j] ELSE 0

EmptyColumn ==
  LET j == at
      walk == Sense(lp) * w.c[j]
      v == IF walk > 0 THEN FarEnd(j) ELSE NearEnd(j)
      drifts == (walk > 0 /\ OpenAbove(w.hi[j])) \/ (walk < 0 /\ OpenBelow(w.lo[j]))
  IN  /\ Scans("empty", lp.cols)
      /\ w.A[j] = << >>
      /\ MoveOn([w EXCEPT !.cols = @ \ {j}, !.objconst = @ + Mul(w.c[j], v)])
      /\ recs' = Append(recs, [kind |-> "col_empty", j |-> j, v |-> v])
      /\ notes' = IF drifts THEN Append(notes, [var |-> j, walk |-> IF walk > 0 THEN 1 ELSE -1])
                             ELSE notes
      /\ UNCHANGED <<lp, ray, pass, fired, rc>>

MaxNnz == NnzGrowth * Max({1, Nnz(lp.A, lp.cols)})

StartPass ==
  /\ phase = "pass"
  /\ pass < PassCap
  /\ pass' = pass + 1
  /\ fired' = FALSE
  /\ w' = pw_rebuild(w)
  /\ LET full == w'.nnz > MaxNnz
     IN  /\ rc' = IF full THEN "declined" ELSE rc
         /\ phase' = IF full THEN "done" ELSE "rows"
  /\ at' = 1
  /\ UNCHANGED <<lp, recs, notes, ray>>

(* An empty row holds or not whatever the point.                           *)
EmptyRow ==
  LET i == at
      b == w.b[i]
      sign == CASE lp.rel[i] = "<" -> 1 [] lp.rel[i] = ">" -> -1
                [] lp.rel[i] = "=" -> IF b > 0 THEN -1 ELSE 1
  IN  /\ Scans("rows", w.rows)
      /\ row_collect(w, i) = {}
      /\ IF Meets(lp.rel[i], 0, b)
         THEN Reduce([w EXCEPT !.rows = @ \ {i}], [kind |-> "row_empty", i |-> i])
         ELSE OneRowIfOriginal(i, sign)

(* The multipliers that cancel column j between its singleton rows i and   *)
(* i2, up to a positive factor, if their signs suit the relations and they *)
(* separate.                                                               *)
PairRays(i, a, i2, a2) ==
  LET suits(rel, y) == (rel = "<" => y >= 0) /\ (rel = ">" => y <= 0)
      s == IF a * a2 > 0 THEN 1 ELSE -1
      pair(sgn) == [r \in {i, i2} |-> IF r = i THEN sgn * s * a2 ELSE -sgn * s * a]
  IN  {y \in {pair(1), pair(-1)} :
         /\ suits(lp.rel[i], y[i]) /\ suits(lp.rel[i2], y[i2])
         /\ y[i] * w.b[i] + y[i2] * w.b[i2] < 0}

SeparatePair(i, j, a, i2) ==
  LET firing == SelectSeq(recs, LAMBDA r : r.kind = "row_singleton" /\ r.i = i2)
      rays == PairRays(i, a, i2, Head(firing).a_ij)
  IN  IF \/ firing = << >> \/ Head(firing).j # j
         \/ {i, i2} \cap w.touched # {} \/ rays = {}
      THEN Decline
      ELSE Infeasible(CHOOSE y \in rays : TRUE)

(* The pool of snapshots has a budget.                                     *)
SnapshotFits(rec) ==
  LET kept == {t \in DOMAIN recs : recs[t].kind \in {"row_singleton", "row_doubleton"}}
  IN  MapThenSumSet(LAMBDA t : Cardinality(DOMAIN recs[t].snap), kept)
        + Cardinality(DOMAIN rec.snap) <= SnapCap

(* A row with one entry becomes a bound of its column.                     *)
SingletonRow ==
  LET i == at
      j == CHOOSE e \in row_collect(w, i) : TRUE
      a == w.A[j][i]
      upper == lp.rel[i] = "=" \/ (lp.rel[i] = "<") = (a > 0)
      lower == lp.rel[i] = "=" \/ ~upper
      fold == fold_bounds(w, j, IF lower THEN Div(w.b[i], a) ELSE w.lo[j],
                                IF upper THEN Ceil(w.b[i] * U, a) ELSE w.hi[j],
                          i, "singleton", FALSE)
      rec == [kind |-> "row_singleton", i |-> i, j |-> j, a_ij |-> a, rel_i |-> lp.rel[i],
              bi |-> w.b[i], cj |-> w.c[j], snap |-> ps_snapshot(w, j)]
      side == IF a > 0 THEN 1 ELSE -1
  IN  /\ Scans("rows", w.rows)
      /\ Cardinality(row_collect(w, i)) = 1
      /\ CASE fold.result = "low" -> OneRowIfOriginal(i, -side)
           [] fold.result = "high" -> OneRowIfOriginal(i, side)
           [] fold.result = "pair low" -> SeparatePair(i, j, a, w.hi_src[j])
           [] fold.result = "pair high" -> SeparatePair(i, j, a, w.lo_src[j])
           [] OTHER -> IF fold.result = "abort" \/ ~SnapshotFits(rec) THEN Decline
                       ELSE Reduce([fold.w EXCEPT !.rows = @ \ {i}], rec)

(* A row that no point of the box can violate is dropped, one that every   *)
(* point violates decides.                                                 *)
NeverMet(i) == LET act == row_activity(w, i)
               IN  \/ lp.rel[i] = "<" /\ act.min > w.b[i]
                   \/ lp.rel[i] = ">" /\ act.max < w.b[i]
AlwaysMet(i) == LET act == row_activity(w, i)
                IN  \/ lp.rel[i] = "<" /\ act.max <= w.b[i]
                    \/ lp.rel[i] = ">" /\ act.min >= w.b[i]

RedundantRow ==
  LET i == at
  IN  /\ Scans("redundant", w.rows)
      /\ Cardinality(row_collect(w, i)) > 1
      /\ \/ NeverMet(i) /\ OneRowIfOriginal(i, IF lp.rel[i] = "<" THEN 1 ELSE -1)
         \/ /\ AlwaysMet(i) /\ ~NeverMet(i)
            /\ Reduce([w EXCEPT !.rows = @ \ {i}], [kind |-> "row_redundant", i |-> i])

(* A column whose sides meet is folded into the right-hand sides.          *)
Fixed(j) == w.lo[j] = w.hi[j] /\ ~OpenBelow(w.lo[j]) /\ ~OpenAbove(w.hi[j])

FixedColumn ==
  LET j == at
      v == w.lo[j]
      rows == DOMAIN w.A[j]
  IN  /\ Scans("fixed", w.cols)
      /\ Fixed(j)
      /\ Reduce([w EXCEPT !.cols = @ \ {j},
                          !.objconst = @ + Mul(w.c[j], v),
                          !.b = [i \in lp.rows |->
                                   IF i \in rows THEN @[i] - Mul(w.A[j][i], v) ELSE @[i]],
                          !.touched = @ \cup rows],
                [kind |-> "col_fixed", j |-> j, v |-> v])

(* An equality between two columns eliminates the one with the larger      *)
(* coefficient, in a tie the one with fewer entries.                       *)
IsDoubleton(i) ==
  /\ lp.rel[i] = "="
  /\ Cardinality(row_collect(w, i)) = 2
  /\ \E j \in row_collect(w, i) : w.A[j][i] # 0

Pivot(i) ==
  LET j0 == Min(row_collect(w, i))
      j1 == Max(row_collect(w, i))
      size(j) == Mag(w.A[j][i])
      len(j) == Cardinality(DOMAIN w.A[j])
  IN  IF size(j1) > size(j0) \/ (size(j1) = size(j0) /\ len(j1) < len(j0)) THEN j1 ELSE j0

ImpliedInterval_SignIgnored(i, j, k) ==        \* as if the coefficient were positive
  LET ends == {Mul(-w.A[j][i], w.lo[j]), Mul(-w.A[j][i], w.hi[j])}
  IN  [lo |-> DivDown(w.b[i] + Min(ends), Mag(w.A[k][i]), -Huge),
       hi |-> DivUp(w.b[i] + Max(ends), Mag(w.A[k][i]), Huge)]

(* What row i and the box of its pivot j leave to column k.                *)
ImpliedInterval(i, j, k) ==
  LET ends == {Mul(-w.A[j][i], w.lo[j]), Mul(-w.A[j][i], w.hi[j])}
      low == w.b[i] + Min(ends)
      high == w.b[i] + Max(ends)
      ak == w.A[k][i]
  IN  IF ak > 0 THEN [lo |-> DivDown(low, ak, -Huge), hi |-> DivUp(high, ak, Huge)]
                ELSE [lo |-> DivDown(high, ak, -Huge), hi |-> DivUp(low, ak, Huge)]

(* x_j := bover + tcoef * x_k in the cost and in every other active row.   *)
Substitute(v, i, j, k, bover, tcoef) ==
  LET rows == (DOMAIN v.A[j] \cap v.rows) \ {i}
      old(r) == IF r \in DOMAIN v.A[k] THEN v.A[k][r] ELSE 0
      column == [r \in DOMAIN v.A[k] \cup rows |->
                   IF r \in rows THEN old(r) + Mul(v.A[j][r], tcoef) ELSE v.A[k][r]]
      cost == [v.c EXCEPT ![k] = @ + Mul(v.c[j], tcoef), ![j] = 0]
  IN  [v EXCEPT !.A[k] = column,
                !.c = cost,
                !.objconst = @ + Mul(v.c[j], bover),
                !.b = [r \in lp.rows |-> IF r \in rows THEN @[r] - Mul(v.A[j][r], bover) ELSE @[r]],
                !.touched = @ \cup rows,
                !.nnz = @ + Cardinality(rows \ DOMAIN v.A[k]),
                !.rows = @ \ {i},
                !.cols = @ \ {j}]

DoubletonConflict(i) ==
  LET act == row_activity(w, i)
  IN  CASE i \notin w.touched /\ act.min > w.b[i] -> OneRow(i, 1)
        [] i \notin w.touched /\ act.min <= w.b[i] /\ act.max < w.b[i] -> OneRow(i, -1)
        [] OTHER -> Decline

DoubletonRow ==
  LET i == at
      j == Pivot(i)
      k == CHOOSE e \in row_collect(w, i) : e # j
      a == w.A[j][i]
      boxed == ~OpenBelow(w.lo[j]) /\ ~OpenAbove(w.hi[j])
      implied == ImpliedInterval(i, j, k)
      fold == IF boxed
              THEN fold_bounds(w, k, implied.lo, implied.hi, i, "doubleton",
                               w.lo_src[j] = 0 /\ w.hi_src[j] = 0)
              ELSE Folded(w, "unchanged")
      rec == [kind |-> "row_doubleton", i |-> i, j |-> j, k |-> k, a_ij |-> a,
              bover |-> Div(w.b[i], a), tcoef |-> Div(-w.A[k][i], a), cj |-> w.c[j],
              snap |-> ps_snapshot(w, j)]
  IN  /\ Scans("doubleton", w.rows)
      /\ IsDoubleton(i)
      /\ IF fold.result \in {"low", "high"} THEN DoubletonConflict(i)
         ELSE IF \/ fold.result = "abort" \/ ~SnapshotFits(rec)
                 \/ w.nnz + Cardinality(DOMAIN w.A[j]) > MaxNnz
         THEN Decline
         ELSE Reduce(Substitute(fold.w, i, j, k, rec.bover, rec.tcoef), rec)

(* The scans pass over everything else.                                    *)
PassOver ==
  /\ \/ phase = "empty" /\ w.A[at] # << >>
     \/ phase = "rows" /\ (at \in w.rows => Cardinality(row_collect(w, at)) > 1)
     \/ phase = "redundant" /\ (at \in w.rows => \/ Cardinality(row_collect(w, at)) <= 1
                                                  \/ ~(NeverMet(at) \/ AlwaysMet(at)))
     \/ phase = "fixed" /\ (at \in w.cols => ~Fixed(at))
     \/ phase = "doubleton" /\ (at \in w.rows => ~IsDoubleton(at))
  /\ Skip

EndPass ==
  /\ phase = "end"
  /\ fired
  /\ phase' = "pass"
  /\ UNCHANGED <<lp, w, recs, notes, ray, at, pass, fired, rc>>

(* Nothing fired, or no pass is left: the image is compacted, unless       *)
(* nothing was reduced at all.                                             *)
Finish ==
  /\ \/ phase = "end" /\ ~fired
     \/ phase = "pass" /\ pass = PassCap
  /\ Decide(IF recs = << >> THEN "declined" ELSE "reduced", << >>)

PresolveStep ==
  \/ EmptyColumn \/ StartPass \/ EmptyRow \/ SingletonRow \/ RedundantRow
  \/ FixedColumn \/ DoubletonRow \/ PassOver \/ EndPass \/ Finish

PresolveInit(p) ==
  /\ lp = p /\ w = pw_init(p)
  /\ recs = << >> /\ notes = << >> /\ ray = << >>
  /\ phase = "empty" /\ at = 1
  /\ pass = 0 /\ fired = FALSE
  /\ rc = "running"

----------------------------------------------------------------------------
(* The reduced LP, and the maps back.                                      *)

Reduced ==
  [cols |-> w.cols, rows |-> w.rows, maximize |-> lp.maximize,
   c |-> [j \in w.cols |-> w.c[j]],
   l |-> [j \in w.cols |-> w.lo[j]], u |-> [j \in w.cols |-> w.hi[j]],
   b |-> [i \in w.rows |-> w.b[i]], rel |-> [i \in w.rows |-> lp.rel[i]],
   A |-> [j \in w.cols |-> w.A[j]]]

(* The records are replayed from the last to the first.                    *)
Replay(op(_, _), base) == FoldRight(op, recs, base)

UndoPoint(r, x) ==
  CASE r.kind \in {"col_fixed", "col_empty"} -> [x EXCEPT ![r.j] = r.v]
    [] r.kind = "row_doubleton" -> [x EXCEPT ![r.j] = r.bover + Mul(r.tcoef, x[r.k])]
    [] OTHER -> x

postsolve_x(x_red) == Replay(UndoPoint, [j \in lp.cols |-> IF j \in w.cols THEN x_red[j] ELSE 0])

postsolve_ray(d_red) ==
  Replay(LAMBDA r, d :
           CASE r.kind \in {"col_fixed", "col_empty"} -> [d EXCEPT ![r.j] = 0]
             [] r.kind = "row_doubleton" -> [d EXCEPT ![r.j] = Mul(r.tcoef, d[r.k])]
             [] OTHER -> d,
         [j \in lp.cols |-> IF j \in w.cols THEN d_red[j] ELSE 0])

(* A dual is known once its row's record has been replayed; one that is    *)
(* needed before that makes the map fail.  An inequality that is slack at  *)
(* the point carries no dual.  For the properties, rounded remembers that  *)
(* a price was not exact.                                                  *)
Dual(i, v, exact, d) ==
  [known |-> d.known \cup {i}, y |-> [d.y EXCEPT ![i] = v], failed |-> d.failed,
   rounded |-> d.rounded \/ ~exact]

Slack_Unguarded(r, x) == FALSE           \* without the complementarity guard

Slack(r, x) ==
  /\ r.kind = "row_singleton"
  /\ \/ r.rel_i = "<" /\ r.a_ij * x[r.j] < r.bi * U
     \/ r.rel_i = ">" /\ r.a_ij * x[r.j] > r.bi * U

Priced(r, d) ==
  LET others == DOMAIN r.snap \ {r.i}
      left == r.cj - MapThenSumSet(LAMBDA q : Mul(d.y[q], r.snap[q]), others)
      exact == ExactDiv(left, r.a_ij) /\ \A q \in others : ExactMul(d.y[q], r.snap[q])
  IN  IF others \subseteq d.known THEN Dual(r.i, Div(left, r.a_ij), exact, d)
      ELSE [d EXCEPT !.failed = TRUE]

UndoDual(x, r, d) ==
  CASE d.failed -> d
    [] r.kind \in {"row_empty", "row_redundant"} \/ Slack(r, x) -> Dual(r.i, 0, TRUE, d)
    [] r.kind \in {"row_singleton", "row_doubleton"} /\ ~Slack(r, x) -> Priced(r, d)
    [] OTHER -> d

postsolve_duals(y_red, x) ==
  Replay(LAMBDA r, d : UndoDual(x, r, d),
         [known |-> w.rows, failed |-> FALSE, rounded |-> FALSE,
          y |-> [i \in lp.rows |-> IF i \in w.rows THEN y_red[i] ELSE 0]])

----------------------------------------------------------------------------
(* The points of the original LP on a grid of values, and what the image   *)
(* and the maps make of them.                                              *)

CONSTANTS
  Grid,        \* values a column is tried at, within the box of finite numbers
  DualGrid     \* values the dual of a row is tried at

ASSUME GridAssumption == Grid \subseteq -Inf .. Inf
ASSUME DualGridAssumption == DualGrid \subseteq Int

Feasible == {x \in [lp.cols -> Grid] : lp_primal_ok(lp, x)}

(* Those that have the empty columns where presolve set them.              *)
Settled ==
  {x \in Feasible :
     \A t \in DOMAIN recs : recs[t].kind = "col_empty" => x[recs[t].j] = recs[t].v}

InImage(x) ==
  /\ \A j \in w.cols : w.lo[j] <= x[j] /\ x[j] <= w.hi[j]
  /\ \A i \in w.rows :
       Meets(lp.rel[i],
             MapThenSumSet(LAMBDA j : w.A[j][i] * x[j], {j \in w.cols : i \in DOMAIN w.A[j]}),
             w.b[i] * U)

ImageObjective(x) == MapThenSumSet(LAMBDA j : w.c[j] * x[j], w.cols)

(* The products and quotients of the reduction at hand are numbers of the  *)
(* grid, as those of the code are doubles, and right-hand sides are        *)
(* finite.  A fold rounds outward and needs none of this.                  *)
ExactProducts(v, j, bover, t) ==
  /\ ExactMul(v.c[j], t) /\ ExactMul(v.c[j], bover)
  /\ \A r \in DOMAIN v.A[j] : ExactMul(v.A[j][r], t) /\ ExactMul(v.A[j][r], bover)

ExactDoubleton(i, j, k) ==
  LET a == w.A[j][i]
      bover == Div(w.b[i], a)
      tcoef == Div(-w.A[k][i], a)
  IN  /\ ExactDiv(w.b[i], a) /\ ExactDiv(-w.A[k][i], a)
      /\ ~OpenBelow(w.lo[j]) /\ ~OpenAbove(w.hi[j]) =>
           ExactMul(-a, w.lo[j]) /\ ExactMul(-a, w.hi[j])
      /\ ExactProducts(w, j, bover, tcoef)

ExactHere ==
  /\ \A i \in w.rows : -Huge < w.b[i] /\ w.b[i] < Huge
  /\ phase = "empty" /\ w.A[at] = << >> =>
       ExactMul(w.c[at], NearEnd(at)) /\ ExactMul(w.c[at], FarEnd(at))
  /\ phase = "fixed" /\ at \in w.cols /\ Fixed(at) =>
       /\ ExactMul(w.c[at], w.lo[at])
       /\ \A i \in DOMAIN w.A[at] : ExactMul(w.A[at][i], w.lo[at])
  /\ phase = "doubleton" /\ at \in w.rows /\ IsDoubleton(at) =>
       ExactDoubleton(at, Pivot(at), CHOOSE e \in row_collect(w, at) : e # Pivot(at))

ExactDuals ==
  rc = "reduced" => \A x \in Settled, y \in [w.rows -> DualGrid] : ~postsolve_duals(y, x).rounded

(* Whatever has been reduced, every point of the original LP is still in   *)
(* the working image, with the objective it had; and presolve reports      *)
(* infeasible only an LP without points.                                   *)
NothingLost ==
  /\ \A x \in Feasible : InImage(x)
  /\ \A x \in Settled : Objective(lp, x) = ImageObjective(x) + w.objconst * U
  /\ rc = "infeasible" => Feasible = {}

(* A point of the original LP that is cut down to the surviving columns is *)
(* restored by the replay, whichever reductions it passes through.         *)
PostsolveInverts == \A x \in Settled : postsolve_x(x) = x

(* The replay of duals never meets a row whose dual it does not know yet,  *)
(* and a column that a doubleton row eliminated prices out to zero on the  *)
(* data of the original LP.                                                *)
DualsReplay ==
  rc = "reduced" =>
    \A x \in Settled, y \in [w.rows -> DualGrid] :
      LET back == postsolve_duals(y, x)
      IN  /\ ~back.failed
          /\ \A t \in DOMAIN recs : recs[t].kind = "row_doubleton" =>
               ATy(lp, back.y, recs[t].j) = lp.c[recs[t].j] * U

(* Both replays undo the reductions, of points and of duals, all of which  *)
(* are exact in the programs of a run, as are the prices.                  *)
ReplayRestores == PostsolveInverts /\ DualsReplay /\ ExactHere /\ ExactDuals

(* Evidence that closes the reduced LP closes the original one after the   *)
(* replay, if the restored point satisfies the original rows, rests on no  *)
(* bound that a doubleton row implied, and no column is held by a          *)
(* singleton row and by its own bound or another such row at once.         *)
SignValid(p, y) == LET s == [i \in p.rows |-> Sense(p) * y[i]] IN Clipped(p, s) = s

RestsOnDoubleton(x) ==
  \E t \in DOMAIN recs, j \in lp.cols :
    /\ recs[t].kind = "row_doubleton"
    /\ \/ w.lo_src[j] = recs[t].i /\ x[j] = w.lo[j]
       \/ w.hi_src[j] = recs[t].i /\ x[j] = w.hi[j]

Tight(t, x) == recs[t].kind = "row_singleton" /\ recs[t].a_ij * x[recs[t].j] = recs[t].bi * U

HeldTwice(x) ==
  \E t \in DOMAIN recs :
    /\ Tight(t, x)
    /\ \/ x[recs[t].j] \in {lp.l[recs[t].j], lp.u[recs[t].j]}
       \/ \E s \in DOMAIN recs \ {t} : Tight(s, x) /\ recs[s].j = recs[t].j

EvidenceTransfers ==
  rc = "reduced" /\ notes = << >> =>
    \A x \in {p \in [w.cols -> Grid] : lp_primal_ok(Reduced, p)}, y \in [w.rows -> DualGrid] :
      \/ ~SignValid(Reduced, y) \/ ~check_lp_optimal(Reduced, x, y)
      \/ ~lp_primal_ok(lp, postsolve_x(x))
      \/ RestsOnDoubleton(postsolve_x(x)) \/ HeldTwice(postsolve_x(x))
      \/ check_lp_optimal(lp, postsolve_x(x), postsolve_duals(y, postsolve_x(x)).y)
=============================================================================
