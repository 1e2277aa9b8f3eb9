------------------------------- MODULE FznRows -------------------------------
(***************************************************************************)
(* The MIP bridge of fz_solve (src/src/fzn.c): the boxes of the declared   *)
(* variables, every constraint turned into rows (the list of constraints   *)
(* holds the last one of the file first), the small backtracking solver    *)
(* tried next, the MIP over boxes and rows, and what is made of its        *)
(* answer.                                                                 *)
(*                                                                         *)
(* The finite-domain engine has declined by then.  The MIP is what         *)
(* BranchBound shows of it: it ends at a limit, or finds that the rows     *)
(* have no point, or a point of them as good as any but for its gap.       *)
(***************************************************************************)
EXTENDS CspProbe

CONSTANTS
  Problems,      \* the models
  BIG,           \* FZ_BIG_BOUND
  WIDE,          \* the integers a variable may take go this far
  GapNum, GapDen \* the MIP's gap is GapNum / GapDen

(* A model: for each variable its declared bounds or Free ones, or a set   *)
(* of values; the constraints in the order of the file; the objective; the *)
(* variables named x and y, if there are such.                             *)
ProblemType(p) ==
  /\ DOMAIN p.lo = DOMAIN p.hi /\ DOMAIN p.set = DOMAIN p.lo
  /\ p.nolo \cup p.nohi \subseteq DOMAIN p.lo
  /\ p.objective.kind \in {"satisfy", "minimize", "maximize"}
  /\ DOMAIN p.objective.form.coef \subseteq DOMAIN p.lo
  /\ p.xy = << >> \/ p.xy \in (DOMAIN p.lo) \X (DOMAIN p.lo)

ASSUME FznRowsAssumption ==
  /\ EXACT \in Nat /\ SELECTORS \in Nat
  /\ BIG \in Nat /\ WIDE \in Nat /\ BIG < WIDE
  /\ GapNum \in Nat /\ GapDen \in Nat \ {0}
  /\ \A p \in Problems : ProblemType(p)

VARIABLES
  problem,
  builder,
  next,      \* constraints not handled yet
  phase,     \* "build", "probe", "rows", "mip", and "guessed" or "over"
  stack,     \* domains that csp_dfs has yet to visit, the next one first
  points,    \* what the rows leave of the model's variables
  verdict,   \* FZSolution.status
  answer,    \* FZSolution.x
  early      \* a ghost: variables some row was written of while they were free

vars == <<problem, builder, next, phase, stack, points, verdict, answer, early>>

Size == Len(problem.lo)
None == << >>

----------------------------------------------------------------------------
(* The boxes: a side without a declaration is clamped, a single value pins *)
(* its variable, and a set with gaps gets a selector for each value.       *)

Gapped(S) == S # {} /\ S # Min(S) .. Max(S)

Boxes(p) ==
  [lo |-> [v \in DOMAIN p.lo |-> IF v \in p.nolo THEN -BIG ELSE p.lo[v]],
   hi |-> [v \in DOMAIN p.hi |-> IF v \in p.nohi THEN BIG ELSE p.hi[v]],
   nolo |-> p.nolo, nohi |-> p.nohi, rows |-> {}, handled |-> TRUE]

Start(p) ==
  LET vals(v) == Ascending(p.set[v])
      Add(b, v) ==
        LET t == Table(b, 1, Cardinality(p.set[v]))
        IN IF Cardinality(p.set[v]) = 1 THEN Narrowed(b, v, vals(v)[1], vals(v)[1])
           ELSE IF ~Gapped(p.set[v]) THEN b
           ELSE b_put(t.b, {Equal(X(v), Chosen(t.z, 1, vals(v))), OneOf(OfRow(t.z, 1))})
  IN FoldLeft(Add, Boxes(p), [v \in DOMAIN p.lo |-> v])

Init ==
  /\ problem \in Problems
  /\ builder = Start(problem)
  /\ next = Len(problem.constraints)
  /\ phase = "build"
  /\ stack = << >>
  /\ points = {}
  /\ verdict = "none"
  /\ answer = None
  /\ early = {}

(* handle_constraint by family of constraints; it declines what has no     *)
(* linear form.                                                            *)
Current == problem.constraints[next]
Refused(c) ==
  \/ c.mode \in Gates /\ c.p \notin {"lin", "compare", "bool_clause", "set_in", "float_in"}
  \/ c.float /\ c.mode = "reif" /\ c.p # "float_in"

(* A constraint that is declined is remembered; the others still follow.   *)
Handle(families, b) ==
  /\ phase = "build" /\ next > 0 /\ Current.p \in families
  /\ builder' = IF Refused(Current) THEN Declined(builder) ELSE b
  /\ next' = next - 1
  /\ early' = early \cup {v \in builder.nolo \cup builder.nohi :
                          \E row \in builder'.rows \ builder.rows : Coef(row, v) # 0}
  /\ UNCHANGED <<problem, phase, stack, points, verdict, answer>>

relation(b, c) ==
  CASE c.p = "lin" /\ c.mode \in Gates -> lin_reif(b, c)
    [] c.p = "lin" /\ c.mode = "" /\ c.rel = "ne" -> lin_ne(b, c)
    [] c.p = "lin" /\ c.mode = "" /\ c.rel # "ne" -> lin_constraint(b, c)
    [] c.p = "compare" /\ c.mode \in Gates -> compare_reif(b, c)
    [] c.p = "compare" /\ c.mode = "" -> compare_constraint(b, c)
HandleRelation == Handle({"lin", "compare"}, relation(builder, Current))

boolean(b, c) ==
  CASE c.p = "bool_not" -> bool_not(b, c)
    [] c.p \in {"bool_and", "bool_or", "bool_xor"} -> bool_gate(b, c)
    [] c.p = "bool_clause" -> bool_clause(b, c)
    [] c.p \in {"array_bool_and", "array_bool_or"} -> array_bool(b, c)
    [] c.p = "array_bool_xor" -> array_bool_xor(b, c)
HandleBoolean ==
  Handle({"bool_not", "bool_and", "bool_or", "bool_xor", "bool_clause", "array_bool_and",
          "array_bool_or", "array_bool_xor"}, boolean(builder, Current))

arithmetic(b, c) ==
  CASE c.p \in {"int_plus", "int_minus"} -> plus_minus(b, c)
    [] c.p = "int_neg" -> int_neg(b, c)
    [] c.p = "same" -> same_value(b, c)
    [] c.p = "float_div" -> float_div(b, c)
    [] c.p = "int_abs" -> int_abs(b, c)
    [] c.p \in {"int_max", "int_min"} -> int_max_min(b, c)
HandleArithmetic ==
  Handle({"int_plus", "int_minus", "int_neg", "same", "float_div", "int_abs", "int_max", "int_min"},
         arithmetic(builder, Current))

product(b, c) ==
  CASE c.p = "int_times" -> int_times(b, c)
    [] c.p \in {"int_div", "int_mod"} -> int_div_mod(b, c)
    [] c.p = "int_pow" -> int_pow(b, c)
HandleProduct ==
  Handle({"int_times", "int_div", "int_mod", "int_pow"}, product(builder, Current))

membership(b, c) ==
  CASE c.p = "set_in" -> IF c.mode = "reif" THEN set_in_reif(b, c) ELSE set_in(b, c)
    [] c.p = "float_in" -> float_in(b, c)
    [] c.p = "member" -> member(b, c)
    [] c.p = "element" -> element(b, c)
    [] c.p = "table_int" -> table_int(b, c)
    [] c.p = "table" -> table(b, c)
    [] c.p \in {"array_int_maximum", "array_int_minimum"} ->
         array_extremum(b, problem.objective, c)
HandleMembership ==
  Handle({"set_in", "float_in", "member", "element", "table_int", "table", "array_int_maximum",
          "array_int_minimum"}, membership(builder, Current))

counting(b, c) ==
  CASE c.p = "all_different" -> all_different(b, c)
    [] c.p = "alldifferent_except" -> alldifferent_except(b, c)
    [] c.p = "count" -> count(b, c)
    [] c.p = "among" -> among(b, c)
    [] c.p = "global_cardinality" -> global_cardinality(b, c)
    [] c.p = "nvalue" -> nvalue(b, c)
    [] c.p \in {"bin_packing", "bin_packing_capa", "bin_packing_load"} -> bin_packing(b, c)
HandleCounting ==
  Handle({"all_different", "alldifferent_except", "count", "among", "global_cardinality", "nvalue",
          "bin_packing", "bin_packing_capa", "bin_packing_load"}, counting(builder, Current))

order(b, c) ==
  CASE c.p = "all_equal" -> all_equal(b, c)
    [] c.p = "increasing" -> increasing(b, c)
    [] c.p = "sliding_sum" -> sliding_sum(b, c)
    [] c.p = "lex" -> lex(b, c)
HandleOrder == Handle({"all_equal", "increasing", "sliding_sum", "lex"}, order(builder, Current))

graph(b, c) ==
  CASE c.p = "circuit" -> circuit(b, c)
    [] c.p = "subcircuit" -> subcircuit(b, c)
    [] c.p = "inverse" -> inverse(b, c)
HandleGraph == Handle({"circuit", "subcircuit", "inverse"}, graph(builder, Current))

schedule(b, c) ==
  CASE c.p = "disjunctive" -> disjunctive(b, c)
    [] c.p = "diffn" -> diffn(b, c)
    [] c.p = "cumulative" -> cumulative(b, c)
HandleSchedule == Handle({"disjunctive", "diffn", "cumulative"}, schedule(builder, Current))

(* csp_try_nonlinear: the product that some int_times fixes, that of a     *)
(* variable with a single value before a constant, and of several the one  *)
(* that comes first in the file.                                           *)
Single(p, v) == v \notin p.nolo \cup p.nohi /\ p.lo[v] = p.hi[v]
const_product(p) ==
  LET times == SelectSeq(p.constraints, LAMBDA c : c.p = "int_times" /\ c.mode = "")
      pinned == SelectSeq(times, LAMBDA c : ~IsConst(c.a[3]) /\ Single(p, VarOf(c.a[3])))
      fixed == SelectSeq(times, LAMBDA c : IsConst(c.a[3]))
  IN IF pinned # << >> THEN p.lo[VarOf(pinned[1].a[3])]
     ELSE IF fixed # << >> THEN IntOf(fixed[1].a[3])
     ELSE 0

(* Whatever the model says: x and y >= 0 with x^3 * y^2 = the product, x   *)
(* the least.                                                              *)
Roots(C) == {r \in (-Abs(C) .. Abs(C)) \X (0 .. Abs(C)) : r[1]^3 * r[2]^2 = C}
csp_try_nonlinear(p) ==
  /\ p.objective.kind = "satisfy" /\ p.xy # << >>
  /\ const_product(p) # 0 /\ Roots(const_product(p)) # {}
Guessing == phase = "build" /\ next = 0 /\ ~builder.handled /\ csp_try_nonlinear(problem)

Guess ==
  /\ Guessing
  /\ \E r \in Roots(const_product(problem)) :
       /\ \A s \in Roots(const_product(problem)) : r[1] <= s[1]
       /\ answer' = [v \in DOMAIN problem.lo |-> IF v = problem.xy[1] THEN r[1]
                                               ELSE IF v = problem.xy[2] THEN r[2] ELSE 0]
  /\ verdict' = "SAT"
  /\ phase' = "guessed"
  /\ UNCHANGED <<problem, builder, next, stack, points, early>>

(* The probe runs whether or not every constraint was handled.             *)
Probe ==
  /\ phase = "build" /\ next = 0 /\ ~Guessing
  /\ IF csp_try_alldiff(problem)
     THEN /\ phase' = "probe"
          /\ stack' = <<[v \in DOMAIN problem.lo |-> Free(problem.lo[v] .. problem.hi[v])]>>
     ELSE phase' = "rows" /\ UNCHANGED stack
  /\ UNCHANGED <<problem, builder, next, points, verdict, answer, early>>

(* One node of csp_dfs: dropped, a leaf, or replaced by its children.      *)
Visited == csp_propagate(Head(stack), Collection(problem), problem.lo, problem.hi)
csp_dfs ==
  /\ phase = "probe" /\ stack # << >>
  /\ LET s == Visited
     IN IF s.ok /\ Undecided(s.doms) = {}
        THEN /\ answer' = [v \in DOMAIN s.doms |-> ValueOf(s.doms[v])]
             /\ verdict' = "SAT" /\ phase' = "over" /\ stack' = << >>
        ELSE /\ stack' = (IF s.ok THEN Children(s.doms) ELSE << >>) \o Tail(stack)
             /\ UNCHANGED <<answer, verdict, phase>>
  /\ UNCHANGED <<problem, builder, next, points, early>>

(* No node left, the limit of nodes, or a stop that was asked for: the     *)
(* same to fz_solve.                                                       *)
GiveUp ==
  /\ phase = "probe"
  /\ phase' = "rows" /\ stack' = << >>
  /\ UNCHANGED <<problem, builder, next, points, verdict, answer, early>>

Unhandled ==
  /\ phase = "rows" /\ ~builder.handled
  /\ phase' = "over"
  /\ verdict' = "UNKNOWN"
  /\ UNCHANGED <<problem, builder, next, stack, points, answer, early>>

Translate ==
  /\ phase = "rows" /\ builder.handled
  /\ phase' = "mip"
  /\ points' = Points(builder, Size)
  /\ UNCHANGED <<problem, builder, next, stack, verdict, answer, early>>

Objective(x) == Value(problem.objective.form, x)
Beats(x, y) == CASE problem.objective.kind = "satisfy" -> FALSE
                 [] problem.objective.kind = "minimize" -> Objective(x) < Objective(y)
                 [] problem.objective.kind = "maximize" -> Objective(x) > Objective(y)
Gain(x, y) == IF problem.objective.kind = "minimize" THEN Objective(y) - Objective(x)
              ELSE Objective(x) - Objective(y)
WithinGap(x, y) ==
  problem.objective.kind # "satisfy" =>
    GapDen * Gain(x, y) <= GapNum * (One + Abs(Objective(y) - problem.objective.form.const))
Best(S) == {y \in S : \A x \in S : WithinGap(x, y)}

objective_uses_synthetic_bound(x) ==
  \E v \in DOMAIN problem.objective.form.coef :
    \/ v \in builder.nolo /\ x[v] <= -BIG
    \/ v \in builder.nohi /\ x[v] >= BIG

Found ==
  /\ phase = "mip"
  /\ answer' \in Best(points)
  /\ verdict' = IF problem.objective.kind = "satisfy" THEN "SAT"
                ELSE IF objective_uses_synthetic_bound(answer') THEN "UNKNOWN" ELSE "OPTIMAL"
  /\ phase' = "over"
  /\ UNCHANGED <<problem, builder, next, stack, points, early>>

Infeasible_ObjectiveBounded ==                               \* a mutant
  /\ phase = "mip" /\ points = {}
  /\ verdict' = IF (builder.nolo \cup builder.nohi) \cap DOMAIN problem.objective.form.coef = {}
                THEN "UNSAT" ELSE "UNKNOWN"
  /\ phase' = "over"
  /\ UNCHANGED <<problem, builder, next, stack, points, answer, early>>

(* Infeasibility is a proof only when every model variable is bounded.     *)
Infeasible ==
  /\ phase = "mip" /\ points = {}
  /\ verdict' = IF builder.nolo \cup builder.nohi = {} THEN "UNSAT" ELSE "UNKNOWN"
  /\ phase' = "over"
  /\ UNCHANGED <<problem, builder, next, stack, points, answer, early>>

(* The node limit, a stop or a relaxation that failed.                     *)
Limit ==
  /\ phase = "mip"
  /\ verdict' = "UNKNOWN"
  /\ phase' = "over"
  /\ UNCHANGED <<problem, builder, next, stack, points, answer, early>>

handle_constraint ==
  \/ HandleRelation \/ HandleBoolean \/ HandleArithmetic \/ HandleProduct \/ HandleMembership
  \/ HandleCounting \/ HandleOrder \/ HandleGraph \/ HandleSchedule

Next ==
  \/ handle_constraint \/ Guess \/ Probe \/ csp_dfs \/ GiveUp
  \/ Unhandled \/ Translate \/ Found \/ Infeasible \/ Limit

Spec == Init /\ [][Next]_vars

----------------------------------------------------------------------------
(* Properties.                                                             *)

Declared(p, v) ==
  IF p.set[v] # {} THEN p.set[v]
  ELSE (IF v \in p.nolo THEN -WIDE ELSE p.lo[v]) .. (IF v \in p.nohi THEN WIDE ELSE p.hi[v])
Assignments(p) ==
  LET extend[v \in 0 .. Len(p.lo)] ==
        IF v = 0 THEN {<< >>}
        ELSE {Append(x, i) : x \in extend[v - 1], i \in Declared(p, v)}
  IN extend[Len(p.lo)]
Satisfied(p, x) == \A k \in DOMAIN p.constraints : Holds(p.constraints[k], x)
Solves(p, x) == Satisfied(p, x) /\ \A v \in DOMAIN p.lo : x[v] \in Declared(p, v)
Solutions(p) == {x \in Assignments(p) : Satisfied(p, x)}

Unclamped(p, x) == \A v \in DOMAIN x : /\ v \in p.nolo => x[v] >= -BIG
                                       /\ v \in p.nohi => x[v] <= BIG

(* handle_constraint, "exact" of every encoding: when all constraints were *)
(* handled, the points of the rows are the solutions of the model, no      *)
(* other (with an objective, the best ones), and none within the clamp     *)
(* missing.                                                                *)
Optima(S) == {y \in S : \A x \in S : ~Beats(x, y)}
RowsExact ==
  phase = "mip" =>
    /\ Optima(points) \subseteq Solutions(problem)
    /\ \A x \in Solutions(problem) : Unclamped(problem, x) => x \in points

(* A variable has been bounded, beyond the clamp, after rows were written  *)
(* that took the clamp for its box.                                        *)
Overlooked(x) == \E v \in early \ (builder.nolo \cup builder.nohi) : x[v] \notin -BIG .. BIG

(* The downgrade of infeasibility: UNSATISFIABLE is said only of a model   *)
(* without any solution, also outside the clamp -- but for the Overlooked  *)
(* ones, which the code does lose (README, section 7).                     *)
UnsatIsReal == verdict = "UNSAT" => \A x \in Solutions(problem) : Overlooked(x)

(* The comment at the downgrade: never "a false UNSAT".                    *)
UnsatIsCertain == verdict = "UNSAT" => Solutions(problem) = {}

(* The proof that comes with an optimum: it satisfies the model, and no    *)
(* solution within the clamp beats it by more than the gap (outside, one   *)
(* may: README, section 7).  Where the objective is a maximum or minimum   *)
(* written from one side, the gap may leave its variable off the extremum, *)
(* but only to the worse.                                                  *)
OneSided(c) == /\ c.p \in {"array_int_maximum", "array_int_minimum"}
             /\ objective_forces(problem.objective, c)
StandsFor(x, y) == ~Beats(y, x) /\ \A v \in DOMAIN x : x[v] = y[v] \/ v \in DOMAIN problem.objective.form.coef
OptimumIsReal ==
  verdict = "OPTIMAL" =>
    /\ \/ Solves(problem, answer)
       \/ /\ \E k \in DOMAIN problem.constraints : OneSided(problem.constraints[k])
          /\ \E x \in Solutions(problem) : StandsFor(x, answer)
    /\ \A x \in Solutions(problem) : Unclamped(problem, x) => WithinGap(x, answer)

(* csp_dfs: a satisfaction problem is answered only with a solution,       *)
(* whether the probe or the MIP found it.  A guess is none (section 7).    *)
SatIsReal == verdict = "SAT" /\ phase # "guessed" => Solves(problem, answer)

(* Whatever verdict is printed is true of the model: UNSATISFIABLE of one  *)
(* without a solution, an optimum of its clamped box, a point of one it    *)
(* solves -- but for what the three parts say of themselves.               *)
ReportIsReal == UnsatIsReal /\ OptimumIsReal /\ SatIsReal

(* csp_propagate and the branching: while the probe searches, no solution  *)
(* of the model is lost from what it has yet to visit.                     *)
ProbeLosesNothing ==
  phase = "probe" =>
    \A x \in Solutions(problem) : \E k \in DOMAIN stack : \A v \in DOMAIN x : x[v] \in stack[k][v].vals

(* On neither way, rows or domains, is the model changed.                  *)
TranslationIsExact == RowsExact /\ ProbeLosesNothing
=============================================================================
