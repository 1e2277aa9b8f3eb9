# psolve in TLA+

psolve is a C library of solvers -- linear, quadratic and mixed-integer
programs, an exact rational simplex, a fixed-point physics kernel, and a
FlatZinc front end with a finite-domain engine of its own -- and the command
line drivers and the WebAssembly bridge around them.  Its doctrine
(docs/ROADMAP_AMBITIOUS.md) is that an answer is exact or an honest UNKNOWN: no
UNSATISFIABLE, point, objective or optimality claim is ever made up.  That is
what this project is about.  Rounding stays outside; the *control* that turns
what the numeric engines say into a verdict -- searches that prune against
moving incumbents, reductions that are replayed backwards, bases that outlive
the bounds they were built for, engines that give up half-way and hand over to
the next, limits that fire at any node, failures that longjmp out of the middle
-- is what the modules model, and where a wrong verdict would come from that no
test is likely to meet.

Paths below are relative to the repository; `file.c` alone is in src/.

## 1. Inventory

| component | source | state | operations | what makes it correct |
|---|---|---|---|---|
| Mixed-integer branch and bound | src/mip.c, mip.h | open nodes (boxes ordered by bound), incumbent, running best bound, node count, status flags | one loop iteration: limit and stop tests, pop, relaxation (double simplex, Farkas certificate, exact re-solve, exposure gate), prune, round, branch or enumerate; FBBT at the root; the result record | no feasible point lost beyond the gap; OPTIMAL, INFEASIBLE and best_bound are what they claim, whatever the engines answered; enumeration hands each solution out once |
| MIP command line, certificates | tools/mipsolve.c, src/cert.c | the result record, the words printed | check the point, check the exhaustion, print | the printed word follows from the model, and honest results are not demoted |
| Error frames and arenas | src/err.c, err.h | thread-local chain of setjmp frames, failure code, stack of arenas, bump pointers | frame push/pop, psolve_fail, arena use/end/reset, malloc/realloc/free | failures land in a live try; arenas nest; arena memory never reaches libc; blocks are disjoint |
| WebAssembly bridge | tools/psolve_web.c | deadline in the thread's stop slot, one arena, the certificate of the last QP | arm, call, disarm, reset, free scratch | what one call leaves behind never decides about another |
| Finite-domain engine | src/fz_cp.inc | domains per search node, recursion, incumbent, solutions printed, node count | fz_cp_try (accept or decline), propagate, incumbent cut, branch, verify a leaf, answer or fall back | UNSAT is a proof, optima are exact, enumerations complete and free of repeats |
| Propagators of the engine | src/fz_cp.inc | the domains of one search node (a list of values or an interval), the change counter, the memo of functional-graph facts | cp_propagate: one propagator per kind of constraint, in order, until a pass changes nothing; cp_bound_diophantine before the search; fg_facts | only values no solution uses are removed; the loop ends; a fixpoint with all variables fixed is a solution |
| FlatZinc translation | src/fzn.c, handle_constraint, Builder, csp_* | boxes, rows and 0/1 variables of the MIP under construction, "exact" flag, clamp flags; domains of the probe | one encoding per constraint family, relation and gate; the small backtracking probe; the downgrades of the answer | the rows describe exactly the solutions of the model |
| FlatZinc ladder and command line | src/fzn.c, tools/fznsolve.c | the solution record, output stream, stop flag | engine, two heuristics, MIP bridge over a clamped box, downgrades, exhaustion stamp, printing | what is printed follows from the model, not from the box or the limit |
| Revised simplex | src/solver.c | basis, statuses, bounds, inverse, warm-start flags, evidence of the last verdict | set_objective, set_bounds, add_row, refresh, warm_solve, the phase ladder | a stale nonbasic status, inverse or ray is never used for a verdict |
| Factorizations, kernels | src/lu.c, splu.c, kernels.c | numeric factors | factor, solve, update | floating-point accuracy only |
| Presolve | src/presolve.c | reduced columns and rows, stack of reduction records, three budgets | reductions; postsolve in reverse order of points, rays and duals | the restored point satisfies the original rows; infeasibility is real; evidence survives the replay |
| LP command line, parser | src/main.c, cert.c, parser.c | raw model, presolved model, options | raw-data retries, certificate gate, one status line | one verdict, true of the model as read |
| Quadratic programs | src/qp.c, tools/qpsolve.c | iterate, working set, multipliers | convexity gate, search for a start, active-set loop, stop, verification | a limit never passes for an optimum, a line printed is true |
| Exact rational simplex | src/fx.c, fx_core.inc | rational tableau of one width | pivot, overflow, retry wider, decline | overflow never becomes a verdict |
| Physics kernels | src/pgs.c, pgs_fixed.c | iterate, warm start | sweeps with rounding and saturation | no update raises the objective; saturation is not mistaken for convergence |
| MiniZinc library, tests, benchmarks | share/, test.sh, tools/*.py | -- | -- | -- |

How they interact.  The drivers install a stop callback (SIGALRM, SIGINT) and an
error frame, call one solver, certify its result and print it.  main.c runs
presolve, the simplex on what is left, the replay and the certificate check, and
repeats with rawer data when the check refuses.  mip_solve calls the double
simplex on every node and the exact simplex to arbitrate infeasibility.
fz_solve tries the finite-domain engine, then the heuristics, then builds a MIP
and calls mip_solve; all of them write the same FZSolution and the same output
stream (a callback prints each solution as it is found).  qp.c borrows the
simplex for its start.  Everything allocates through err.c, and any of it may
psolve_fail, which longjmps to the driver's or the host's frame past every
function in between, the bridge's included.

Hard behaviours: pruning against an incumbent that later changes; engines that
answer wrongly on badly scaled data and the gates behind them; five return
codes of a recursion that mean different things in three modes; solutions
already printed when an engine gives up; a box that is not the model; rows
written with bounds that change afterwards; reductions undone in the wrong
order; statuses that name bounds of an earlier call; numbers that overflow or
wrap; limits, stops and failures at every step; longjmp across arena scopes and
armed deadlines.  They are listed one by one, each at its line, under `hazards`
in PROJECT.json.

## 2. Modules

| module | models | role |
|---|---|---|
| BranchBound | src/mip.c, mip_solve | the detailed search |
| MipPromise | src/mip.h | what a caller of a solver may rely on, without any search |
| MipCli | tools/mipsolve.c, src/cert.c | EXTENDS BranchBound; what is printed |
| ErrArena | src/err.c, err.h | frames and arenas of one thread, with a contract-keeping host |
| WebBridge | tools/psolve_web.c | EXTENDS ErrArena; a host that calls the bridge |
| CpSearch | src/fz_cp.inc | the finite-domain search |
| OrbitFacts | src/fz_cp.inc, fg_facts and fg_fact | the memo of functional-graph facts, and the facts from their definition |
| CpPropagators | src/fz_cp.inc | EXTENDS OrbitFacts; the eighteen propagators and the loop that runs them |
| FznSolve | src/fzn.c, tools/fznsolve.c | EXTENDS CpSearch; the ladder and the line printed |
| BigM | src/fzn.c, add_int_ne, _reif, _imp | the rows of the exact big-M gates, as constants |
| LinearRows | src/fzn.c, Lin and Builder | EXTENDS BigM; forms, rows and the points they describe |
| RowHandlers, GlobalRows | src/fzn.c, handle_constraint | EXTENDS LinearRows; one operator per constraint family |
| FznMeaning | the MiniZinc standard library | the reference semantics of the same families |
| CspProbe | src/fzn.c, csp_* | the small backtracking solver |
| FznRows | src/fzn.c, fz_solve | EXTENDS all of these; boxes, rows, probe, MIP, downgrades |
| LpCert | src/cert.c, LP lanes | the checks of a point, a Farkas ray, an unbounded ray |
| Presolve | src/presolve.c | EXTENDS LpCert; the scans, the records, the three replays |
| LpCli | src/main.c | EXTENDS Presolve; the ladder of attempts |
| WarmSimplex | src/solver.c, solver.h | the simplex and its incremental interface |
| FxArith | src/fx_core.inc | fractions of machine words |
| ExactSimplex | src/fx.c, fx_core.inc | EXTENDS FxArith; two tableaux, narrow then wide |
| QpSolve | src/qp.c, tools/qpsolve.c, cert.c | gate, start, active set, printed line |
| PgsFixed | src/pgs_fixed.c | the fixed-point sweep |
| MipProofs, FznProofs, CpProofs, WarmProofs, QpProofs, PgsProofs | -- | theorems about the module of that name |
| FrontProofs | -- | theorems about the two fronts: frames, arenas and the bridge, and the LP command line with presolve |
| SumFacts | -- | lemmas about sums over finite sets |
| MC_* | -- | small instances for TLC |

Both BranchBound and CpSearch implement MipPromise (`ImplementsPromise`, a
refinement checked by TLC and proved for both).  Modules that theorems are about
use recursive functions and folds, never RECURSIVE operators.

### BranchBound

A model is a record: bounds, the set `feas` of integer-feasible lattice points
and their objective values (so rows and matrix are abstracted to the set they
cut out), the flags of mip.h, and what the engines see of it: whether the root
relaxation is unbounded, whether the data fit the exact simplex, whether the
exposure gate considers them shaky.  The open nodes are a set, and `Heads` are
the nodes no other precedes (the list of the code is kept sorted by push_node).
`pc` follows the loop body: `loop` (limit, stop, pop), `relax`, `round`,
`branch`, `finish`.  One action per way through each part:

* RootTighten stands for bound rounding and fbbt_tighten, as *any* box between
  the model's and the hull of its feasible points; RootInfeasible for the
  refutation at the root.
* The relaxation's answer is drawn from `Verdicts`.  The double simplex may
  fail in each way it can, and on shaky data may call a feasible box
  infeasible; `Arbitrated` is the path such a claim takes through the Farkas
  check, the exact re-solve (which may overflow) and the exposure gate.
* An optimal relaxation is either integral (then it is a best point of the box)
  or fractional with *any* objective of `values` that no point of the box
  beats.  RelaxSolved moves best_bound and prunes by the gap.
* RoundingHeuristic, BranchFractional, EnumerationSplit, IntegralLeaf, Finish
  are the remaining branches of the loop body and the epilogue.

`nodes` is bounded by the model's node_limit, which is a field of mip.h and not
an artefact.  LoopStop may fire at every iteration: psolve_stop can.

### MipCli

The statuses of mip_solve through `ReportPoint`, `ReportInfeasible`, ... with
the checks of cert.c: the point and directional coherence against best_bound,
and the exhaustion stamp (nodes below the limit).

### ErrArena and WebBridge

The thread's frame chain is a pointer (`psv_frame_top`) and a `prev` field, as
in the code.  The host program is a call stack; each of its functions may push
a frame, fail, recover in a handler, use and end arenas, allocate, resize and
free, as err.h allows: handlers do not pop, and an arena is used in the body of a
try or with no try around, since a longjmp ends none.  A block may be resized or
freed under any arena, and more arenas may be used than the stack holds: err.h
forbids neither.  Memory is counted in units of the alignment, with one unit of
header per block; a block may be empty.  Where libc is handed memory of an arena
the program has no further behaviour (`ended` is "undefined").

WebBridge puts calls of the bridge on the same stack, as entries without a
frame: a call lasts until it returns or a failure unwinds past it.  Its state
is what psolve_web.c keeps in globals: `g_deadline`, the stop slot and whether
it is the bridge's own, the arena, the certificate.  Inside a call the solvers
allocate, free and fail as they like.  What the host asked for is kept beside
it in ghosts: `direct` (it set a budget outside any call and has not disarmed
it), `asked` (it has asked for a budget) and `hook` (it installed a callback of
its own).  The one restriction is the comment's at psw_set_time_budget_ms: a
host stops solves by budgets or by a callback, not both.  Handlers may call the
bridge again without disarming anything.  The high-water mark, the residual and
the Phase-I policy are only passed on and not modelled.

### CpSearch

A model is its declared domains, its solutions, the objective and what is
printed of a solution.  cp_propagate is *any* contraction that keeps the
solutions of the box, a refutation of a box without solutions, or a failure;
this is the contract stated at the head of fz_cp.inc, assumed here; CpPropagators
asks which propagators keep it.  The recursion is an
explicit stack whose frames hold the caller's copy of the domains and the
values left to try; `ret` is the integer the call returned.  The incumbent cut
(Cut: `Hopeless`, `Winning`), the smallest-domain branching, the leaf with its
verification, the loop over values (Pop), the unwinding of a solution, a cap or
a failure (Unwind) and the conclusions (Answer, FallBack) are one action each.

### CpPropagators, OrbitFacts

A problem is a list of constraints, the declared domains and one table for the
orbit constraints.  `dom` holds the domains of a node, each a set of values
with the flag `listed` (the code's `vals` pointer is set); `at` is the
constraint whose turn it is, `changed` is what cp_propagate sees of
CP.mutations, `root` the domains the call was given, `facts` the memo that
every orbit constraint of the solve shares.  There is one action per kind of
constraint; each runs the whole propagator on `dom`.  A failed propagator
leaves `Dead`, and one that reads the list of a fixed variable without a list
(cp_term_value) leaves `Crashed`.  NextPass is the end of a pass, BoundChain is
cp_bound_diophantine, and Branch the next call the search makes: some unfixed
listed variable takes one of its values (at a leaf the search reads no list, it
asks cp_verify).  *Which* variable is the search's
business and left open here.

Arithmetic is on words of a width: `Wrap` is the narrowing of an exact 128-bit
sum to int64_t, `ToWord` what a double out of range becomes.  Doubles are exact
otherwise, 128-bit sums do not overflow, and the pass cap of cp_propagate, which
no problem of this size meets, is not modelled.  `Satisfies` is cp_verify.

### FznSolve

CpSearch's state and the ladder's: `lane` says who is working, `answer` is
FZSolution.x, `seen` the bridge's own deduplication context, `word` the last
line printed.  The MIP bridge is abstract: it enters nodes, hands out solutions
of the clamped box (`InBox`), may be cut, and ends with what MipPromise allows,
so an optimum is one within mip_gap (`WithinGap`, fzn.c:4149), not an exact one;
fz_solve's downgrades (objective at the synthetic bound, infeasibility of a
clamped box) and the exhaustion stamp of fznsolve's main follow.  Alarm may
raise the stop at any step, and Fail (psolve_fail, main's setjmp) may end the
run at any step before the printing.  Integer models; -a only of satisfaction
problems.

### BigM, LinearRows, RowHandlers, GlobalRows, FznMeaning

handle_constraint is a function from a constraint and the Builder to the
Builder afterwards, and is modelled as one: a builder is a record of columns
(boxes), rows and the "exact" flag, and each constraint family is an operator
`builder x constraint -> builder`.  BigM has the gates -- the lattice step below
and above zero of a form, the rows of add_int_ne, add_int_reif and add_int_imp
with the constants they compute from the bounds -- so that they can be proved
about by themselves.  LinearRows has the forms (fz_as_form, lin_merge,
lin_bounds, the lattice steps), the columns and rows of Builder, and `Points`, the
assignments of the model's variables that some choice of the others extends to a
solution of the rows.  RowHandlers and GlobalRows are the two halves of
handle_constraint, comparisons and arithmetic first, global constraints after.

Coefficients and constants count fractions 1/One, so that a constant may fall
between two integers, which is where the steps of a gate are wrong if anywhere;
variables take integer values.  A constraint has a family, a relation, a mode
(plain, reified, implied) and arguments; the strings of FlatZinc, the lookup of
parameters and the arrays behind names are resolved before.

FznMeaning says what each family means, by the MiniZinc standard library (an
external reference: these are library predicates) and never looks at bounds,
rows or fresh variables.

### CspProbe, FznRows

CspProbe is the little backtracking solver fz_solve tries before the MIP:
which constraints it takes (`Taken`), its propagation over bit masks and
one node of its search.  FznRows runs them in order: the declared boxes, the
constraints *last one of the file first* (the list is built by prepending), one
action per group of families (HandleRelation, HandleArithmetic, HandleGraph,
...); when one is refused, Guess (csp_try_nonlinear, which looks for variables
named x and y and the constant of a product) or, failing that, Unhandled; Probe
and its nodes (csp_dfs, and GiveUp at the node limit, which may be any node),
Translate, and Found, Infeasible or Limit with the two downgrades of the answer:
the objective at the edge of the synthetic box, and an infeasible box that is
not the model.  The MIP is what BranchBound shows of it: a point of the rows
that none beats by more than the gap, or no point, or a limit.  The ghost
`early` remembers the variables a row was written of while they were free.
Integer models; the engine has declined.

### LpCert, Presolve, LpCli

Numbers are integers counting 1/U; products stay in 1/U^2, so no comparison is
rounded and the grace margins of cert.c, which only absorb rounding, are zero.
LpCert has the three checks (a point, a Farkas ray, an unbounded ray).

Presolve keeps the state of the C function -- columns with bounds and status,
rows, the stack of records -- and has one action per iteration of a scan: a row
dropped, folded into a bound, found infeasible, or doubled up; a column fixed,
substituted, absorbed as a slack, left alone.  The three budgets (passes,
nonzero growth, snapshots) and every infeasible exit and decline are there.  A
fold of a bound rounds outward to the grid as the code rounds to doubles; the
rest is exact on the grid.  The three replays, of points, rays and duals, are
folds over the stack from its end.

LpCli is main.c's ladder around it: the list of attempts an option setting
allows, presolve, an engine, the replay, the certificate, the retry with rawer
data or the degraded print.  The engine is *open*: it returns evidence that the
checks of its own reduced model confirm, evidence they refuse, or none; so what
is shown is that the ladder is right whatever the simplex does.  StopArrives may
raise the stop anywhere.

### WarmSimplex

One variable `s` is the solver's struct: the program, the basis, its inverse,
statuses, bounds and values of all columns (variables, split halves, slacks,
artificials), the evidence and the flags that survive a call; `asked` and
`changed` are the reference's view.  Rows are integer and totally unimodular, so
pivots are 1 or -1 and all arithmetic is exact in integers.  Values and inverse
are *kept*, updated and recomputed where the code does so, which is what makes a
stale status visible.  The data a caller may give are stated in
SimplexAssumption: rows of any number and length that are `Unimodular`, alone
and with every row that may be added; bounds that are absent or far below the
token LP_INF (`Small`); data that add up to less than LP_INF (`Modest`), so that
no value of a basic solution is taken for an absent bound.  The entering column is any improving one (steepest edge, the
flat-run switch to Bland), the leaving row of the dual any violated one; bound
flips, ratio ties, Phase I artificials, the fallback from the dual to the
primal, the refresh, the iteration limits and the stop are actions.
Equilibration, tolerances, the exits after long plateaus, the dense retry and
numerical failures are left out.  Truth is enumerated over `Window`, which
contains every vertex of the instances.

### FxArith, ExactSimplex

Numbers are fractions of machine words.  FxArith has the operations of
fx_core.inc at both widths -- the narrow core that computes in the wide type and
reduces, the wide one that cross-reduces and checks every product -- with `Lost`
for the sticky overflow, and the ghost flag `wrapped` for the one operation the
code does not check, negating the lowest word.  ExactSimplex runs the tableau
in the narrow core and again from the start in the wide one: shifting and
mirroring of variables, bound rows, slacks, artificials, Phase I, driving out,
Phase II with the switch from the largest coefficient to Bland's rule, the
iteration limit, the report.  Reading and formatting of decimals are left out,
and a failed allocation ends the solve like a lost number.

This module was also compared with the C code itself, built with words of 8 and
16 bits: on 1909 programs and both entry points the verdicts and points agree.

### QpSolve

The convexity gate (qp_solve's scan, qp.c:1090-1144, a pivoted elimination), the ladder that finds a
start (the given point, the dense search, the LP route, the Farkas proof), the
active-set loop with its multipliers, the stop, and what qpsolve prints through
the checks of cert.c, in exact rationals.  What rounding may do is a choice: a
KKT system may fail (KktFails), an iterate may diverge (Diverged), a search may
return with nothing.  A singular system regularized by a small multiple of the
identity is taken in the limit: a step to `Far`, clipped by the rows.  The
answers were compared with the program's on 162 instances in both orders of the
searches.

### PgsFixed

One action is the update of one variable: the sum in a double word, the rounded
division, the relaxation, the projection, the saturation, and the running
maximum of the differences on which convergence is decided.  Sums wrap in the
double word and differences in the word, as the code's do; boxes are any.

## 3. Runs

| run | what it shows | instance |
|---|---|---|
| mip | the search loses nothing, its verdicts, bound and enumeration are what they claim, it keeps MipPromise; mipsolve prints only what the model backs and never demotes an honest point; both end | the search alone: two variables over a 2x3 box, feasible sets cut out by small rows (empty, singleton, ragged, full); both senses, satisfaction, enumeration, collection; shaky, unrepresentable and unbounded data under a limit of three nodes; gap 1/4.  The search inside its driver: 0/1 knapsacks and an empty model, limit three |
| web | failures land in live tries, blocks never overlap, and no call of the bridge decides about another | two frames, two arenas of four units, up to three in use over a stack of two, empty blocks and blocks of two units, two QPs; a host that uses err.h itself and one that calls the bridge |
| arena | *violated*: libc is handed memory of an arena, section 6 | the same |
| fzn | the engine alone (nothing pruned, exact answers, the promise) and the ladder around it (the printed line, termination) | every set of solutions of the unit square in every mode with two objectives, a domain too wide to list, models for each rung of the ladder: declared, undeclared with a value past the clamp, products; cap of five nodes; gap 1/4 |
| props | every propagator keeps the solutions, the fixpoint decides, all_different is arc consistent, the memo is exact, each call returns | about six thousand problems: each kind of constraint over lists with and without holes, intervals, fixed operands and constants, alone and beside a second constraint |
| rows | rows and probe describe exactly the solutions; the report is true, an optimum to the gap | every family in every relation and gate; constants, halves, free variables, gapped sets; pairs of constraints; boxes that grow past the clamp after rows were written, extrema written from one side, refused products with and without a guess; gap 1/4 |
| lp | presolve loses no point, the replays restore points, duals and evidence, one true verdict is printed | every pair of small rows over two columns, and programs chosen for chains, doubletons, infeasible exits and each budget; four option settings |
| warm | statuses, points, values and evidence are the truth about the program as it stands | every sequence of six calls on five programs of two columns and up to four rows, objectives and boxes that move under the basis |
| fx | every verdict, in either core, is the truth; the tableau stays canonical; Bland's rule ends cycles | almost two thousand programs on words of 7 and 14 bits, through both entry points, and a program on which the largest coefficient cycles |
| qp | the printed line is true, the working set independent and active, steps descend, a line is printed | definite, singular and linear objectives, rows that leave a vertex, a ray, an edge or nothing; both orders of the searches |
| qp_gate | *violated*: the convexity gate accepts an indefinite matrix, section 6 | those of qp, diag(0, -1) and a matrix of three variables that the elimination turns into one like it |
| pgs | no update raises the objective, status 0 is convergence | words of five bits, one and two variables, every kind of coupling, relaxation and tolerance, boxes up to the whole word |

Sizes range from 5,886 distinct states (rows, where one state is a whole
constraint handled) to two million (web); each run takes at most three minutes.

The properties worth reading first:

* `NothingLost` (mip) and `NothingPruned` (fzn): while the search runs every
  feasible point is still ahead, handed out, or beaten by (within the gap of)
  the incumbent *of now*, although boxes were dropped against older ones.
  Everything said of final verdicts rests on these two.
* `InfeasibleIsProof`, `AnswersAreExact`, `PrintedVerdictIsReal`: the dangerous
  direction, in the search, in the engine and in the line printed; in fznsolve
  UNSATISFIABLE is about the model, while an optimum or a complete enumeration
  is about the clamped box, and about the model only without clamped variables;
  and an optimum that the bridge proved is one within the gap.
* `ReportIsReal` (rows): the same of the bridge's report with the rows themselves
  in the model.  Its parts name what they except, each an item of section 7: the
  solutions lost when a box grows past the clamp, the guess of
  csp_try_nonlinear, and an extremum that the gap leaves off its value.
* `OptimalWithinGap`, `BestBoundDominates`: within the gap in mip_solve.
* `EnumerationExact`: each solution once, all of them when the search says it is
  complete, because the splits really partition the box (`TreeIsAPartition`).
* `KeepsSolutions`, `FixpointDecides`: what the propagators and the Diophantine
  bound removed, over all passes and all branches, no solution of the node
  needed; a leaf they let through, every variable with one value on its list,
  satisfies every constraint; and matching, residual graph and components of
  cp_prop_alldiff together remove exactly the unsupported values
  (`AllDiffIsConsistent`).
* `FactsExact`: the memo, filled in whatever order constraints and branches ask,
  with walks that end in earlier walks, agrees with the definition.
* `TranslationIsExact`: after each constraint the rows admit exactly the
  assignments every constraint handled so far means (`RowsExact`), and the probe
  loses none (`ProbeLosesNothing`): fresh variables, big-M constants and lattice
  steps against the definition.
* `NothingLost` (lp): a point of the original program is, on the columns that
  are left, a point of the reduced one, at every step of every pass.
  `ReplayRestores`: *every* point of the original program on the grid, cut down
  to the columns that are left, is restored by the replay of the records, at every
  step; and *every* dual vector of the reduced program, not the one an engine would
  return, is replayed without needing a dual that is not known yet and prices out,
  on the original data, each column that a doubleton row eliminated.  It checks as
  well that the reductions (`ExactHere`) and the prices (`ExactDuals`) are exact in
  the programs of the run.  `EvidenceTransfers`: the certificate check
  on raw data accepts what the reduced model's check accepted.
* `PrintedIsReal` (lp): with an engine that may return anything, the one status
  line printed is true of the model as it was read.
* `WarmIsExact`: whatever was set, added and solved before, and however those
  solves ended, the next solve's verdict is the truth.  `StandsOnBounds`: at
  every step of it no parked column is at a bound that has moved away.
* `EvidenceRefutes`: ray or dual left behind proves *this* verdict, not one of
  an earlier call.
* `VerdictIsExact`: overflow at any of its hundreds of operations ends in the
  wider core or in "declined", never in a verdict.
* `NothingLeaksBetweenCalls`, `ChainIsCallStack`, `BlocksDisjoint`: whatever
  order of failures, handlers and returns, the next failure lands in the innermost
  try that is still running; blocks never overlap; and what a call leaves behind,
  also one that a failure cut off, neither decides the budget passed to the next
  nor touches the host's own callback nor passes for the next one's certificate.
* `StepsDescend`, `UpdatesDescend`: what makes the iterations of qp.c and of
  pgs_fixed.c end: no step, rounded, clipped or saturated, climbs.

Deadlock is not checked (`CHECK_DEADLOCK FALSE`) where a program stops: those
models have no step after the verdict, the printed line or the exit.  It is
checked in `lp`, where `Exited` is the stutter after main's return: the
ladder never hangs between two attempts.

Four configurations are kept beside the runs, each of one property that does
not hold, to reproduce what section 7 says: ExactSimplex_lowest, FznRows_clamp,
WarmSimplex_cold and WebBridge_budget.

### Bounds, and why they are enough

* Two integer variables: the interactions of a search are between one box and
  one incumbent, and between two children of a split; two variables give
  branching below branching, a fixed next to an unfixed variable, and boxes
  whose bound order differs from their position order.  Ranges of two and three
  values put the split point on the edge and inside.
* `values`, the fractional objectives: chosen below, between and above the
  integer values, with values that the gap merges, so that every outcome of the
  prune occurs.
* Node limits of three (MIP_NODES, mip.h's node_limit) and a cap of five
  (CP_MAXNODES): they fire at the root, below it, with and without an incumbent,
  with and without printed solutions; the models with room (limit 20) never
  reach theirs, which `TreeIsAPartition` explains.
* Two frames and two arenas: a failure inside a handler inside a try, one arena
  under another, both orders of end.  An arena of four units (Cap) fits a block of
  two units beside an empty one, or two empty ones, and is exhausted by the next;
  HostNest = 3 uses more arenas than the stack of MaxNest = 2 holds, so that a use
  is dropped; MaxBlocks = 2 blocks are enough to overlap.
* CP_MAXVALS = 2 (fzn): domains of two values are listed, of three are not.
  FznSolve's clamp: value 8 is on the synthetic bound, 9 outside it.
* Propagators: three variables, so that every operand of a ternary constraint
  can be free, fixed or shared; lists of up to CP_MAXVALS = 4 values, domains of
  five and six stay intervals and become lists as they shrink; words of nine
  bits (MaxWord = 255), which the undeclared variables (all words) fill;
  DIVISORS = 16, more than any product needs.  The instances of `props` leave
  out what section 7 shows to break the contract: even powers of a base across
  zero, products with a shared factor of different results, negative fixed
  factors of unlisted domains, and undeclared variables under linear, abs and
  pow.  The interval that shrinks to one value without getting a list is in, in
  both orders: read in the same pass it ends in the verdict "crash", which no
  property excludes, and otherwise it reaches the leaf.
* Rows: One = 2 puts constants on and between integers; EXACT = 1000
  stands for 2^53, the largest exact coefficient, BIG = 6 for the clamp of a
  free variable (FZ_BIG_BOUND) and WIDE = 9 is as far as the reference lets it
  go, so that values lie on both sides of the clamp; SELECTORS = 32, WIDTH = 8
  and PASSES = 8 stand for the limits of selector variables (64 to 4096), probe
  domains (64) and propagation rounds (200).  A gap of 1/4, here as in fzn and
  mip, reaches the next integer objective from 3 on, so that optima differ from
  what may be printed.  Of what section 7 lists, the clamp, the guess and the
  one-sided extremum are in; the instances leave out encodings that are wrong
  for a single constraint.
* LP: U = 120 is divisible by every coefficient the instances divide by;
  Inf = 120000 is the code's 1e30; PassCap 3, NnzGrowth 2 and SnapCap 7 fire on
  programs of this size.  Points are checked over `Grid` (integers -1..3 and
  halves in 0..1), dual vectors over `DualGrid` (-2..2 and halves): the
  reductions are affine, so a point that goes wrong goes wrong near a vertex.
* WarmSimplex: six calls are two full solves with three changes in between, or
  the reverse; up to two rows are added (MaxRows); pivot limits of 20, never
  met, and 1, always met; Window = -3..6 contains all boxes and right-hand sides
  of the instances, LP_INF = 1000 stands for infinity.
* ExactSimplex: Width = 7 (narrow) makes the products of two-digit data
  overflow, Large = 31 puts data next to the end of the word; ITER_BASE and
  ITER_STEP are the iteration limit of the code scaled down.  The data are as
  fx_read admits them: a finite bound per variable, l <= u.
* QP: n = 2 gives every rank of Q and of the working set; three for the gate,
  whose elimination needs two steps to go wrong; DenseLimit 4, Boxes 2 and
  IterCap 7 are the code's limits scaled to be met; Far, Huge and Span are the
  sizes of a regularized step, of divergence and of the flat directions looked
  for; the properties try points and directions over Scalars = -3..3, which in
  the theorems are all integers.
* PGS: words of five bits (Half = 16), boxes from a single value to the whole
  word, where a difference of two iterates wraps; data within the contract the
  theorems assume (CallsKeepTheContract).

### Fairness

All drivers run one sequential program: an enabled step is taken, so weak
fairness on the next-state relation is what the operating system gives it
(`FairSpec` of BranchBound, `FairCliSpec`).  FznSpec asks it of `Work` only, the
program's own steps: the alarm and a failure are never required to happen, and
runs must end without them and with them.  QpSolve and CpPropagators likewise
ask it of the program's steps, with ENABLED written out: a call of
cp_propagate that has begun goes on, while the search need not call again, and
qpsolve works until it has printed.

## 4. What is proved

TLAPS checks the following for every value of the constants under the named
assumptions, which TLC evaluates on the runs' instances.

**Branch and bound and mipsolve** (MipProofs), for every set of
variables, set of models, bounds, objective and gap with 0 <= GapNum <= GapDen
(MIPsAssumption, GapAssumption, NoPointAssumption):

* `TypeCorrect`: TypeOK, together with RelaxInv, which it needs: a relaxation's
  base must stay inside the box for its children to be boxes.
* `SearchCorrect`: the inductive invariant `SearchInv`, and from it
  `SearchLosesNothing`, `ProvenOptimumIsWithinGap`, `InfeasibleIsProven`,
  `TruncationIsHonest`, `ReportedBoundDominates`, the action property
  `IncumbentOnlyImproves`, and `SearchImplementsPromise`: every step of the
  search is a Find, an Answer or a stutter of MipPromise.
* `TreeCorrect` and `EnumerationIsExact`, for any *finite* number of variables:
  the live boxes are a partition, the tree has at most twice as many nodes as
  the model's box has points, less one, and an enumeration hands each solution
  out once, all of them when it ends unlimited.
* `PrintedWordsFollow`: what mipsolve prints follows the model in both
  directions; in particular the evidence check never demotes a point the search
  stands by, and the exhaustion stamp is printed only of an exhausted search.

None of the properties is inductive as it stands.  NothingLost needs to know
that what was handed out does not beat the incumbent (EmittedInv), that a
relaxation being processed bounds its box (RelaxInv), and that nothing has been
concluded before the loop ends (PhaseInv).  That a box pruned within the gap of
an *old* incumbent stays accounted for is the one real argument: with gap
g <= 1 the threshold v + g(1 + |v|) moves monotonically with v, so a better
incumbent only tightens what is within its gap (`GapSurvives`); this is why
GapAssumption asks GapNum <= GapDen, and it would fail for a larger gap.  The
verdicts then need that an exhausted loop leaves no point open (ExhaustedInv),
that best_bound already dominates whenever there is an incumbent (BoundInv,
which needs that the first node is alone and that no node follows an unbounded
root, RootInv).  Each part has one lemma, each lemma one step per action.

EnumerationExact needs `TreeInv` beside SearchInv: a relaxation's base lies in
its box, below the upper side where it is fractional (BaseInv), so that both
children are non-empty; live boxes are non-empty parts of the model's box and
pairwise `Apart` (BoxesInv); nothing handed out lies in a live box (FreshInv);
and a count (CountInv): the nodes popped, plus two for each point of a live box,
less one for each live box -- counted by its lower corner -- and one for the
node in progress, never exceed 2 |Lattice| - 1, because a drop loses a corner
and its points while a split adds one corner and no point.  `LiveStep` reduces
every action to the five ways the live boxes change, and the parts are proved
of those; `BoxFinite` is where the number of variables must be finite.

PrintedWordsFollow needs two more parts (CliInv): a search that ends with a
point's status holds a point (PointInv), and the word is chosen once, from the
final status (WordInv).  The one argument is `IncumbentIsCertified`: best_bound
dominates the incumbent (BoundInv), so the directional check accepts it.

**Finite-domain engine** (FznProofs), for every set of models, every sound
propagation, cap and branching order (CSPsAssumption, NoPointAssumption):

* `EngineCorrect`: the inductive invariant `EngineInv`, and from it
  `SearchPrunesNothing`, `EngineAnswersExactly` and `EngineImplementsPromise`.

EngineInv is TypeOK, where the search stands (TryInv, NodeInv, ModeInv), what
the integer a call returned means (ReturnInv), NothingPruned and
AnswersAreExact.  The engine never holds its open boxes in one place: they are
the caller's copies on the recursion's stack and the values each frame has left.
NothingPruned says every solution still needed is in the current node or below
some frame; that a step keeps it is one lemma per way a box shrinks
(`TryFacts`, `ContractionFacts`, `CutFacts`, `LeafKeeps`), and for the frames a
step leaves alone it is the frame's own part.  The answers follow from
NothingPruned with an empty stack, plus ReturnInv for the code that emptied it.

**Orbit memo** (CpProofs), for every set of problems, whose tables are of any
size and shape (ProblemsAssumption: a table over 0..n-1 into itself, which the
loader of the constraint checks):

* `MemoIsExact`: each fact in the memo is true, at every moment of the run.
* `CallIsTruthful`: what one call of fg_facts does for it.

The inductive invariant MemoInv adds that the memo is closed under the table: a
walk may stop at a known state only because everything behind that state is
known as well.  `WalkRepeats` (pigeonhole) ends the loop; before the point where
the walk stops no state leads back to itself (`NoReturn`), so each fact is one
more than the next (`FactStep`), and from there on it goes round the cycle
(`RingFacts`), whose length is the distance of the two visits.  Iterate and
Learn are recursive functions, whose solutions are shown to exist
(`WalkExists`, `LearnExists`) before anything is said about them.

**The contract of propagation** (CpProofs), for every finite set of variables,
every set of problems, list length, divisor room and word of at least one bit:

* `PropagatorsKeepSolutions`: while the problem is Tame, KeepsSolutions holds at
  every moment, from the Diophantine step through every pass to every branch.

A box is Good for a set of points if it holds all of them within the declared
values (and the 0 and 1 that reification writes).  Each propagator has a lemma
that it maps Good boxes to Good boxes for the points of its constraint
(`LinKeeps`, `AllDiffKeeps`, `ElemKeeps`, ...; together `PropagatorKeeps` and
`OrbitStepKeeps`), and none asks in what order or after what it runs.  The parts
that need thought: a solution is itself a matching, so pruning by matchings keeps
it (`MatchingKept`); the rounded quotients of lin are exact because every sum
fits a word (`SumsFit`, `BoundsAre`); a factor of C is among the listed divisors
(`DivisorsListed`), and the chain of linked products closes on the products of
that same C (`ClosedAtOnce`, `BoundChainKeeps`).  KeepInv says that the domains
are Good for the solutions within the root, and contains MemoInv: an orbit
propagator is as right as the facts it reads.

Tame is stated of the declared domains only: records of the kind that the engine
posts; linear sums, products and powers within a word; factors and bases of
powers not negative; the divisors of a product within the room of cp_divisors
(in the code 1024); inputs of a conjunction 0 or 1; the least word out of reach
of abs; no division by zero; a capped orbit with a cap of at least 1; and a
product that shares a variable with one fixed to C, not 0, fixed to C as well.
Apart from the record shapes these are the limits of the code that section 7
lists.  The theorem says nothing of problems beyond them, some of which the code
does solve rightly: TameAssumption of MC_CpPropagators has TLC count that 4197 of
the 4300 problems of the props run are Tame, every kind of constraint among
them, and that the problems EvenPower and TwoProducts, whose solutions the code
loses, are not.  For the other 103, with products of negative numbers or of many
divisors, KeepsSolutions is model-checked.

**What a fixpoint decides** (CpProofs), for the same sets of problems:

* `FixpointIsConsistent`: while the problem is Tame, AllDiffIsConsistent.
* `FixpointIsDecided`: while it is Decidable, FixpointDecides: when propagation
  ends with one value left to every variable, on its list, cp_verify accepts that
  point, whatever the constraints are and however the search came there.

DecideInv adds to KeepInv that in a pass that has counted no write so far, every
constraint before `at` is Settled: satisfied if the domains are a leaf, and
consistent if it is an all_different.  That survives the later turns of the pass
only because CP.mutations sees enough.  It misses removals from an interval; a turn
that counted nothing may still have changed domains, but it is Frozen: the lists
are what they were, and if everything has one value on a list, nothing moved
(`QuietTurn`, from `RemovesIsBelow`: every propagator whose removals may be missed
only narrows).  Within cp_prop_alldiff the same argument goes through its rounds:
the domains it passes through lie between those it was given and those it leaves
(`ChainIsBelow`, `Between`), so lists equal at the ends were equal all along, and
its first round found every value supported (`AllDiffIs`, `SupportedIsUsed`).  At
a leaf each propagator accepts the point or fails (`LeafSteps`; `LinDecides`,
`ElemDecides`, ..., together `PropagatorDecides` and `OrbitDecides`; the latter
again needs the truth of the memo).

Decidable is Tame and, of the records: no two equal constants in one
all_different (cp_prop_alldiff never compares constants; cp_verify does), the
truth value of a reification a variable declared 0..1, and an integer
divisor.  TameAssumption also has TLC find every one of the 4197 Tame problems
Decidable.

**The ladder of fznsolve** (FznProofs), for every set of models, cap and node
limit (also BridgeAssumption of FznSolve):

* `LadderCorrect`: the inductive invariant `FznInv`, and from it
  `PrintedLinesAreReal` -- a printed UNSATISFIABLE is true of the model, a
  complete enumeration of the clamped box, and a printed optimum is one of the
  clamped box: no point of it is better if the engine proved it, none by more
  than mip_gap if the bridge did -- and `BoundedOptimaAreReal`: where every
  variable has declared bounds, the same of the solutions of the model.

FznInv carries EngineInv as long as the finite-domain engine has the word
(LadderInv), what a status means once any engine has set it (VerdictInv), and
that what the bridge remembers as handed out was printed, which lets an empty
enumeration be told from an exhausted one.  An answer of the engine is what
AnswersAreExact says; one of the bridge is MipPromise's, within the gap that
fz_solve sets, after the downgrades.

**Error frames, arenas and the bridge** (FrontProofs), for any number of frames,
arenas and blocks (MemoryAssumption, HostAssumption, NoneAssumption,
BridgeAssumption):

* `FailuresLandInLiveTries`: the chain psolve_fail unwinds is exactly the host's
  running tries, innermost first; `PopsNeverAbort`: the abort in
  psolve_frame_pop is unreachable for a host that keeps the contract.
* `BlocksNeverOverlap`: the blocks the host holds, with their headers, are
  disjoint and inside their buffers, across nested and dropped uses, moves,
  resets, failed requests and failures.
* `CallsFailIntoLiveTries`, `CallsNeverOverlap`: the same two with calls of the
  bridge on the stack, and `ArenaOutlivesCalls`: between calls and inside them
  the arena stack holds what the host armed, whatever failures unwound.
* `NothingLeaks`: a call that was passed a budget runs under a deadline exactly
  when that budget is positive, a host's own callback survives every call, and a
  kept certificate belongs to the last QP refuted -- for every host, its handlers
  disarming or not.

The chain is a linked list and the stack a sequence.  `StackInv` and `ChainInv`
relate them locally -- each frame's `prev` is the nearest frame below it, where
`Encloses` names that frame by a witness -- which every push, return and unwind
disturbs at one end only.  The lemmas (`PushKeeps`, `EnterKeeps`, `ReturnKeeps`,
`WorkKeeps`, `UnwindKeeps`) are stated for stacks over any set of entries, so
that FrontProofs cites them for stacks that also hold calls.  NothingLeaks adds
who owns the stop slot (BudgetInv: the bridge, as long as a deadline is armed, by
whomever and however long ago; and a host with a callback of its own never asked
for one), that a call passed a budget has armed or disarmed it by its own, and
what the kept certificate is of (CertInv).

BlockInv is the allocator's own invariant: a block of an arena lies below its
`used` mark, and two of one arena do not overlap.  It asks nothing of the arena
stack, which a dropped use leaves out of step with the host.  That the stack is
what the host uses (`ArenasNest`) holds for hosts that only call the bridge: its
arena is armed at the base, below every frame and call (BaseInv).  InUse is a
flattening, a recursive function that cannot be unfolded here; `Held` names what
each prefix of the stack holds instead (`HeldIsFlat`).

**Big-M gates** (FznProofs), for all bounds, values and lattice steps:

* `NotEqualExact`, `ReifiedExact` (all six relations), `ImpliedExact`: the rows
  of the three gates, with the constants the code computes from the bounds,
  admit exactly the values the gate means; `LatticeSteps`: on a form with
  integer coefficients and any constant, int_lattice_steps yields the least
  positive and the greatest negative value, which the other three assume.

**LP command line** (FrontProofs), for linear programs over any finite sets of
rows and columns with integer data (IsLp; LpCertAssumption):

* `AcceptedOptimumIsOptimal`, weak duality: no point beats one that
  check_lp_optimal accepts with its duals; `AcceptedRayIsProof`, Farkas: a
  program whose ray check_lp_farkas accepts has no point; `AcceptedRayEscapes`:
  along an accepted unbounded ray every point satisfies the program and gains.
* `PrintedAnswersAreReal`: whatever presolve, engine and ladder do, at most one
  verdict is printed, and OPTIMAL, a proved INFEASIBLE and UNBOUNDED are true of
  the program as it was read.
* `PresolveLosesNothing`, for integer columns (Program) and points within the
  box of finite numbers (GridAssumption): through every reduction, pass, budget
  and exit of presolve, each point of the program is a point of the working image
  with the objective it had, and an infeasible verdict is true.
* `ReplayRestoresPoints`, `ReplayKnowsDuals`, `ReplaysRestore`, under the same
  assumptions and with duals that are numbers (DualGridAssumption): the replay of
  the records, of any number and in any order, restores each point from what is
  left of it, never needs a dual before it is known, and prices out every column
  that a doubleton row eliminated.  ReplaysRestore is all of run lp's
  ReplayRestores.

A certificate is a comparison of sums over rows with sums over columns.  The
three arguments exchange the two sums (`RowsAreColumns`), bound each row's term
by the sign of its clipped multiplier (`RowsBound`) and each column's by its box
(`BoxBounds`).  The ladder's inductive invariant is LadderInv: what the current
attempt's model is, that the last attempt's is the raw one, and that nothing was
printed before it was checked.

Presolve's inductive invariant is PresolveInv: NothingLost itself, on sums over
all columns in which a column that has left adds zero, so that every reduction
changes one or two terms (`ColumnOut`, `TotalsDifferAtTwo`); that no cancelled
entry is left while the rows are scanned, for a bound is divided by the entry;
and that the first scan has not touched the columns ahead of it.  Each reduction
has its lemma about an image (`FoldKeeps`, `RowOutKeeps`, `FixedColumnKeeps`,
`EmptyColumnKeeps`, `SubstituteKeeps`) and one about its action.  The interesting
ones: a fold takes at most one side and reports a conflict only if no point
respects both candidates; the outward rounding of bounds and of row_activity
never crosses a point (`SingletonBounds`, `ActivityBounds`); the implied interval
of a doubleton holds whatever the signs of the two coefficients, also when one
cancelled (`ImpliedIs`); and the substitution shifts a sum by a constant
(`SubstitutionShifts`).  The theorem has one hypothesis besides the steps,
`[]ExactHere`: the products of an empty column, a fixed column and a doubleton,
and the quotients of a doubleton, are exact on the grid, and right-hand sides are
below the model's infinity.  Where one of them is rounded, a point may drift off a
row of the image; the code leaves that to the certificate check on raw data, and
the theorem says that nothing is lost in another way.  Run lp checks ExactHere in every state (within ReplayRestores).

The replays go through a stack of records that is as long as the run made it.
What they compute after undoing the last records down to number t is named by a
witness, which exists because a smallest record without one cannot be
(`ReplayExists`, `ReplayUnfolds`).  ReplayInv adds two things to PresolveInv.
`Undoes`: a record holds what is needed to undo it, for a row or column that has
left was live when its snapshot was taken, and whatever left later is back by then
(`ChainGrows`).  `LeadsBack`, about any duals the replay may be run with: a column that
prices out in the working image prices out on the original data after the replay,
and so does every column that a doubleton row eliminated.  It cannot be said of the
image alone, since the dual of a row that falls is set only when its record is
undone.  So each reduction is shown to lead one image back (`StepBack`, `Backs`):
where the column prices out in the image after the reduction, with the duals of
the replay, it does in the image before, with the dual that undoing this record
adds.  A column that was fixed or empty takes no part in the prices of another
(`ColumnBack`), the dual of a redundant row is zero (`RowBack`), a singleton row
holds its one column (`SingletonBack`), and the pivot of a doubleton row gets the
price that makes its own column's total zero, which is also what the substitution
moved into the partner's column (`FilledPrices`, `PartnerPrices`,
`DoubletonBack`).  Cancelled
entries and their removal change no total (`RebuildPrices`).
ReplaysRestore has one more hypothesis, `[]ExactDuals`: no product or quotient of a
price is rounded.  Where one is, a column prices out up to the rounding, and the
code leaves that to the certificate check on raw data as well.  The run checks it
within ReplayRestores.

**Warm-started simplex** (WarmProofs), for programs with any number of columns
and rows, any objectives, boxes and rows to set or add, any number of calls and
any Window (SimplexAssumption), and callers that warm-solve after a change of
bounds, as mip.c does (~ColdAfterBounds; section 7 has what happens otherwise):

* `SolveStandsOnBounds`: between two pivots of a solve in any lane, every parked
  column sits at the bound its status names, the kept values meet the rows, the
  kept factors invert the basis, and after Phase I no artificial can absorb a
  residual.
* `EvidenceOfSolves`: a Farkas ray, of Phase I or of the dual simplex, refutes
  the program as it was last described; an unbounded ray improves it without
  end; and neither survives into a later verdict it does not prove.
* `SolvesAreExact`: a solve that ends optimal returns a feasible point with the
  value it reports, which no feasible point beats and from which no direction
  escapes; INFEASIBLE means that there is none; UNBOUNDED that the point returned
  is feasible and the ray improves from it.

The inductive invariant is `SolverInv`, the three properties strengthened until
every call keeps them.  StructInv holds at any time, also of a struct that was
left in the middle of Phase I or that waits to be rebuilt: the columns are those
of the equality form (FormInv), the factors are a left *and* a right inverse of
the basis with entries -1, 0 and 1 (BasisInv), the bounds of the columns are the
caller's unless a rebuild is pending (BoxInv), a parked value is one of the
bounds the caller gave *once* (ValuesInv), and the costs priced are those of the
program or of Phase I (CostInv).  RunningInv adds, between pivots, that the
struct stands on its bounds and rows and that there is no evidence yet; `Judged`
says, of an idle struct whose program has not changed since, that its status and
evidence are true, for *all* integer points and directions, of which the run's
Window is a part.  ValuesInv is what repairs need: a value at a bound that has
moved is still nearer to any finite bound than LP_INF is, so Repaired parks it
on a bound that exists (`LowIsFinite`).  The box of an idle struct need not hold
(bounds changed, or l > u), which is why Stands is asked of it only while no
change of bounds is pending.

The argument runs over these lemmas.  A pivot replaces one column of the basis,
and the product form of the inverse stays an inverse on both sides
(`PivotKeepsLeft`, `PivotKeepsRight`); total unimodularity is assumed of [A | I]
and carried to the signed, split and artificial columns (`PlainFacts`), so the
next inverse is again one of -1, 0 and 1.  An entering column defines a direction on which
all rows vanish (`RayIs`), and along it rows keep holding (`RowsAlongRay`); a
bound flip and an exchange are its two ends (`FlippedKeeps`, `ExchangedKeeps`),
and a direction without end is the unbounded ray.  A dual pivot is an exchange
that leaves at the violated bound.  Optimality and both certificates are weak
duality in the caller's variables (`SupportedIsOptimal`, `RefutesBy`): prices
support the point when no column improves, artificial columns and split halves
included; Phase I's prices refute when its optimum is positive; a row of the
inverse refutes when the dual ratio test finds no column.  The cold start, the
warm start with repair, removal of artificials and cold fallback, the cleanup of
Phase I and the three calls that change the program each have a lemma saying that
the invariant holds after them (`SolveFromKeeps`, `AfterPhaseOneKeeps`, `AfterDualKeeps`,
`WithBoundsKeeps`, ...).

**Quadratic programs** (QpProofs), for programs with any number of variables and
rows and integer data (ProgramsAssumption, NumbersAssumption, BoundsAssumption),
where directions are all integer vectors and points all rational ones
(Scalars = Int):

* `GateErrsOnDiagonalsOnly`: what the scan decides.  What it rejects is not
  convex, and what it lets through is convex exactly when none of the diagonals
  it left is negative: the disagreement of section 6 is the only one there is.
* `PrintedLinesAreReal`: whatever the searches, the KKT systems, the iterations
  and the stops did, a line PROVEN means that there is no point, UNBOUNDED that
  there is a descent without end from a feasible point, NON-CONVEX that the
  program is, and SOLUTION, if the program is convex, that no direction improves
  on the feasible point printed; a ray or proof found is never taken back by the
  evidence checks.  `ExactGateMakesLinesReal` discharges the condition from
  GateIsExact.

The gate's argument is `PivotDecides`: one step of the elimination neither hides
nor makes up a direction of negative curvature among the indices left, since the
scaled remainder is the scaled form less a square (`Eliminated`) and a direction
can be completed at the pivot.  GateInv carries the equivalence to the end of
the scan, where `TailRejects` and `TailAccepts` decide it.  The printed lines
rest on `ColumnsMeetRows` (sums by rows and by columns agree), with it on
`OptimalIsUnbeaten` and `RefutedIsEmpty`.  QpTypes has to know that Cramer's
rule gives integers over a positive denominator (`DetInt`, from the equation of
the minors; `PointIsPoint`).

**Fixed-point kernel** (PgsProofs), for every width of word (HalfAssumption),
number of variables and data within the contract of pgs_fixed.h, A symmetric and
no row's sums outside the wide word (InContract):

* `NoUpdateClimbs`: with positive diagonal and no over-relaxation no update
  raises the objective or leaves the box, whatever the others did since.
* `SweepsCorrect`, `ConvergenceIsReal`: status 0 means that in the last sweep
  every variable moved by at most the tolerance, or by at least half the number
  of words, where the recorded difference has wrapped; and where plain
  Gauss-Seidel moved none, none can improve alone.  No assumption on the boxes.

`SumsFit` shows that the wide sums do not wrap under the contract, so that
`StepIsRounded` gets the exact quotient rounded to the nearest word; moving one
variable is a parabola (`MoveIsParabola`), the rounded quotient its nearest
lattice point to the minimum, and what is between a point and that one, or is
clipped on the way, is no higher (`MovesToTheMinimum`, `Blends`).  SweepInv then
says of the variables passed in this sweep what the recorded change bounds
(`MoveIsRecorded`: a move of less than half the words is recorded as it is).

**Sums** (SumFacts).  The library's induction theorems take an operator as
parameter and cannot be used, but a smallest counterexample can be taken from a
well-founded order (`SmallestBad`, `SetInduction`).  With it the sum over a finite set, a
fold of the community modules, is proved to be additive, monotone and
exchangeable with another sum, for any set and any terms.

Only model-checked: of props, KeepsSolutions and FixpointDecides of problems that
are not Tame; the properties of the rows and fx runs; of qp,
StepsDescend and WorkingSetHolds, which need that Cramer's rule solves the
system, a fact about determinants of every size; of lp,
EvidenceTransfers, which compares the sums of two programs whose boxes differ
through the signs of every dual the replay sets; and liveness, which is outside what the prover can do (fairness and
ENABLED).  What a recursive
function over sequences or numbers computes for every input is proved only where
a witness stands in for it, as in Held and ReplayExists.  In the search proofs the numeric content of the engines is assumed
by their verdict sets, and in CpSearch that of the propagators by their
contract, which PropagatorsKeepSolutions proves.

## 5. What is not modelled, and why

* lu.c, splu.c, kernels.c and the floating-point loops of solver.c and pgs.c:
  arithmetic without control state of its own, whose correctness is a matter of
  accuracy.  WarmSimplex, Presolve, LpCert and QpSolve compute exactly, so
  tolerances, equilibration, rounding drift and the exits that only rounding
  triggers are outside; where rounding decides which way the code goes, the
  model leaves the choice open.
* Of fz_cp.inc, the parsing of FlatZinc constraints into its records, the orbit
  rewrites before the search, the choice of the branching variable, and what its
  propagators do when memory or the 128-bit range runs out.
* Of fzn.c, the parser, the float-only LP lane, the printing of arrays, -a with
  an objective; float variables in FznRows.
* The parsers and option tables of the drivers, and file reading: I/O.
* pgsf_batch_solve, a loop over the kernel; the bridge's statistics.
* share/, the test drivers, benchmarks and generators.
* Concurrency: each solve runs on one thread and err.c's state is thread-local;
  the stop flag is the only thing another context writes, and the stop actions
  of the modules raise it at any step.

## 6. Disagreements shown by runs

* **arena** -- err.h:143-146 says that an active arena never sees a libc free on
  arena memory.  in_active_arena (err.c:118) asks whether the block's first byte
  lies in the used part of the *innermost* arena: an empty block at the end of
  the used part does not, so psolve_free hands it to libc.  The run finds this
  one first; a block of an outer arena freed under an inner one, and one freed
  after a use that was dropped (err.c:93), end the same way.
* **qp_gate** -- qp_solve's scan (qp.c:1114) stops when the largest diagonal that is
  left is zero and then looks at the off-diagonals only, so a negative diagonal
  passes as semidefinite: diag(0, -1) is accepted, and so is a 3x3 matrix whose
  elimination leaves one ([[1,1,1],[1,1,1],[1,1,0]]).  qpsolve then prints
  SOLUTION 0 0 for an unbounded program.

The lines are under `findings` in PROJECT.json.

## 7. Observed while modelling

Each item was reproduced with the program unless it says otherwise.  A
configuration or an instance is named where it shows the item.  Where a run of
section 3 includes the case, its property says what it excepts; otherwise the
instances of the run leave the case out.

Search and command line:

* mip.c:785: an unbounded root relaxation is reported as an unbounded program
  also when the program has no integer point (2x - 2y = 1, max x); the comment at
  mip.c:780 is more careful.  `PrintedUnboundedIsUnbounded` of MipCli.
* mipsolve.c:231 prints `best objective: 0` when the limit fires before any
  incumbent: mip.c:684 zeroed the result.
* mip_solve sets proven_optimal for a search that pruned by the relative gap,
  and mipsolve prints OPTIMAL without a bound: a knapsack with optimum 40004 is
  answered OPTIMAL 40003.  docs/DESIGN.md:250 says a gap-stopped result is never
  called an exact optimum.

Errors and arenas:

* err.c:93 drops the use of an arena past PSOLVE_ARENA_MAX_NEST silently, and
  its end still pops the enclosing one (err.h:135 says they nest).  Run web has
  such uses; `ArenasNest` of ErrArena does not hold there, and what is checked
  and proved is that blocks stay disjoint all the same.
* err.c:118: a zero-size block at the end of the used part is not recognised as
  the arena's (err.h:144 says libc never sees arena memory): run arena.
* err.c:118 and 206: ownership is tested against the innermost arena only, so a
  block of an outer arena freed or resized under an inner one goes to libc, by
  the same sentence never; another counterexample to run arena's property.
* err.c:172: a realloc that fails in an arena leaves the caller's pointer set;
  err.h:84 promises NULL.
* err.c:34: psolve_frame_push does not reset the failure code; err.h:59 says it
  does.

WebAssembly bridge:

* psolve_web.c:200, 208, 222: after a failure has jumped out of psw_lp_solve_b
  or psw_qp_solve2, the next psw_lp_solve without a budget is stopped by the old
  deadline, with status 4 and x_out untouched, although nobody gave it one.
  WebBridge_budget.cfg (`BudgetIsTheCalls`).
* The comment at psolve_web.c:148 promises the best incumbent (and status 6); a
  stopped LP returns 4 and leaves x_out unwritten.
* A budget armed for "everything until disarmed" (psolve_web.h:52-54) is disarmed
  by psw_qp_solve, psw_qp_solve2 and psw_lp_solve_b: called with a budget of zero
  or less they disarm it on entry, and with any on return.  The other half of
  `BudgetIsTheCalls`; NothingLeaksBetweenCalls keeps to what does hold, the budget
  that a call itself was passed.
* By reading: g_deadline is global while the stop slot is thread-local; a failed
  solve does not update g_arena_peak, and psw_arena_set does not reset it.

Finite-domain engine:

* fz_cp.inc:2242: the search does not poll psolve_stop (err.h:148 says solvers
  do); with `-t 100` a search ran 5.6 seconds.
* fz_cp.inc:2336: cp_bound_diophantine restricts every variable connected
  through products to the divisors of the first fixed result: x*y = 6, x*z = 4,
  z in 4..5 is refuted although x = 1, y = 6, z = 4 solves it.
* fz_cp.inc:713: cp_prop_pow bounds an even power by the powers of the endpoints
  of its base: x in -3..3, y in 0..4, y = x^2 is refuted.
* fz_cp.inc:268, cp_prop_lin: bounds computed in 128 bits are cut to 64 before
  they are intersected.  Undeclared x, y, z with x + y + z = 0 are refuted.
* fz_cp.inc:594, cp_prop_abs, and cp_prop_pow likewise: the mirror image of an
  undeclared variable's bounds leaves the word.  |x| = c with c in 2..5 and x^2
  = d with d in 4..9 are refuted for an undeclared x.
* fz_cp.inc:471, cp_prop_times: with a fixed negative factor and a domain too
  wide to list, the quotients are not put in order.  -2 * b = c, b in
  -100000..100000, c in 6..100000 is refuted.
* cp_divisors stops at 1024 divisors: x * y = 36756720 with x, y in 5000..7500
  is refuted.
* cp_remove_val can leave an interval of one value without a list, which
  cp_term_value then reads: all_different of the constants 0..65535 and x in
  0..65536 ends in a segmentation fault.  CpPropagators has it as the verdict
  "crash".  Nor does removing an interval's end count as a mutation, so a pass
  that does only that is the last one: with x and y in 1..2 and still intervals,
  x # y before x # 1 and y # 1 ends with x = y = 2, neither on a list.
  FixpointDecides therefore asks for a list of every variable; in the code it is
  cp_verify (fz_cp.inc:2281) that rejects such a leaf, and the search gives up.

FlatZinc ladder:

* fzn.c:4149: the bridge runs mip_solve with mip_gap 1e-4 and prints `==========`
  over what it proved within that gap (docs/DESIGN.md:250 as above).  A knapsack
  of nine items beside a `var float` prints z = 39920 and `==========`; the
  optimum is 39922: a counterexample to `PrintedOptimumIsExact` of FznSolve.
* fzn.c:4077: csp_try_nonlinear solves x^3 y^2 = C for the constant of any
  int_times row and its point is reported without looking at the model:
  int_times(x,y,8) beside a float_times prints x = 2, y = 1.  Run rows has such
  models (`Guess`), and SatIsReal excepts the guessed point.
* fzn.c:894: an undeclared variable outside the objective is clamped unnoticed,
  and an optimum of the clamped box is printed as proven:
  `var int: x; var 0..1: y; x = 2000000000*y; maximize y` prints y = 0 and
  `==========`: a counterexample to `PrintedOptimumIsReal` of FznSolve.
* fzn.c:4154: solutions printed before the engine gives up are printed again by
  the bridge, whose deduplication context is its own.
* An enumeration over a clamped box that exhausts it prints `==========`.
* The exhaustion stamp of cert.c compares with the MIP's limit, also when the
  finite-domain engine, which ignores -n, answered.

Translation into rows (each with a `var float` so that the engine declines):

* fzn.c:4240 (comment fzn.c:4237): constraints are handled last first, so the
  big-M rows of int_le_reif(x,5,b) are written for the clamped box of x, and
  set_in(x,{1000000007}), handled after it, moves the box beyond the clamp and
  marks x bounded, which disables the downgrade: UNSATISFIABLE is printed of a
  model with a solution, which the comment at fzn.c:4233-4238 rules out.  Run
  rows has such models; UnsatIsReal excepts exactly the solutions in which a
  variable lies beyond the clamp that a row was written for before its box grew
  (`Overlooked`).  FznRows_clamp.cfg checks `UnsatIsCertain`, without exception.
* fzn.c:894: objective_uses_synthetic_bound asks whether the point found lies *on*
  the clamp.  With `x - 3y = 2; maximize x` no point does: x = 999999998 and
  `==========` are printed of an unbounded model.  `OffTheClamp` of MC_FznRows;
  OptimumIsReal speaks of solutions within the clamp.  Nor does a point within
  the gap of the clamp lie on it (by the model only).
* fzn.c:2557-2570 with the gap: an extremum written from one side, for the
  objective to close, is left off its value by a search that stops within the
  gap, so the point printed does not satisfy the model though one no worse does
  (by the model only; OptimumIsReal excepts it).
* fzn.c:2557-2570: array_int_maximum as an epigraph while the objective
  minimizes it leaves the maximum free above when another constraint (int_ne)
  bears on it: m = 3 is printed as optimal for a maximum of 2.
* fzn.c:1168: fzn_all_different_int([1,1]) of constants is dropped.
* The probe takes fzn_all_different_int_reif for all_different (strstr); its
  200-round limit may leave a sum wrong; a zero coefficient in a linear
  constraint of two variables divides by zero.
* int_times of Booleans (2006-2014) admits a = b = 0, c = -1;
  array_bool_and([x,x],r) admits x and not r; array_bool_or([r,x],r) forces
  r = x (by reading); alldifferent_except(x,S) ignores S and exempts 0;
  bin_packing's scalar form assumes bins >= 1; float_in_reif encodes only one
  direction; subcircuit of one variable is unconstrained; global_cardinality
  with a repeated cover value forbids it; disjunctive_strict and diffn ignore
  tasks of size zero; count, among and global_cardinality ignore what
  add_int_reif returns.

LP command line:

* presolve.c, fold_bounds: after folding the lower side of an equality it
  returns, and the upper side is lost when that side alone binds, against
  presolve.h:47-51.  `ReducedIsExact` with `HalfEquality` of MC_LpCli; the
  replay and the certificate still catch it, so a point is re-solved, not
  wrong.
* presolve.c:733: the last pass may end with entries of dead rows (against
  presolve.c:7-8); a chain of 17 rows makes main return 1 without a status
  line.  `EntriesAreLive` with `Chain`.
* main.c:203: can_retry is computed before presolve has run; with --noscale a
  refused certificate ends with exit code 0 and no status line (main.c:117 says
  "never silent").  `NeverSilent` with `Irreducible`.
* ITERATION_LIMIT and INVALID are printed without trying rawer data; an LP
  without rows left prints a second status line when the stop is raised;
  iterations and time are printed twice when degraded; an uncertified INFEASIBLE
  is printed when exposure is small or farkas_ok is 0.
* The ray of a redundant row's conflict uses folded bounds, a bound implied by a
  doubleton may bind, and two singletons may hold one column: in these cases the
  certificate check refuses what is true and the LP is solved again
  (`RestsOnDoubleton`, `HeldTwice`, the exclusions in EvidenceTransfers).

Simplex:

* solver_set_bounds followed by solver_solve: parked columns are not repaired
  and rebuild_pending is ignored, so max x with x <= 2 widened to 3 still
  returns x = 2 as optimal.  WarmSimplex_cold.cfg; in the run the caller uses
  solver_warm_solve after a change of bounds, as mip.c does.
* solver.c:2137: a warm solve leaves the duals of an earlier solve
  (`PricesSupport`).
* solver.h:190 says a solve after add_row starts from the previous basis; it
  starts from scratch.
* dual_cert_infeasible clips by the caller's relations and refuses a column with
  an open side, slacks included, so an infeasibility that uses an inequality row
  is never certified by the dual simplex and is always solved anew.
* The iteration limit counts the pivots of all solves on the primal warm path
  and those of this solve on the dual one.
* solver_solve after a warm solve that ended in dual infeasibility with a pinned
  basic artificial returns 5 (numerical).  A ray found from an infeasible point
  is left behind with status 5 (model only).

Exact simplex:

* fx_core.inc:83: negating the lowest word is not checked:
  `max x, 4294967296 x <= 0, x >= -2147483648` prints INFEASIBLE, against
  fx.h:26-31.  ExactSimplex_lowest.cfg.
* A variable with l > u: the bound row's negative right-hand side is not
  normalised (fx_core.inc:366-373) and 1 <= x <= 0 is answered OPTIMAL, x = 0
  (`Crossed` of MC_ExactSimplex).
* By reading: fx_lp_valid accepts a free variable and fx_solve treats it as
  x <= 0; fx_read and mip.c reject it before.

Quadratic programs and physics:

* qp.c:946: lp_route returns 3 on a stop and qp_solve tests only 0 and 2, so the
  active set starts from an infeasible base and QP_STOPPED hands back an
  infeasible point, against qp.c:1155-1157.  A counterexample
  to `IncumbentIsFeasible` of QpSolve.
* pgs_fixed.c:104: the difference of two iterates is taken in 64 bits and wraps
  in a box wider than half the word: one variable, A = 1, b = -INT64_MAX, the
  full box, from INT64_MIN returns status 0 after one sweep that moved it by
  2^64 - 1 (pgs.h:37 says that 0 is converged; T4 of pgs_fixed_test.c uses such a
  box).  Run pgs has such boxes, and ConvergedIsReal excepts moves of half the
  words and more.  With a diagonal of zero or less a
  variable goes to the projection of 0, and over-relaxation of rounded steps may
  raise the objective; both are outside `Descends`.

## 8. What is left to do

1. The exact simplex, whose tableau identity is that of WarmProofs but whose
   rationals need the exactness of the word arithmetic first.
2. That domains only shrink, and the contract of the simpler propagators for every word
   width.
3. The parsing of constraints into the finite-domain engine and its orbit
   rewrites; float variables in FznRows; the float-only lane.
