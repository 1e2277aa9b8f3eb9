---------------------------- MODULE BranchBound ----------------------------
(***************************************************************************)
(* mip_solve (src/src/mip.c): best-bound branch and bound over the LP      *)
(* relaxation of a mixed-integer program.                                  *)
(*                                                                         *)
(* The model is an abstract record: its integer-feasible lattice points    *)
(* and their objective values.  The three engines behind solve_relaxation  *)
(* (double simplex, Farkas certificate, exact rational simplex) answer     *)
(* nondeterministically, as wrongly as the code allows for: the double     *)
(* simplex may claim a feasible box infeasible when the data are `shaky',  *)
(* and everything that then happens to the claim is modelled.              *)
(***************************************************************************)
EXTENDS Integers, Sequences, FiniteSets

CONSTANTS
  Vars,      \* the integer variables
  MIPs,      \* the models a run may be given (see MIPsAssumption)
  GapNum,    \* mip_gap = GapNum / GapDen
  GapDen,
  NoPoint    \* bestx before the first incumbent

Point == [Vars -> Int]

Between(a, b) ==
  {p \in [Vars -> UNION {a[j] .. b[j] : j \in Vars}] :
      \A j \in Vars : a[j] <= p[j] /\ p[j] <= b[j]}

(* What a model is: its bounds, its sense, mip.h's mode flags and limit,   *)
(* and what the relaxation engines see of it.                              *)
MipType(m) ==
  /\ m.lo \in Point /\ m.hi \in Point
  /\ \A p \in m.feas : p \in Point
  /\ \A p \in m.feas, j \in Vars : m.lo[j] <= p[j] /\ p[j] <= m.hi[j]
  /\ m.obj \in [m.feas -> Int]      \* c . x of each feasible lattice point
  /\ m.maximize \in BOOLEAN
  /\ m.stop_at_feasible \in BOOLEAN
  /\ m.all_solutions \in BOOLEAN
  /\ m.node_limit \in Nat
  /\ m.ray \in BOOLEAN              \* the root relaxation is unbounded
  /\ m.values \subseteq Int         \* values its fractional relaxations may report
  /\ m.integral \in BOOLEAN         \* mip_build_fxlp can represent the data
  /\ m.shaky \in BOOLEAN            \* row exposure past TOL-MIP-SHAKY

ASSUME MIPsAssumption == \A m \in MIPs : MipType(m)
ASSUME GapAssumption == GapNum \in Nat /\ GapDen \in Nat \ {0} /\ GapNum <= GapDen
ASSUME NoPointAssumption == NoPoint \notin Point

VARIABLES
  mip,            \* the model being solved
  pc,             \* where the search loop stands
  open,           \* the best-bound list of open nodes
  node,           \* the popped node
  relax,          \* the relaxation's answer at that node
  bestx,          \* the incumbent (have_incumbent iff bestx # NoPoint)
  best_bound,     \* running extremum of the solved relaxations
  nodes,          \* nodes popped
  emitted,        \* points handed to on_solution, in order
  status,         \* MIPResult.status
  limit_reached, stopped_early, proven_optimal

vars == <<mip, pc, open, node, relax, bestx, best_bound, nodes, emitted, status,
          limit_reached, stopped_early, proven_optimal>>

(* MIPResult.status *)
OPTIMAL == 0
INFEASIBLE == 1
UNBOUNDED == 2
NODE_LIMIT == 3
STOPPED == 4
FEASIBLE == 5
NUMERICAL == 6
INVALID == 7

----------------------------------------------------------------------------
(* Order of objective values in the model's sense, and the gap test.       *)

Gain(a, b) == IF mip.maximize THEN a - b ELSE b - a   \* how much a beats b
Better(a, b) == Gain(a, b) > 0

Abs(a) == IF a < 0 THEN -a ELSE a

have_incumbent == bestx # NoPoint
incumbent == mip.obj[bestx]

(* o cannot beat objective value v by more than gap * (1 + |v|).           *)
WithinGap(o, v) == GapDen * Gain(o, v) <= GapNum * (1 + Abs(v))

(* Nodes: a box and the bound the node is ordered by.                      *)
Inside(p, nd) == \A j \in Vars : nd.lo[j] <= p[j] /\ p[j] <= nd.hi[j]
Points(nd) == {p \in mip.feas : Inside(p, nd)}

NodeType == [lo : Point, hi : Point, bound : Int]
NoNode  == [lo |-> mip.lo, hi |-> mip.hi, bound |-> 0]
NoRelax == [obj |-> 0, base |-> mip.lo, frac |-> {}]

(* pop_node: any node no other open node precedes.  push_node keeps the    *)
(* list sorted, so its head is one of these.                               *)
Heads == {nd \in open : \A other \in open : ~Better(other.bound, nd.bound)}

----------------------------------------------------------------------------
(* solve_relaxation.  What the double simplex may say of a box: the truth, *)
(* an iteration limit, a stop, a failed certificate, a rejected bound, or, *)
(* on shaky data, INFEASIBLE of a box that has feasible points.            *)

DoubleVerdicts(nd) ==
  {"limit", "stopped", "numerical", "invalid"}
    \union (IF mip.ray THEN {"unbounded"} ELSE {"optimal"})
    \union (IF Points(nd) = {} \/ mip.shaky THEN {"infeasible"} ELSE {})

(* fx_solve on representable data: exact, or an iteration limit/overflow   *)
(* that keeps the double verdict v.                                        *)
ExactVerdicts(nd, v) ==
  {v} \union (IF mip.ray THEN {"unbounded"} ELSE {"optimal"})
      \union (IF Points(nd) = {} THEN {"infeasible"} ELSE {})

(* An infeasible verdict that survived without a certificate is reported   *)
(* as a numerical failure when the data are shaky.                         *)
Exposed(v) == IF v = "infeasible" /\ mip.shaky THEN "numerical" ELSE v

(* The shaky gate forgotten.                                               *)
Arbitrated_NoExposureGate(nd, v) ==
  IF v \notin {"infeasible", "numerical"} THEN {v}
  ELSE IF mip.integral THEN ExactVerdicts(nd, v) ELSE {v}

Arbitrated(nd, v) ==
  IF v \notin {"infeasible", "numerical"} THEN {v}
  ELSE (IF v = "infeasible" /\ Points(nd) = {} THEN {v} ELSE {})   \* Farkas ray
         \union
       (IF ~mip.integral THEN {Exposed(v)}
        ELSE {IF w = v THEN Exposed(v) ELSE w : w \in ExactVerdicts(nd, v)})

Verdicts(nd) ==
  (IF Points(nd) = {} THEN {"infeasible"} ELSE {})          \* mip_box_conflict
    \union UNION {Arbitrated(nd, v) : v \in DoubleVerdicts(nd)}

(* An optimal relaxation: the componentwise floor `base' of the LP point,  *)
(* its fractional components, and an objective value no feasible point of  *)
(* the box beats.  An integral point satisfies the rows, and its value is  *)
(* its own; a child's value is no better than its parent's.                *)
Relaxations(nd) ==
  {[obj |-> mip.obj[p], base |-> p, frac |-> {}] : p \in
      {q \in Points(nd) : \A r \in Points(nd) : ~Better(mip.obj[r], mip.obj[q])}}
  \union
  {rx \in [obj : mip.values, base : Between(nd.lo, nd.hi), frac : (SUBSET Vars) \ {{}}] :
      /\ \A j \in rx.frac : rx.base[j] < nd.hi[j]
      /\ \A p \in Points(nd) : ~Better(mip.obj[p], rx.obj)
      /\ nodes > 1 => ~Better(rx.obj, nd.bound)}

Rounded_RowsUnchecked(rx, nd) ==    \* clamped into the box, rows not tested
  {[j \in Vars |-> IF j \in up THEN rx.base[j] + 1 ELSE rx.base[j]] :
     up \in SUBSET rx.frac}

(* try_rounding_heuristic: each component to the lattice; the point is     *)
(* kept only if it satisfies the box and the rows.                         *)
Rounded(rx, nd) ==
  {IF r \in Points(nd) THEN r ELSE NoPoint : r \in
      {[j \in Vars |-> IF j \in up THEN rx.base[j] + 1 ELSE rx.base[j]] :
         up \in SUBSET rx.frac}}

----------------------------------------------------------------------------
Init ==
  /\ mip \in MIPs
  /\ pc = "root"
  /\ open = {}
  /\ node = NoNode /\ relax = NoRelax
  /\ bestx = NoPoint
  /\ best_bound = 0                 \* read only once a relaxation is solved
  /\ nodes = 0
  /\ emitted = << >>
  /\ status = INFEASIBLE
  /\ limit_reached = FALSE /\ stopped_early = FALSE /\ proven_optimal = FALSE

(* Integer rounding of the bounds and fbbt_tighten: some box between the   *)
(* model's and the hull of its feasible points ...                         *)
RootTighten ==
  /\ pc = "root"
  /\ \E lo \in Between(mip.lo, mip.hi) : \E hi \in Between(lo, mip.hi) :
       /\ \A p \in mip.feas, j \in Vars : lo[j] <= p[j] /\ p[j] <= hi[j]
       /\ open' = {[lo |-> lo, hi |-> hi, bound |-> 0]}
  /\ pc' = "loop"
  /\ UNCHANGED <<mip, node, relax, bestx, best_bound, nodes, emitted, status,
                 limit_reached, stopped_early, proven_optimal>>

(* ... or a proof that there is none, reported without any solve.          *)
RootInfeasible ==
  /\ pc = "root"
  /\ mip.feas = {}
  /\ status' = INFEASIBLE
  /\ proven_optimal' = TRUE
  /\ pc' = "done"
  /\ UNCHANGED <<mip, open, node, relax, bestx, best_bound, nodes, emitted,
                 limit_reached, stopped_early>>

(* break: the search ends with this status.                                *)
Break(st, truncated) ==
  /\ status' = st
  /\ limit_reached' = truncated
  /\ node' = NoNode /\ relax' = NoRelax
  /\ pc' = "finish"

(* continue: the current node is freed.                                    *)
Drop ==
  /\ node' = NoNode /\ relax' = NoRelax
  /\ pc' = "loop"

LoopLimit ==
  /\ pc = "loop" /\ open # {}
  /\ nodes >= mip.node_limit
  /\ Break(NODE_LIMIT, TRUE)
  /\ UNCHANGED <<mip, open, bestx, best_bound, nodes, emitted, stopped_early,
                 proven_optimal>>

LoopStop ==
  /\ pc = "loop" /\ open # {}
  /\ nodes < mip.node_limit
  /\ Break(STOPPED, TRUE)
  /\ UNCHANGED <<mip, open, bestx, best_bound, nodes, emitted, stopped_early,
                 proven_optimal>>

Pop ==
  /\ pc = "loop"
  /\ nodes < mip.node_limit
  /\ \E nd \in Heads :
       /\ node' = nd
       /\ open' = open \ {nd}
  /\ nodes' = nodes + 1
  /\ pc' = "relax"
  /\ UNCHANGED <<mip, relax, bestx, best_bound, emitted, status, limit_reached,
                 stopped_early, proven_optimal>>

TreeExhausted ==
  /\ pc = "loop" /\ open = {}
  /\ pc' = "finish"
  /\ UNCHANGED <<mip, open, node, relax, bestx, best_bound, nodes, emitted, status,
                 limit_reached, stopped_early, proven_optimal>>

(* The relaxation is infeasible, or unbounded below the root: drop.        *)
RelaxInfeasible ==
  /\ pc = "relax"
  /\ \/ "infeasible" \in Verdicts(node)
     \/ "unbounded" \in Verdicts(node) /\ nodes # 1
  /\ Drop
  /\ UNCHANGED <<mip, open, bestx, best_bound, nodes, emitted, status,
                 limit_reached, stopped_early, proven_optimal>>

RelaxUnbounded ==
  /\ pc = "relax"
  /\ "unbounded" \in Verdicts(node) /\ nodes = 1
  /\ Break(UNBOUNDED, FALSE)
  /\ UNCHANGED <<mip, open, bestx, best_bound, nodes, emitted, stopped_early,
                 proven_optimal>>

GiveUpStatus == [limit |-> NODE_LIMIT, stopped |-> STOPPED,
                 numerical |-> NUMERICAL, invalid |-> INVALID]

RelaxGivesUp ==
  /\ pc = "relax"
  /\ \E v \in Verdicts(node) \intersect DOMAIN GiveUpStatus :
       Break(GiveUpStatus[v], TRUE)
  /\ UNCHANGED <<mip, open, bestx, best_bound, nodes, emitted, stopped_early,
                 proven_optimal>>

(* A solved relaxation moves best_bound, then is pruned or kept.           *)
Prunable_OneSense(o) ==    \* the maximization test used for both senses
  /\ have_incumbent /\ ~mip.stop_at_feasible
  /\ GapDen * (o - incumbent) <= GapNum * (1 + Abs(incumbent))

Prunable(o) ==
  /\ have_incumbent /\ ~mip.stop_at_feasible
  /\ WithinGap(o, incumbent)

RelaxSolved_LastBound ==    \* best_bound is that of the last node solved
  /\ pc = "relax"
  /\ "optimal" \in Verdicts(node)
  /\ \E rx \in Relaxations(node) :
       /\ best_bound' = rx.obj
       /\ IF Prunable(rx.obj) THEN Drop
          ELSE relax' = rx /\ pc' = "round" /\ UNCHANGED node
  /\ UNCHANGED <<mip, open, bestx, nodes, emitted, status, limit_reached,
                 stopped_early, proven_optimal>>

RelaxSolved ==
  /\ pc = "relax"
  /\ "optimal" \in Verdicts(node)
  /\ \E rx \in Relaxations(node) :
       /\ best_bound' = IF nodes = 1 \/ Better(rx.obj, best_bound) THEN rx.obj
                                                                   ELSE best_bound
       /\ IF Prunable(rx.obj) THEN Drop
          ELSE /\ relax' = rx
               /\ pc' = "round"
               /\ UNCHANGED node
  /\ UNCHANGED <<mip, open, bestx, nodes, emitted, status, limit_reached,
                 stopped_early, proven_optimal>>

Improves_Any(p) == p # NoPoint        \* the comparison with the incumbent lost

Improves(p) == p # NoPoint /\ (have_incumbent => Better(mip.obj[p], incumbent))

RoundingHeuristic ==
  /\ pc = "round"
  /\ \E xc \in (IF mip.all_solutions THEN {NoPoint} ELSE Rounded(relax, node)) :
       bestx' = IF Improves(xc) THEN xc ELSE bestx
  /\ IF mip.stop_at_feasible /\ bestx' # NoPoint /\ ~mip.all_solutions
     THEN /\ stopped_early' = TRUE
          /\ Break(status, FALSE)
     ELSE /\ pc' = "branch"
          /\ UNCHANGED <<node, relax, status, limit_reached, stopped_early>>
  /\ UNCHANGED <<mip, open, best_bound, nodes, emitted, proven_optimal>>

(* Two children that split component j of the current box after v.         *)
Child(lo, hi) == [lo |-> lo, hi |-> hi, bound |-> relax.obj]
Children_Overlap(j, v) ==    \* the second child keeps v
  {Child(node.lo, [node.hi EXCEPT ![j] = v]),
   Child([node.lo EXCEPT ![j] = v], node.hi)}
Children_Gap(j, v) ==    \* the first child loses v
  {Child(node.lo, [node.hi EXCEPT ![j] = v - 1]),
   Child([node.lo EXCEPT ![j] = v + 1], node.hi)}
Children(j, v) ==
  {Child(node.lo, [node.hi EXCEPT ![j] = v]),
   Child([node.lo EXCEPT ![j] = v + 1], node.hi)}

BranchFractional ==
  /\ pc = "branch"
  /\ \E j \in relax.frac : open' = open \union Children(j, relax.base[j])
  /\ Drop
  /\ UNCHANGED <<mip, bestx, best_bound, nodes, emitted, status, limit_reached,
                 stopped_early, proven_optimal>>

enumerating == mip.all_solutions /\ mip.stop_at_feasible
Unfixed == {j \in Vars : node.lo[j] < node.hi[j]}

(* Enumeration: an integral relaxation of a box that is not one point is   *)
(* split at the point, clamped so that both halves are non-empty.          *)
SplitValue(j) ==
  IF relax.base[j] >= node.hi[j] THEN node.hi[j] - 1 ELSE relax.base[j]

EnumerationSplit ==
  /\ pc = "branch"
  /\ relax.frac = {} /\ enumerating
  /\ \E j \in Unfixed : open' = open \union Children(j, SplitValue(j))
  /\ Drop
  /\ UNCHANGED <<mip, bestx, best_bound, nodes, emitted, status, limit_reached,
                 stopped_early, proven_optimal>>

IntegralLeaf ==
  /\ pc = "branch"
  /\ relax.frac = {}
  /\ enumerating => Unfixed = {}
  /\ bestx' = IF Improves(relax.base) THEN relax.base ELSE bestx
  /\ emitted' = IF mip.all_solutions /\ (Improves(relax.base) \/ enumerating)
                THEN Append(emitted, relax.base) ELSE emitted
  /\ IF Improves(relax.base) /\ mip.stop_at_feasible /\ ~mip.all_solutions
     THEN /\ stopped_early' = TRUE
          /\ Break(status, FALSE)
     ELSE Drop /\ UNCHANGED <<status, limit_reached, stopped_early>>
  /\ UNCHANGED <<mip, open, best_bound, nodes, proven_optimal>>

Finish_IgnoresLimit ==    \* any incumbent counts as proven
  /\ pc = "finish"
  /\ proven_optimal' = have_incumbent
  /\ status' = IF have_incumbent THEN OPTIMAL ELSE status
  /\ open' = {}
  /\ pc' = "done"
  /\ UNCHANGED <<mip, node, relax, bestx, best_bound, nodes, emitted,
                 limit_reached, stopped_early>>

(* After the loop: what the search established.                            *)
Finish ==
  /\ pc = "finish"
  /\ proven_optimal' = (~limit_reached /\ ~stopped_early /\ have_incumbent)
  /\ status' = IF have_incumbent
               THEN IF limit_reached THEN FEASIBLE ELSE OPTIMAL
               ELSE status
  /\ open' = {}
  /\ pc' = "done"
  /\ UNCHANGED <<mip, node, relax, bestx, best_bound, nodes, emitted,
                 limit_reached, stopped_early>>

Next ==
  \/ RootTighten \/ RootInfeasible
  \/ LoopLimit \/ LoopStop \/ Pop \/ TreeExhausted
  \/ RelaxInfeasible \/ RelaxUnbounded \/ RelaxGivesUp \/ RelaxSolved
  \/ RoundingHeuristic
  \/ BranchFractional \/ EnumerationSplit \/ IntegralLeaf
  \/ Finish

Spec == Init /\ [][Next]_vars
FairSpec == Spec /\ WF_vars(Next)

----------------------------------------------------------------------------
(* Properties.                                                             *)

RelaxType == [obj : Int, base : Point, frac : SUBSET Vars]

TypeOK ==
  /\ mip \in MIPs
  /\ pc \in {"root", "loop", "relax", "round", "branch", "finish", "done"}
  /\ \A nd \in open : nd \in NodeType
  /\ node \in NodeType
  /\ relax \in RelaxType
  /\ bestx \in mip.feas \union {NoPoint}
  /\ best_bound \in Int
  /\ nodes \in Nat
  /\ emitted \in Seq(mip.feas)
  /\ status \in OPTIMAL .. INVALID
  /\ limit_reached \in BOOLEAN /\ stopped_early \in BOOLEAN
  /\ proven_optimal \in BOOLEAN

Live == open \union (IF pc \in {"relax", "round", "branch"} THEN {node} ELSE {})
Emitted == {emitted[i] : i \in DOMAIN emitted}

(* No feasible point is lost while the search runs: it lies in a live box, *)
(* or has been handed out, or cannot beat the incumbent by more than the   *)
(* gap -- the incumbent of now, although the box may have been pruned      *)
(* against an older one.                                                   *)
Accounted(p) ==
  \/ \E nd \in Live : Inside(p, nd)
  \/ enumerating /\ p \in Emitted
  \/ ~enumerating /\ have_incumbent /\ WithinGap(mip.obj[p], incumbent)

NothingLost ==
  pc \notin {"root", "finish", "done"} => \A p \in mip.feas : Accounted(p)

(* proven_optimal with status OPTIMAL: no feasible point beats the         *)
(* reported objective by more than the requested gap (mip.h).              *)
OptimalWithinGap ==
  pc = "done" /\ status = OPTIMAL /\ proven_optimal =>
    /\ bestx \in mip.feas
    /\ \A p \in mip.feas : WithinGap(mip.obj[p], incumbent)

(* INFEASIBLE is only ever reported of a model without a feasible point,   *)
(* whatever the double simplex claimed on the way.                         *)
InfeasibleIsProof ==
  pc = "done" /\ status = INFEASIBLE => mip.feas = {}

(* A truncated search never claims a proof, and keeps its incumbent.       *)
TruncatedIsHonest ==
  pc = "done" /\ limit_reached =>
    /\ ~proven_optimal
    /\ status \notin {OPTIMAL, INFEASIBLE, UNBOUNDED}
    /\ have_incumbent <=> status = FEASIBLE

(* The reported best_bound is a bound: it dominates every feasible point,  *)
(* which is what the certificate's directional coherence test relies on.   *)
BestBoundDominates ==
  pc = "done" /\ have_incumbent =>
    \A p \in mip.feas : ~Better(mip.obj[p], best_bound)

Apart(nd, other) == \E j \in Vars : nd.hi[j] < other.lo[j] \/ other.hi[j] < nd.lo[j]

(* The live boxes are non-empty and disjoint, so the tree never has more   *)
(* nodes than a binary partition of the model's box, and the node limit is *)
(* not what ends a search on a finite box.                                 *)
TreeIsAPartition ==
  /\ \A nd \in Live : \A j \in Vars : nd.lo[j] <= nd.hi[j]
  /\ \A nd, other \in Live : nd # other => Apart(nd, other)
  /\ nodes > 0 => nodes <= 2 * Cardinality(Between(mip.lo, mip.hi)) - 1

(* Enumeration (all_solutions with stop_at_feasible) hands every solution  *)
(* out once, and a search that ends unlimited has handed out all of them,  *)
(* because the live boxes are a partition.                                 *)
EnumerationExact ==
  /\ TreeIsAPartition
  /\ enumerating =>
       /\ \A i, k \in DOMAIN emitted : emitted[i] = emitted[k] => i = k
       /\ pc = "done" /\ status \in {OPTIMAL, INFEASIBLE} => Emitted = mip.feas

(* An incumbent is only ever replaced by a strictly better point.          *)
IncumbentImproves ==
  [][have_incumbent /\ bestx' # bestx =>
       bestx' # NoPoint /\ Better(mip.obj[bestx'], mip.obj[bestx])]_vars

(* The inductive invariant behind these, in parts (see MipProofs). *)

(* Before the loop ends nothing has been concluded.                        *)
PhaseInv ==
  /\ pc \notin {"finish", "done"} =>
       /\ ~limit_reached /\ ~stopped_early /\ ~proven_optimal
       /\ status = INFEASIBLE
  /\ pc = "root" => nodes = 0
  /\ pc \in {"root", "loop"} /\ nodes = 0 => ~have_incumbent /\ emitted = << >>
  /\ pc \in {"relax", "round", "branch"} => nodes > 0
  /\ stopped_early => have_incumbent
  /\ pc = "finish" => (limit_reached <=> status \in {NODE_LIMIT, STOPPED, NUMERICAL, INVALID})
                      /\ status \in {INFEASIBLE, NODE_LIMIT, STOPPED, NUMERICAL, INVALID, UNBOUNDED}
  /\ pc = "finish" /\ status = UNBOUNDED => mip.ray /\ ~have_incumbent

(* A relaxation being processed bounds its box.                            *)
RelaxInv ==
  pc \in {"round", "branch"} =>
    /\ \A p \in Points(node) : ~Better(mip.obj[p], relax.obj)
    /\ relax.frac = {} => relax.base \in Points(node)
                          /\ relax.obj = mip.obj[relax.base]

(* No point handed out is better than the incumbent.                       *)
EmittedInv ==
  \A p \in Emitted : have_incumbent /\ ~Better(mip.obj[p], incumbent)

(* An exhausted search has left no point open.                             *)
ExhaustedInv ==
  pc = "finish" /\ status = INFEASIBLE /\ ~stopped_early =>
    \A p \in mip.feas : /\ have_incumbent /\ WithinGap(mip.obj[p], incumbent)
                        /\ enumerating => p \in Emitted

(* Once the root relaxation is solved best_bound dominates every point.    *)
BoundInv ==
  /\ nodes = 1 /\ pc = "relax" => open = {} /\ ~have_incumbent /\ emitted = << >>
  /\ \/ have_incumbent
     \/ pc \in {"round", "branch"}
     \/ nodes > 1
     \/ nodes = 1 /\ open # {}
     => \A p \in mip.feas : ~Better(mip.obj[p], best_bound)

(* The first node is alone, and no node follows an unbounded root.         *)
RootInv ==
  /\ pc = "loop" /\ nodes = 0 => \E nd \in open : open = {nd}
  /\ mip.ray => /\ pc \notin {"round", "branch"}
                /\ nodes > 0 => nodes = 1 /\ open = {}

SearchInv ==
  /\ PhaseInv /\ RootInv /\ RelaxInv /\ NothingLost /\ EmittedInv /\ ExhaustedInv
  /\ BoundInv
  /\ OptimalWithinGap /\ InfeasibleIsProof /\ TruncatedIsHonest

(* Behind EnumerationExact, for any number of variables.  A relaxation's   *)
(* base lies in its box, below the upper side where it is fractional.      *)
BaseInv ==
  /\ pc = "root" => open = {}
  /\ pc \in {"relax", "round", "branch"} => node \notin open
  /\ pc \in {"round", "branch"} =>
       /\ \A j \in Vars : node.lo[j] <= relax.base[j] /\ relax.base[j] <= node.hi[j]
       /\ \A j \in relax.frac : relax.base[j] < node.hi[j]

(* Live boxes are non-empty parts of the model's box, and disjoint.        *)
BoxesInv ==
  /\ \A nd \in Live : \A j \in Vars :
       mip.lo[j] <= nd.lo[j] /\ nd.lo[j] <= nd.hi[j] /\ nd.hi[j] <= mip.hi[j]
  /\ \A nd, other \in Live : nd # other => Apart(nd, other)

(* What an enumeration has handed out is in no live box, and distinct.     *)
FreshInv ==
  enumerating =>
    /\ ~stopped_early
    /\ \A i \in DOMAIN emitted : \A nd \in Live : ~Inside(emitted[i], nd)
    /\ \A i, k \in DOMAIN emitted : emitted[i] = emitted[k] => i = k
    /\ pc = "done" /\ status \in {OPTIMAL, INFEASIBLE} => Emitted = mip.feas

(* A binary tree over the points of the box: each node still to be popped  *)
(* has two for each of its points, less one.                               *)
Lattice == Between(mip.lo, mip.hi)
Covered == {p \in Lattice : \E nd \in Live : Inside(p, nd)}
Corners == {nd.lo : nd \in Live}
CountInv ==
  \/ nodes = 0 /\ Live = {}
  \/ nodes + 2 * Cardinality(Covered) - Cardinality(Corners)
       - (IF pc \in {"relax", "round", "branch"} THEN 1 ELSE 0)
       <= 2 * Cardinality(Lattice) - 1

TreeInv == BaseInv /\ BoxesInv /\ FreshInv /\ CountInv

(* The search implements the promise of mip.h.                             *)
PromisedVerdict ==
  CASE pc # "done" -> "running"
    [] pc = "done" /\ status = OPTIMAL /\ proven_optimal -> "optimal"
    [] pc = "done" /\ status = OPTIMAL /\ ~proven_optimal -> "feasible"
    [] pc = "done" /\ status = FEASIBLE -> "feasible"
    [] pc = "done" /\ status = INFEASIBLE -> "infeasible"
    [] pc = "done" /\ status = UNBOUNDED -> "unbounded"
    [] OTHER -> "unknown"

FeasibleOf(m) == m.feas
BeatsIn(m, p, q) == IF m.maximize THEN m.obj[p] > m.obj[q] ELSE m.obj[p] < m.obj[q]
NoneBeatsIn(m, p) ==
  \A q \in m.feas :
    GapDen * (IF m.maximize THEN m.obj[q] - m.obj[p] ELSE m.obj[p] - m.obj[q])
      <= GapNum * (1 + Abs(m.obj[p]))
HasRay(m) == m.ray

Promise == INSTANCE MipPromise WITH
  Models <- MIPs, Feasible <- FeasibleOf, Beats <- BeatsIn, NoneBeats <- NoneBeatsIn,
  MayBeUnbounded <- HasRay, model <- mip, best <- bestx, verdict <- PromisedVerdict

ImplementsPromise == Promise!Spec
============================================================================
