------------------------------- MODULE CpSearch -------------------------------
(***************************************************************************)
(* The finite-domain engine of src/src/fz_cp.inc: fz_cp_try decides        *)
(* whether it may take a FlatZinc model, and cp_solve_rec searches it      *)
(* depth first, one copy of the domains per branch, for one solution, for  *)
(* all of them, or for an optimum.                                         *)
(*                                                                         *)
(* The propagators are abstract: they keep the contract stated at the head *)
(* of fz_cp.inc (only values that no solution can use are removed) or give *)
(* up.  CpPropagators models them one by one and shows where some do not.  *)
(* The recursion is an explicit stack.                                     *)
(***************************************************************************)
EXTENDS Integers, Sequences, FiniteSets

CONSTANTS
  Vars,         \* the searchable variables: constrained or printed
  CSPs,         \* the models a run may be given (see CSPsAssumption)
  CP_MAXVALS,   \* largest domain kept as a list of values
  CP_MAXNODES,  \* search node cap
  NoPoint       \* no assignment yet

Box(d) == {p \in [Vars -> UNION {d[v] : v \in Vars}] : \A v \in Vars : p[v] \in d[v]}

(* A model: declared domains (those of `free' variables stand for the      *)
(* 64-bit range, those in `big' for values at the synthetic bound), its    *)
(* solutions, the linear objective and what is printed of a solution.      *)
CSPType(m) ==
  /\ m.dom \in [Vars -> SUBSET Int] /\ \A v \in Vars : IsFiniteSet(m.dom[v])
  /\ m.sols \subseteq Box(m.dom)
  /\ m.mode \in {"satisfy", "all", "minimize", "maximize"}
  /\ m.obj \in [Box(m.dom) -> Int]
  /\ m.terms \subseteq Vars         \* variables of the objective
  /\ m.out \subseteq Vars           \* variables printed
  /\ m.free \subseteq Vars          \* variables without declared bounds
  /\ m.big \subseteq Int            \* values at or past FZ_BIG_BOUND
  /\ m.understood \in BOOLEAN       \* integer, parsed, not all linear, ...

ASSUME CSPsAssumption == \A m \in CSPs : CSPType(m)
ASSUME CapsAssumption == CP_MAXVALS \in Nat \ {0} /\ CP_MAXNODES \in Nat
ASSUME NoPointAssumption == \A m \in CSPs : NoPoint \notin Box(m.dom)

VARIABLES
  csp,       \* the model
  pc,        \* where fz_cp_try / cp_solve_rec stands
  dom,       \* domains of the current node
  stack,     \* frames of the callers: domains, branching variable, values left
  ret,       \* what the last call of cp_solve_rec returned
  cp_nodes,  \* search nodes entered
  bestx,     \* the solution found, or the incumbent (CPOptCtx.bestx)
  printed,   \* outputs handed to fz_solution_cb and printed, in order
  status     \* FZSolution.status

vars == <<csp, pc, dom, stack, ret, cp_nodes, bestx, printed, status>>

(* What cp_solve_rec returns, and FZSolution.status.                       *)
DEAD == 0
FOUND == 2
DONE == 3
LIMIT == 4
GIVEUP == -1
SAT == 0
UNSAT == 1
UNKNOWN == 2
NODECAP == 4

all == csp.mode = "all"
opt == csp.mode \in {"minimize", "maximize"}
have == bestx # NoPoint
Beats(a, b) == IF csp.mode = "minimize" THEN a < b ELSE a > b
Better(p) == Beats(csp.obj[p], csp.obj[bestx])      \* than the incumbent

Solutions(d) == csp.sols \intersect Box(d)
cp_fixed(d, v) == \E x \in d[v] : d[v] = {x}
bounded(d, v) == Cardinality(d[v]) <= CP_MAXVALS

(* Sound propagation: what cp_propagate may leave of the domains d.        *)
Contractions(d) ==
  {e \in [Vars -> (SUBSET UNION {d[v] : v \in Vars}) \ {{}}] :
     \A v \in Vars : /\ e[v] \subseteq d[v]
                     /\ \A p \in Solutions(d) : p[v] \in e[v]}

Output(p) == [v \in csp.out |-> p[v]]
Printed == {printed[i] : i \in DOMAIN printed}

----------------------------------------------------------------------------
(* fz_cp_try.                                                              *)

Init ==
  /\ csp \in CSPs
  /\ pc = "try"
  /\ dom = csp.dom
  /\ stack = << >>
  /\ ret = DEAD
  /\ cp_nodes = 0
  /\ bestx = NoPoint
  /\ printed = << >>
  /\ status = SAT

Declines == ~csp.understood \/ (all /\ csp.free # {})

Decline ==
  /\ pc = "try" /\ Declines
  /\ pc' = "fallback"
  /\ UNCHANGED <<csp, dom, stack, ret, cp_nodes, bestx, printed, status>>

(* An empty declared domain, or cp_bound_diophantine, refutes the model.   *)
Refute ==
  /\ pc = "try" /\ ~Declines
  /\ Solutions(dom) = {}
  /\ status' = UNSAT
  /\ pc' = "done"
  /\ UNCHANGED <<csp, dom, stack, ret, cp_nodes, bestx, printed>>

Search ==
  /\ pc = "try" /\ ~Declines
  /\ dom' \in Contractions(dom)
  /\ pc' = "enter"
  /\ UNCHANGED <<csp, stack, ret, cp_nodes, bestx, printed, status>>

----------------------------------------------------------------------------
(* cp_solve_rec.                                                           *)

Return(r) == ret' = r /\ pc' = "return"

Enter ==
  /\ pc = "enter"
  /\ cp_nodes' = cp_nodes + 1
  /\ IF cp_nodes' > CP_MAXNODES THEN Return(IF all \/ opt THEN LIMIT ELSE GIVEUP)
     ELSE pc' = "propagate" /\ UNCHANGED ret
  /\ UNCHANGED <<csp, dom, stack, bestx, printed, status>>

(* cp_propagate, before and after the incumbent's cut.                     *)
Propagate ==
  /\ pc \in {"propagate", "repropagate"}
  /\ \/ Solutions(dom) = {} /\ Return(DEAD) /\ UNCHANGED dom
     \/ Return(GIVEUP) /\ UNCHANGED dom
     \/ /\ dom' \in Contractions(dom)
        /\ pc' = IF opt /\ have /\ pc = "propagate" THEN "cut" ELSE "branch"
        /\ UNCHANGED ret
  /\ UNCHANGED <<csp, stack, cp_nodes, bestx, printed, status>>

(* A variable still as wide as the 64-bit range: its side of the objective *)
(* is unknown.                                                             *)
Wild == {v \in csp.terms \intersect csp.free : dom[v] = csp.dom[v]}

Winning_WorstSide(v) ==     \* the other terms at their worst
  {x \in dom[v] : \A p \in Box(dom) : p[v] = x => Better(p)}

(* cp_opt_bb_tighten: values of an objective variable with which the other *)
(* terms at their best still beat the incumbent.                           *)
Winning(v) == {x \in dom[v] : \E p \in Box(dom) : p[v] = x /\ Better(p)}

Tightened ==
  [v \in Vars |-> IF v \in csp.terms /\ Wild \subseteq {v} THEN Winning(v) ELSE dom[v]]

Hopeless_WrongSide ==       \* judged by the worst activity
  Wild = {} /\ \E p \in Box(dom) : ~Better(p)

(* cp_opt_activity: the best activity of this node does not beat the       *)
(* incumbent.                                                              *)
Hopeless == Wild = {} /\ \A p \in Box(dom) : ~Better(p)

Cut ==
  /\ pc = "cut"
  /\ IF Hopeless \/ \E v \in Vars : Tightened[v] = {}
     THEN Return(DEAD) /\ UNCHANGED dom
     ELSE /\ dom' = Tightened
          /\ pc' = IF Tightened = dom THEN "branch" ELSE "repropagate"
          /\ UNCHANGED ret
  /\ UNCHANGED <<csp, stack, cp_nodes, bestx, printed, status>>

(* Branch on a smallest listed domain, values in increasing order.         *)

Unfixed == {v \in Vars : bounded(dom, v) /\ ~cp_fixed(dom, v)}

(* The first of the values left, the others kept in the caller's frame.    *)
Try(callers, d, v, values) ==
  \E x \in values :
    /\ \A y \in values : x <= y
    /\ dom' = [d EXCEPT ![v] = {x}]
    /\ stack' = Append(callers, [dom |-> d, var |-> v, rest |-> values \ {x}])
    /\ pc' = "enter"

Branch ==
  /\ pc = "branch"
  /\ \E v \in Unfixed :
       /\ \A w \in Unfixed : Cardinality(dom[v]) <= Cardinality(dom[w])
       /\ Try(stack, dom, v, dom[v])
  /\ UNCHANGED <<csp, ret, cp_nodes, bestx, printed, status>>

(* A variable too wide to list is not fixed: nothing can be certified.     *)
LeafTooWide ==
  /\ pc = "branch" /\ Unfixed = {}
  /\ \E v \in Vars : ~cp_fixed(dom, v)
  /\ Return(GIVEUP)
  /\ UNCHANGED <<csp, dom, stack, cp_nodes, bestx, printed, status>>

cp_verify(p) == p \in csp.sols

Score(p) == bestx' = IF ~have \/ Better(p) THEN p ELSE bestx

(* An assignment cp_verify accepts is scored, printed or returned; one it  *)
(* rejects ends the search without an answer.                              *)
Leaf ==
  /\ pc = "branch" /\ Unfixed = {}
  /\ \A v \in Vars : cp_fixed(dom, v)
  /\ \E p \in Box(dom) :
       IF ~cp_verify(p) THEN Return(GIVEUP) /\ UNCHANGED <<bestx, printed>>
       ELSE IF opt THEN Return(DONE) /\ Score(p) /\ UNCHANGED printed
       ELSE IF all THEN /\ Return(DONE)
                        /\ printed' = IF Output(p) \in Printed THEN printed
                                      ELSE Append(printed, Output(p))
                        /\ UNCHANGED bestx
       ELSE Return(FOUND) /\ bestx' = p /\ UNCHANGED printed
  /\ UNCHANGED <<csp, dom, stack, cp_nodes, status>>

(* Back in the caller's loop: the next value, or its own return.           *)
Pop ==
  /\ pc = "return" /\ ret \in {DEAD, DONE} /\ stack # << >>
  /\ LET frame == stack[Len(stack)]
         callers == SubSeq(stack, 1, Len(stack) - 1)
     IN  \/ /\ frame.rest = {}
            /\ stack' = callers
            /\ ret' = IF all \/ opt THEN DONE ELSE DEAD
            /\ UNCHANGED <<pc, dom>>
         \/ /\ Try(callers, frame.dom, frame.var, frame.rest)
            /\ UNCHANGED ret
  /\ UNCHANGED <<csp, cp_nodes, bestx, printed, status>>

(* A solution, the node cap or a failure returns through every caller.     *)
Unwind ==
  /\ pc = "return" /\ ret \notin {DEAD, DONE} /\ stack # << >>
  /\ stack' = << >>
  /\ UNCHANGED <<csp, pc, dom, ret, cp_nodes, bestx, printed, status>>

----------------------------------------------------------------------------
(* fz_cp_try again: what the search established.                           *)

(* A point at the synthetic bound of an undeclared one is not certified.   *)
TouchesBig(p) == \E v \in csp.free : p[v] \in csp.big

Answer_CapIsProof ==       \* the node cap mistaken for an exhausted search
  /\ pc = "return" /\ stack = << >>
  /\ \/ /\ ret = FOUND \/ (opt /\ ret \in {DONE, LIMIT} /\ have)
        /\ status' = IF TouchesBig(bestx) THEN UNKNOWN ELSE SAT
     \/ /\ ret = DEAD \/ (opt /\ ret = DONE /\ ~have)
        /\ status' = UNSAT
     \/ all /\ ret \in {DONE, LIMIT} /\ status' = SAT
  /\ pc' = "done"
  /\ UNCHANGED <<csp, dom, stack, ret, cp_nodes, bestx, printed>>

Answer ==
  /\ pc = "return" /\ stack = << >>
  /\ \/ /\ ret = FOUND \/ (opt /\ ret = DONE /\ have)
        /\ status' = IF TouchesBig(bestx) THEN UNKNOWN ELSE SAT
     \/ /\ ret = DEAD \/ (opt /\ ret = DONE /\ ~have)
        /\ status' = UNSAT
     \/ all /\ ret = DONE /\ status' = SAT
     \/ all /\ ret = LIMIT /\ status' = NODECAP
  /\ pc' = "done"
  /\ UNCHANGED <<csp, dom, stack, ret, cp_nodes, bestx, printed>>

(* Uncertifiable, or an optimization at the node cap: the MIP bridge.      *)
FallBack ==
  /\ pc = "return" /\ stack = << >>
  /\ ret = GIVEUP \/ (opt /\ ret = LIMIT)
  /\ pc' = "fallback"
  /\ UNCHANGED <<csp, dom, stack, ret, cp_nodes, bestx, printed, status>>

Next ==
  \/ Decline \/ Refute \/ Search
  \/ Enter \/ Propagate \/ Cut \/ Branch \/ LeafTooWide \/ Leaf \/ Pop \/ Unwind
  \/ Answer \/ FallBack

Spec == Init /\ [][Next]_vars

----------------------------------------------------------------------------
(* Properties.                                                             *)

Domains == [Vars -> SUBSET Int]

TypeOK ==
  /\ csp \in CSPs
  /\ pc \in {"try", "enter", "propagate", "cut", "repropagate", "branch", "return",
             "done", "fallback"}
  /\ dom \in Domains
  /\ stack \in Seq([dom : Domains, var : Vars, rest : SUBSET Int])
  /\ ret \in {DEAD, FOUND, DONE, LIMIT, GIVEUP}
  /\ cp_nodes \in Nat
  /\ bestx \in csp.sols \union {NoPoint}
  /\ printed \in Seq({Output(p) : p \in csp.sols})
  /\ status \in {SAT, UNSAT, UNKNOWN, NODECAP}

(* While the search may still answer, no solution is lost: it lies in the  *)
(* current node, in a branch some caller has yet to try, has been printed, *)
(* or does not beat the incumbent of now -- whatever the propagators, the  *)
(* incumbent's cut and the order of the branches removed on the way.       *)
Current == pc \in {"enter", "propagate", "cut", "repropagate", "branch"}
Searching == Current \/ (pc = "return" /\ ret \in {DEAD, DONE})

Ahead(p) == \E i \in DOMAIN stack :
  /\ p \in Box(stack[i].dom)
  /\ p[stack[i].var] \in stack[i].rest

NothingPruned ==
  Searching => \A p \in csp.sols :
    \/ Current /\ p \in Box(dom)
    \/ Ahead(p)
    \/ all /\ Output(p) \in Printed
    \/ opt /\ have /\ ~Better(p)

(* UNSATISFIABLE is answered only of models without a solution.            *)
UnsatIsProof == pc = "done" /\ status = UNSAT => csp.sols = {}

(* An answered optimum is a solution that no solution beats: exactly, not  *)
(* within a gap, although subtrees were cut against older incumbents.      *)
OptimumIsExact ==
  pc = "done" /\ status = SAT /\ opt =>
    bestx \in csp.sols /\ \A p \in csp.sols : ~Better(p)

(* The engine prints each output once; an enumeration answered as complete *)
(* printed all of them, and nothing but outputs of solutions.              *)
EnumerationComplete ==
  /\ pc # "fallback" => \A i, k \in DOMAIN printed : printed[i] = printed[k] => i = k
  /\ pc = "done" /\ status = SAT /\ all => Printed = {Output(p) : p \in csp.sols}

(* Whichever of the three modes ran and whatever was pruned, cut or capped *)
(* on the way, an answer of the engine is exact.                           *)
AnswersAreExact == UnsatIsProof /\ OptimumIsExact /\ EnumerationComplete

(* The recursion, and with it the copies of the domains alive at once, is  *)
(* never deeper than the variables: every level fixes another one.         *)
DepthBounded == Len(stack) <= Cardinality(Vars)

(* The engine keeps the promise of a solver; falling back is no answer.    *)
PromisedVerdict ==
  CASE pc # "done" -> "running"
    [] pc = "done" /\ status = UNSAT -> "infeasible"
    [] pc = "done" /\ status = SAT /\ opt -> "optimal"
    [] pc = "done" /\ ~(status = SAT /\ opt) /\ status # UNSAT ->
         IF have THEN "feasible" ELSE "unknown"

SolutionsOf(m) == m.sols
BeatsIn(m, p, q) ==
  IF m.mode = "minimize" THEN m.obj[p] < m.obj[q] ELSE m.obj[p] > m.obj[q]
NoneBeatsIn(m, p) == \A q \in m.sols : ~BeatsIn(m, q, p)
NoRay(m) == FALSE

Promise == INSTANCE MipPromise WITH
  Models <- CSPs, Feasible <- SolutionsOf, Beats <- BeatsIn, NoneBeats <- NoneBeatsIn,
  MayBeUnbounded <- NoRay, model <- csp, best <- bestx, verdict <- PromisedVerdict

ImplementsPromise == Promise!Spec
=============================================================================
