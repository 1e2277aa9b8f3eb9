------------------------------- MODULE FznSolve -------------------------------
(***************************************************************************)
(* A run of fznsolve: fz_solve of src/src/fzn.c tries the finite-domain    *)
(* engine (CpSearch) and, when it declines or gives up, two heuristics and *)
(* then the MIP bridge; tools/fznsolve.c checks the result and             *)
(* fz_print_solution prints it.  A timer or SIGINT may ask for a stop at   *)
(* any moment.                                                             *)
(*                                                                         *)
(* The MIP is abstract here: it ends with what MipPromise allows (the      *)
(* detailed search is BranchBound), over the box in which variables        *)
(* without declared bounds are clamped to +-FZ_BIG_BOUND, and with the     *)
(* relative gap fz_solve gives it.  Integer models only.                   *)
(***************************************************************************)
EXTENDS CpSearch

CONSTANTS
  MIP_NODES,      \* node limit of the bridge when none is given
  GapNum, GapDen  \* its mip_gap is GapNum / GapDen

(* What the bridge sees of a model, next to CSPType.                       *)
BridgeType(m) ==
  /\ m.handled \in BOOLEAN       \* every constraint has a linear form
  /\ m.alldiff \in BOOLEAN       \* only constraints csp_try_alldiff knows
  /\ m.product \in Nat           \* constant of the int_times rows, 0: none
  /\ m.product > 0 => {"x", "y"} \subseteq Vars
  /\ m.node_limit \in Nat        \* -n, 0: not given
  /\ m.beyond \subseteq m.big    \* values outside the clamp

ASSUME BridgeAssumption == MIP_NODES \in Nat /\ \A m \in CSPs : BridgeType(m)
ASSUME GapAssumption == GapNum \in Nat /\ GapDen \in Nat \ {0}

VARIABLES
  lane,    \* "cp", "mip", "print" or "over"
  stop,    \* psolve_stop() would answer nonzero
  answer,  \* FZSolution.x
  nodes,   \* FZSolution.nodes, counted here for the MIP
  seen,    \* outputs in the MIP's own deduplication context
  word     \* what fz_print_solution printed last

fvars == <<lane, stop, answer, nodes, seen, word>>
allvars == <<vars, fvars>>

(* The run's outcome, one word per form of fz_print_solution's last line.  *)
NONE == "none"
UNSATISFIABLE == "UNSATISFIABLE"
UNKNOWN_LINE == "UNKNOWN"
SOLUTION == "a solution"
COMPLETE == "complete"

InBox == {p \in csp.sols : \A v \in csp.free : p[v] \notin csp.beyond}

FznInit ==
  /\ Init
  /\ lane = "cp"
  /\ stop = FALSE
  /\ answer = NoPoint
  /\ nodes = 0
  /\ seen = {}
  /\ word = NONE

----------------------------------------------------------------------------
(* fz_cp_try answered: its nodes and its point are the solution's.         *)
CpStep == lane = "cp" /\ Next /\ UNCHANGED fvars

CpAnswers ==
  /\ lane = "cp" /\ pc = "done"
  /\ answer' = bestx
  /\ nodes' = cp_nodes
  /\ lane' = "print"
  /\ UNCHANGED <<vars, stop, seen, word>>

Falling == lane = "cp" /\ pc = "fallback"

(* csp_try_nonlinear: whatever the int_times rows say, x and y with        *)
(* x^3 * y^2 = their constant.                                             *)
Guesses ==
  {p \in [Vars -> 0..csp.product] :
     /\ p["x"] * p["x"] * p["x"] * p["y"] * p["y"] = csp.product
     /\ \A v \in Vars \ {"x", "y"} : p[v] = 0}
Guessing == csp.mode = "satisfy" /\ ~csp.handled /\ csp.product > 0 /\ Guesses # {}

Guess ==
  /\ Falling /\ Guessing
  /\ answer' \in Guesses
  /\ status' = SAT
  /\ lane' = "print"
  /\ UNCHANGED <<csp, pc, dom, stack, ret, cp_nodes, bestx, printed, stop, nodes, seen, word>>

(* csp_try_alldiff: a small search of its own, over bounded variables.     *)
Alldiff ==
  /\ Falling /\ ~Guessing
  /\ csp.mode = "satisfy" /\ csp.alldiff /\ csp.free = {}
  /\ answer' \in csp.sols
  /\ status' = SAT
  /\ lane' = "print"
  /\ UNCHANGED <<csp, pc, dom, stack, ret, cp_nodes, bestx, printed, stop, nodes, seen, word>>

Unhandled ==
  /\ Falling /\ ~Guessing /\ ~csp.handled
  /\ status' = UNKNOWN
  /\ lane' = "print"
  /\ UNCHANGED <<csp, pc, dom, stack, ret, cp_nodes, bestx, printed, stop, answer, nodes, seen, word>>

StartMip ==
  /\ Falling /\ csp.handled
  /\ lane' = "mip"
  /\ UNCHANGED <<vars, stop, answer, nodes, seen, word>>

----------------------------------------------------------------------------
(* The MIP bridge.                                                         *)

node_limit == IF csp.node_limit > 0 THEN csp.node_limit ELSE MIP_NODES

(* A node that hands a solution to fz_solution_cb, or none.                *)
MipNode ==
  /\ lane = "mip" /\ nodes < node_limit /\ ~stop
  /\ nodes' = nodes + 1
  /\ \/ UNCHANGED <<printed, seen>>
     \/ \E p \in InBox :
          /\ all /\ Output(p) \notin seen
          /\ seen' = seen \union {Output(p)}
          /\ printed' = Append(printed, Output(p))
  /\ UNCHANGED <<csp, pc, dom, stack, ret, cp_nodes, bestx, status, lane, stop, answer, word>>

MipCut_StopOnly ==          \* the node limit and failures forgotten
  /\ lane = "mip" /\ stop
  /\ status' = NODECAP
  /\ lane' = "print"
  /\ UNCHANGED <<csp, pc, dom, stack, ret, cp_nodes, bestx, printed, stop, answer, nodes, seen, word>>

(* The node limit, a stop, or a relaxation that fails or is rejected.      *)
MipCut ==
  /\ lane = "mip" /\ (nodes >= node_limit \/ stop \/ nodes > 0)
  /\ status' \in {UNKNOWN, NODECAP}
  /\ lane' = "print"
  /\ UNCHANGED <<csp, pc, dom, stack, ret, cp_nodes, bestx, printed, stop, answer, nodes, seen, word>>

(* An optimum at the synthetic bound of an objective variable proves       *)
(* nothing, nor does infeasibility of the clamped box.                     *)
objective_uses_synthetic_bound(p) == \E v \in csp.terms \intersect csp.free : p[v] \in csp.big

UnsatInBox_IsProof == UNSAT         \* the box's infeasibility taken for the model's

UnsatInBox == IF csp.free = {} THEN UNSAT ELSE UNKNOWN

(* How much a beats b, and whether that is no more than the gap.           *)
Gain(a, b) == IF csp.mode = "minimize" THEN b - a ELSE a - b
Abs(a) == IF a < 0 THEN -a ELSE a
WithinGap(a, b) == GapDen * Gain(a, b) <= GapNum * (1 + Abs(b))

(* What MipPromise lets the search report, after fz_solve's downgrades.    *)
MipVerdict ==
  \/ \E p \in InBox :
       /\ csp.mode = "satisfy" \/ (opt /\ \A q \in InBox : WithinGap(csp.obj[q], csp.obj[p]))
       /\ answer' = p
       /\ status' = IF opt /\ objective_uses_synthetic_bound(p) THEN UNKNOWN ELSE SAT
  \/ /\ all /\ InBox # {} /\ \A p \in InBox : Output(p) \in seen
     /\ status' = SAT /\ UNCHANGED answer
  \/ /\ InBox = {}
     /\ status' = UnsatInBox
     /\ UNCHANGED answer

MipEnds ==
  /\ lane = "mip"
  /\ MipVerdict
  /\ lane' = "print"
  /\ UNCHANGED <<csp, pc, dom, stack, ret, cp_nodes, bestx, printed, stop, nodes, seen, word>>

----------------------------------------------------------------------------
(* fznsolve's main: the exhaustion stamp, then the line printed.  (The     *)
(* bound coherence of an optimum always holds: CpSearch's bound is the     *)
(* optimum, the MIP's dominates it, BranchBound!BestBoundDominates.)       *)
Stamped(s) ==
  IF s = UNSAT /\ csp.node_limit > 0 /\ nodes >= csp.node_limit THEN UNKNOWN ELSE s

AllLine(s) ==
  IF printed = << >> THEN IF s \in {SAT, UNSAT} THEN UNSATISFIABLE ELSE UNKNOWN_LINE
  ELSE IF s = SAT THEN COMPLETE ELSE NONE

fz_print_solution ==
  /\ lane = "print"
  /\ LET told == Stamped(status)
     IN  IF all THEN word' = AllLine(told) /\ UNCHANGED printed
         ELSE CASE told = SAT ->
                     /\ printed' = Append(printed, Output(answer))
                     /\ word' = IF opt THEN COMPLETE ELSE SOLUTION
                [] told = UNSAT -> word' = UNSATISFIABLE /\ UNCHANGED printed
                [] told \in {UNKNOWN, NODECAP} -> word' = UNKNOWN_LINE /\ UNCHANGED printed
  /\ lane' = "over"
  /\ UNCHANGED <<csp, pc, dom, stack, ret, cp_nodes, bestx, status, stop, answer, nodes, seen>>

(* psolve_fail anywhere before the printing: main's setjmp, no verdict.    *)
Fail ==
  /\ lane \in {"cp", "mip"}
  /\ lane' = "over"
  /\ UNCHANGED <<vars, stop, answer, nodes, seen, word>>

(* SIGALRM of -t, or SIGINT.                                               *)
Alarm ==
  /\ ~stop /\ lane # "over"
  /\ stop' = TRUE
  /\ UNCHANGED <<vars, lane, answer, nodes, seen, word>>

Work ==
  \/ CpStep \/ CpAnswers
  \/ Guess \/ Alldiff \/ Unhandled \/ StartMip
  \/ MipNode \/ MipCut \/ MipEnds
  \/ fz_print_solution

FznNext == Work \/ Fail \/ Alarm

FznSpec == FznInit /\ [][FznNext]_allvars /\ WF_allvars(Work)

----------------------------------------------------------------------------
(* Properties.                                                             *)

FznTypeOK ==
  /\ lane \in {"cp", "mip", "print", "over"}
  /\ stop \in BOOLEAN
  /\ answer \in [Vars -> Int] \union {NoPoint}
  /\ nodes \in Nat /\ (lane = "mip" => nodes <= node_limit)
  /\ seen \subseteq Printed
  /\ word \in {NONE, UNSATISFIABLE, UNKNOWN_LINE, SOLUTION, COMPLETE}

(* UNSATISFIABLE is printed only of models without a solution, whichever   *)
(* engine decided, whatever was clamped, stamped or cut short, and also of *)
(* an enumeration that printed nothing.                                    *)
PrintedUnsatIsReal == word = UNSATISFIABLE => csp.sols = {}

(* q does not unseat the answer: the engine's (pc is "done") is exact, the *)
(* bridge's good to its gap.                                               *)
Unbeaten(q) ==
  IF pc = "done" THEN ~Beats(csp.obj[q], csp.obj[answer])
  ELSE WithinGap(csp.obj[q], csp.obj[answer])

(* COMPLETE after a point: it is a solution that none in the clamped box   *)
(* unseats.                                                                *)
PrintedOptimumInBox ==
  word = COMPLETE /\ opt => answer \in csp.sols /\ \A q \in InBox : Unbeaten(q)

(* COMPLETE after an enumeration: every output of the clamped box was      *)
(* printed, by the two engines together.                                   *)
PrintedEnumerationInBox ==
  word = COMPLETE /\ all => {Output(p) : p \in InBox} \subseteq Printed

(* A line that claims a proof is true of the clamped box, and an           *)
(* UNSATISFIABLE of the model itself.                                      *)
PrintedVerdictIsReal ==
  PrintedUnsatIsReal /\ PrintedOptimumInBox /\ PrintedEnumerationInBox

(* Every run ends, also one that is asked to stop and one that falls from  *)
(* engine to engine.                                                       *)
EventuallyAnswers == <>(lane = "over")

(* docs/ROADMAP_AMBITIOUS.md: never fabricate a solution.                  *)
PrintedPointsAreSolutions == Printed \subseteq {Output(p) : p \in csp.sols}

(* The comment at the synthetic bound: fznsolve never prints a fabricated  *)
(* optimum -- one that a solution of the model unseats.                    *)
PrintedOptimumIsReal == word = COMPLETE /\ opt => \A q \in csp.sols : Unbeaten(q)

(* docs/DESIGN.md: a result stopped by the gap "may never be called an     *)
(* exact optimum".  The bridge's may be (README, section 7).               *)
PrintedOptimumIsExact ==
  word = COMPLETE /\ opt => \A q \in InBox : ~Beats(csp.obj[q], csp.obj[answer])

(* The comment at the engine's callback: each distinct output is printed   *)
(* exactly once.                                                           *)
EachPrintedOnce == \A i, k \in DOMAIN printed : printed[i] = printed[k] => i = k
=============================================================================
