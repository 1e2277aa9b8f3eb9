------------------------------ MODULE MipProofs ------------------------------
(***************************************************************************)
(* mip_solve and mipsolve.  The inductive invariant of BranchBound and what*)
(* follows from it: a proven optimum is within the gap, INFEASIBLE is a    *)
(* proof, a truncated search is honest, the reported bound dominates, and  *)
(* the search implements MipPromise -- for every set of models, any number *)
(* of variables, unbounded boxes and any gap up to 1.  First the order of  *)
(* objective values and the types, then the invariant.  Then, for a finite *)
(* number of variables, the tree: a binary partition of the model's box,   *)
(* of which an enumeration hands each solution out exactly once.  Last,    *)
(* what mipsolve prints follows the model.                                 *)
(***************************************************************************)
EXTENDS MipCli, FiniteSetTheorems, TLAPS

(* Multiplication by a natural number is monotone.                         *)
LEMMA TimesMonotone ==
  ASSUME NEW a \in Int, NEW b \in Int, NEW c \in Nat, a <= b
  PROVE  c * a <= c * b
<1>1. PICK d \in Nat : b = a + d
  <2>1. b - a \in Nat  OBVIOUS
  <2>2. b = a + (b - a)  OBVIOUS
  <2> QED BY <2>1, <2>2
<1>2. c * b = c * a + c * d  BY <1>1
<1>3. c * d \in Nat  OBVIOUS
<1> QED BY <1>2, <1>3

(* The gap test survives an improvement of the incumbent, provided the     *)
(* gap is at most 1: what could not beat v by the gap cannot beat a better *)
(* w by the gap.                                                           *)
LEMMA GapSurvives ==
  ASSUME MipType(mip), NEW o \in Int, NEW v \in Int, NEW w \in Int,
         WithinGap(o, v), ~Better(v, w)
  PROVE  WithinGap(o, w)
<1> DEFINE d == Gain(w, v)
<1> USE GapAssumption
<1>1. d \in Nat /\ Gain(o, w) = Gain(o, v) - d /\ Gain(o, v) \in Int
  BY DEF Better, Gain, MipType
<1>2. GapDen * Gain(o, w) = GapDen * Gain(o, v) - GapDen * d
  BY <1>1
<1>3. GapNum * d <= GapDen * d
  <2>1. d * GapNum <= d * GapDen  BY <1>1, TimesMonotone
  <2> HIDE DEF d
  <2> QED BY <2>1, <1>1
<1>4. 1 + Abs(v) - d <= 1 + Abs(w)
  <2>1. CASE mip.maximize
    BY <2>1, <1>1 DEF Abs, Gain, Better
  <2>2. CASE ~mip.maximize
    BY <2>2, <1>1 DEF Abs, Gain, Better
  <2> QED BY <2>1, <2>2
<1>5. GapNum * (1 + Abs(v) - d) <= GapNum * (1 + Abs(w))
  <2>1. 1 + Abs(v) - d \in Int /\ 1 + Abs(w) \in Int  BY <1>1 DEF Abs
  <2> QED BY <2>1, <1>4, TimesMonotone
<1>6. GapNum * (1 + Abs(v) - d) = GapNum * (1 + Abs(v)) - GapNum * d
  BY <1>1 DEF Abs
<1>7. GapDen * Gain(o, v) <= GapNum * (1 + Abs(v))
  BY DEF WithinGap
<1>8. GapDen * Gain(o, w) <= GapNum * (1 + Abs(w))
  <2> DEFINE A == GapDen * Gain(o, v)   B == GapDen * d
             C == GapNum * (1 + Abs(v)) D == GapNum * d
             E == GapNum * (1 + Abs(w)) F == GapDen * Gain(o, w)
             G == GapNum * (1 + Abs(v) - d)
  <2>1. A \in Int /\ B \in Int /\ C \in Int /\ D \in Int /\ E \in Int /\ F \in Int
        /\ G \in Int
    BY <1>1 DEF Abs
  <2>2. F = A - B /\ D <= B /\ G <= E /\ G = C - D /\ A <= C
    BY <1>2, <1>3, <1>5, <1>6, <1>7
  <2> HIDE DEF A, B, C, D, E, F, G
  <2>3. F <= E  BY <2>1, <2>2
  <2> QED BY <2>3 DEF F, E
<1> QED BY <1>8 DEF WithinGap

----------------------------------------------------------------------------
(* Type correctness.                                                       *)

(* Models are typed.                                                       *)
LEMMA ModelType == ASSUME mip \in MIPs PROVE MipType(mip)
BY MIPsAssumption

(* A point between two others.                                             *)
LEMMA BetweenType ==
  ASSUME NEW a \in Point, NEW b \in Point, NEW p \in Between(a, b)
  PROVE  p \in Point /\ \A j \in Vars : a[j] <= p[j] /\ p[j] <= b[j]
BY DEF Between, Point

(* What a relaxation may return: its bound is no worse than any point of   *)
(* the node, and an integral one is a point of it.                         *)
LEMMA RelaxationType ==
  ASSUME TypeOK, NEW rx \in Relaxations(node)
  PROVE  /\ rx \in RelaxType
         /\ \A p \in Points(node) : ~Better(mip.obj[p], rx.obj)
         /\ rx.frac = {} => rx.base \in Points(node) /\ rx.obj = mip.obj[rx.base]
<1> USE DEF RelaxType
<1>1. MipType(mip) /\ node.lo \in Point /\ node.hi \in Point
  BY ModelType DEF TypeOK, NodeType
<1>2. CASE \E p \in Points(node) :
             /\ \A r \in Points(node) : ~Better(mip.obj[r], mip.obj[p])
             /\ rx = [obj |-> mip.obj[p], base |-> p, frac |-> {}]
  BY <1>1, <1>2 DEF Points, MipType
<1>3. CASE /\ rx \in [obj : mip.values, base : Between(node.lo, node.hi),
                      frac : (SUBSET Vars) \ {{}}]
           /\ \A p \in Points(node) : ~Better(mip.obj[p], rx.obj)
  <2>1. rx.base \in Between(node.lo, node.hi) /\ rx.obj \in mip.values
        /\ rx.frac \in SUBSET Vars /\ rx.frac # {}
        /\ rx = [obj |-> rx.obj, base |-> rx.base, frac |-> rx.frac]
    BY <1>3
  <2>2. rx.base \in Point  BY <1>1, <2>1, BetweenType
  <2>3. rx.obj \in Int  BY <1>1, <2>1 DEF MipType
  <2>4. rx \in RelaxType  BY <2>1, <2>2, <2>3
  <2> QED BY <1>3, <2>1, <2>4
<1> QED BY <1>2, <1>3 DEF Relaxations

(* Rounding gives a point of the node or none.                             *)
LEMMA RoundedType ==
  ASSUME NEW rx, NEW nd, NEW xc \in Rounded(rx, nd)
  PROVE  xc \in Points(nd) \union {NoPoint}
BY DEF Rounded

(* A pushed node is on the stack's type.                                   *)
LEMMA AppendType ==
  ASSUME NEW S, NEW s \in Seq(S), NEW e \in S
  PROVE  Append(s, e) \in Seq(S)
OBVIOUS

(* Children are nodes.                                                     *)
LEMMA ChildrenType ==
  ASSUME TypeOK, NEW j \in Vars, NEW v \in Int, NEW c \in Children(j, v)
  PROVE  c \in NodeType
BY DEF TypeOK, NodeType, RelaxType, Children, Child, Point

(* The type invariant holds at first.                                      *)
LEMMA TypeInit == Init => TypeOK
<1> SUFFICES ASSUME Init PROVE TypeOK
  OBVIOUS
<1>1. mip \in MIPs /\ MipType(mip)  BY ModelType DEF Init
<1>2. NoNode \in NodeType /\ NoRelax \in RelaxType
  BY <1>1 DEF NoNode, NodeType, NoRelax, RelaxType, MipType
<1>3. emitted \in Seq(mip.feas)
  BY DEF Init
<1>4. status \in OPTIMAL .. INVALID /\ best_bound \in Int /\ nodes \in Nat
  BY DEF Init, OPTIMAL, INFEASIBLE, INVALID
<1>5. \A nd \in open : nd \in NodeType
  BY DEF Init
<1> QED BY <1>1, <1>2, <1>3, <1>4, <1>5 DEF Init, TypeOK

(* A step keeps the types.                                                 *)
LEMMA TypeStep == TypeOK /\ RelaxInv /\ [Next]_vars => TypeOK'
<1> SUFFICES ASSUME TypeOK, RelaxInv, [Next]_vars PROVE TypeOK'
  OBVIOUS
<1> USE DEF OPTIMAL, INFEASIBLE, UNBOUNDED, NODE_LIMIT, STOPPED, FEASIBLE, NUMERICAL,
            INVALID
<1>m. MipType(mip) /\ NoNode \in NodeType /\ NoRelax \in RelaxType
  BY ModelType DEF TypeOK, NoNode, NodeType, NoRelax, RelaxType, MipType
<1>n. mip' = mip => NoNode' = NoNode /\ NoRelax' = NoRelax
  BY DEF NoNode, NoRelax
<1>1. CASE RootTighten
  <2>1. PICK lo \in Between(mip.lo, mip.hi) : \E hi \in Between(lo, mip.hi) :
          open' = {[lo |-> lo, hi |-> hi, bound |-> 0]}
    BY <1>1 DEF RootTighten
  <2>2. PICK hi \in Between(lo, mip.hi) : open' = {[lo |-> lo, hi |-> hi, bound |-> 0]}
    BY <2>1
  <2>3. lo \in Point /\ hi \in Point
    BY <1>m, <2>1, <2>2, BetweenType DEF MipType
  <2>4. [lo |-> lo, hi |-> hi, bound |-> 0] \in NodeType
    BY <2>3 DEF NodeType
  <2>5. \A nd \in open' : nd \in NodeType
    BY <2>2, <2>4
  <2> QED BY <1>1, <2>5 DEF RootTighten, TypeOK
<1>2. CASE RootInfeasible
  BY <1>2 DEF RootInfeasible, TypeOK
<1>3. CASE LoopLimit \/ LoopStop
  <2>1. status' \in OPTIMAL .. INVALID
    BY <1>3 DEF LoopLimit, LoopStop, Break
  <2>4. limit_reached' \in BOOLEAN
    BY <1>3, Zenon DEF LoopLimit, LoopStop, Break
  <2>2. node' = NoNode /\ relax' = NoRelax /\ pc' = "finish"
    BY <1>3 DEF LoopLimit, LoopStop, Break
  <2>3. UNCHANGED <<mip, open, bestx, best_bound, nodes, emitted, stopped_early,
                    proven_optimal>>
    BY <1>3 DEF LoopLimit, LoopStop
  <2> QED BY <1>m, <2>1, <2>2, <2>3, <2>4 DEF TypeOK
<1>4. CASE Pop
  BY <1>4 DEF Pop, Heads, TypeOK
<1>5. CASE TreeExhausted
  BY <1>5 DEF TreeExhausted, TypeOK
<1>6. CASE RelaxInfeasible
  BY <1>6, <1>m DEF RelaxInfeasible, Drop, TypeOK
<1>7. CASE RelaxUnbounded
  <2>1. status' \in OPTIMAL .. INVALID
    BY <1>7 DEF RelaxUnbounded, Break
  <2>4. limit_reached' \in BOOLEAN
    BY <1>7, Zenon DEF RelaxUnbounded, Break
  <2>2. node' = NoNode /\ relax' = NoRelax /\ pc' = "finish"
    BY <1>7 DEF RelaxUnbounded, Break
  <2>3. UNCHANGED <<mip, open, bestx, best_bound, nodes, emitted, stopped_early,
                    proven_optimal>>
    BY <1>7 DEF RelaxUnbounded
  <2> QED BY <1>m, <2>1, <2>2, <2>3, <2>4 DEF TypeOK
<1>8. CASE RelaxGivesUp
  <2>1. PICK v \in DOMAIN GiveUpStatus : Break(GiveUpStatus[v], TRUE)
    BY <1>8 DEF RelaxGivesUp
  <2>2. GiveUpStatus[v] \in OPTIMAL .. INVALID
    BY <2>1 DEF GiveUpStatus
  <2> QED BY <1>8, <1>m, <2>1, <2>2 DEF RelaxGivesUp, Break, TypeOK
<1>9. CASE RelaxSolved
  <2>1. PICK rx \in Relaxations(node) :
          /\ best_bound' \in {rx.obj, best_bound}
          /\ IF Prunable(rx.obj) THEN Drop
             ELSE relax' = rx /\ pc' = "round" /\ UNCHANGED node
    BY <1>9 DEF RelaxSolved
  <2>2. rx \in RelaxType  BY RelaxationType
  <2>3. best_bound' \in Int  BY <2>1, <2>2 DEF TypeOK, RelaxType
  <2> QED BY <1>9, <1>m, <2>1, <2>2, <2>3 DEF RelaxSolved, Drop, TypeOK
<1>10. CASE RoundingHeuristic
  <2>1. bestx' \in mip.feas \union {NoPoint}
    <3>1. PICK xc \in (IF mip.all_solutions THEN {NoPoint} ELSE Rounded(relax, node)) :
            bestx' = IF Improves(xc) THEN xc ELSE bestx
      BY <1>10 DEF RoundingHeuristic
    <3>2. xc \in mip.feas \union {NoPoint}
      BY <3>1, RoundedType DEF Points
    <3> QED BY <3>1, <3>2 DEF TypeOK
  <2>2. /\ stopped_early' \in BOOLEAN /\ limit_reached' \in BOOLEAN
        /\ status' \in OPTIMAL .. INVALID
        /\ node' \in NodeType /\ relax' \in RelaxType
        /\ pc' \in {"finish", "branch"}
    BY <1>10, <1>m DEF RoundingHeuristic, Break, TypeOK
  <2> QED BY <1>10, <2>1, <2>2 DEF RoundingHeuristic, TypeOK
<1>11. CASE BranchFractional
  <2>1. PICK j \in relax.frac : open' = open \union Children(j, relax.base[j])
    BY <1>11 DEF BranchFractional
  <2>2. j \in Vars /\ relax.base[j] \in Int
    BY <2>1 DEF TypeOK, RelaxType, Point
  <2>3. \A nd \in open' : nd \in NodeType
    BY <2>1, <2>2, ChildrenType DEF TypeOK
  <2> QED BY <1>11, <1>m, <2>3 DEF BranchFractional, Drop, TypeOK
<1>12. CASE EnumerationSplit
  <2>1. PICK j \in Unfixed : open' = open \union Children(j, SplitValue(j))
    BY <1>12 DEF EnumerationSplit
  <2>2. j \in Vars /\ SplitValue(j) \in Int
    BY <2>1 DEF TypeOK, RelaxType, NodeType, Point, Unfixed, SplitValue
  <2>3. \A nd \in open' : nd \in NodeType
    BY <2>1, <2>2, ChildrenType DEF TypeOK
  <2> QED BY <1>12, <1>m, <2>3 DEF EnumerationSplit, Drop, TypeOK
<1>13. CASE IntegralLeaf
  <2>1. relax.base \in mip.feas
    BY <1>13 DEF IntegralLeaf, RelaxInv, Points
  <2>2. bestx' \in mip.feas \union {NoPoint}
    BY <1>13, <2>1 DEF IntegralLeaf, TypeOK
  <2>4. emitted' \in Seq(mip.feas)
    <3>1. emitted \in Seq(mip.feas)  BY DEF TypeOK
    <3>2. Append(emitted, relax.base) \in Seq(mip.feas)
      BY <2>1, <3>1, AppendType
    <3>3. emitted' \in {emitted, Append(emitted, relax.base)}
      BY <1>13 DEF IntegralLeaf
    <3> QED BY <3>1, <3>2, <3>3
  <2>3. /\ stopped_early' \in BOOLEAN /\ limit_reached' \in BOOLEAN
        /\ status' \in OPTIMAL .. INVALID
        /\ node' \in NodeType /\ relax' \in RelaxType
        /\ pc' \in {"finish", "loop"}
    BY <1>13, <1>m DEF IntegralLeaf, Break, Drop, TypeOK
  <2> QED BY <1>13, <2>2, <2>3, <2>4 DEF IntegralLeaf, TypeOK
<1>14. CASE Finish
  BY <1>14 DEF Finish, TypeOK, have_incumbent
<1>15. CASE UNCHANGED vars
  BY <1>15 DEF vars, TypeOK, NodeType
<1> QED
  BY <1>1, <1>2, <1>3, <1>4, <1>5, <1>6, <1>7, <1>8, <1>9, <1>10, <1>11, <1>12,
     <1>13, <1>14, <1>15 DEF Next

(* A step keeps the relaxation of the current node honest.                 *)
LEMMA RelaxStep == TypeOK /\ RelaxInv /\ [Next]_vars => RelaxInv'
<1> SUFFICES ASSUME TypeOK, RelaxInv, [Next]_vars PROVE RelaxInv'
  OBVIOUS
<1>1. CASE RelaxSolved
  <2>1. PICK rx \in Relaxations(node) :
          IF Prunable(rx.obj) THEN Drop
             ELSE relax' = rx /\ pc' = "round" /\ UNCHANGED node
    BY <1>1 DEF RelaxSolved
  <2>2. mip' = mip  BY <1>1 DEF RelaxSolved
  <2> QED BY <2>1, <2>2, RelaxationType
          DEF RelaxInv, Drop, Points, Better, Gain, Inside
<1>2. CASE RoundingHeuristic
  BY <1>2 DEF RoundingHeuristic, Break, RelaxInv, Points, Better, Gain, Inside
<1>3. CASE UNCHANGED vars
  BY <1>3 DEF vars, RelaxInv, Points, Better, Gain, Inside
<1>4. ASSUME RootTighten \/ RootInfeasible \/ LoopLimit \/ LoopStop \/ Pop
             \/ TreeExhausted \/ RelaxInfeasible \/ RelaxUnbounded \/ RelaxGivesUp
             \/ BranchFractional \/ EnumerationSplit \/ IntegralLeaf \/ Finish
      PROVE  pc' \notin {"round", "branch"}
  BY <1>4 DEF RootTighten, RootInfeasible, LoopLimit, LoopStop, Pop, TreeExhausted,
     RelaxInfeasible, RelaxUnbounded, RelaxGivesUp, BranchFractional, EnumerationSplit,
     IntegralLeaf, Finish, Break, Drop
<1> QED BY <1>1, <1>2, <1>3, <1>4 DEF Next, RelaxInv

(* mip_solve's state is well typed: the incumbent and every point handed   *)
(* out are integer-feasible points of the model.                           *)
THEOREM TypeCorrect == Spec => [](TypeOK /\ RelaxInv)
<1>1. Init => TypeOK /\ RelaxInv
  BY TypeInit DEF Init, RelaxInv
<1>2. TypeOK /\ RelaxInv /\ [Next]_vars => (TypeOK /\ RelaxInv)'
  BY TypeStep, RelaxStep
<1> QED BY <1>1, <1>2, PTL DEF Spec

----------------------------------------------------------------------------

(* Order of objective values.                                              *)
LEMMA GainInt ==
  ASSUME TypeOK, NEW a \in Int, NEW b \in Int
  PROVE  Gain(a, b) \in Int
BY DEF Gain

(* The order of the objective's sense, and gains along it.                 *)
LEMMA Order ==
  ASSUME TypeOK, NEW a \in Int, NEW b \in Int, NEW c \in Int
  PROVE  /\ ~Better(a, a)
         /\ Better(a, b) => ~Better(b, a)
         /\ ~Better(a, b) /\ ~Better(b, c) => ~Better(a, c)
         /\ Gain(a, c) = Gain(a, b) + Gain(b, c)
BY DEF Better, Gain

(* A value no better than another is within any gap of it.                 *)
LEMMA GapOfWorse ==
  ASSUME TypeOK, NEW o \in Int, NEW v \in Int, ~Better(o, v)
  PROVE  WithinGap(o, v)
<1> DEFINE d == Gain(o, v)   a == 1 + Abs(v)
<1>1. d \in Int /\ d <= 0 /\ a \in Nat
  <2>1. d \in Int  BY GainInt
  <2>2. d <= 0  BY <2>1 DEF Better
  <2>3. a \in Nat  BY DEF Abs
  <2> QED BY <2>1, <2>2, <2>3
<1>2. GapDen * d <= 0
  <2> HIDE DEF d
  <2>1. GapDen * d <= GapDen * 0  BY <1>1, TimesMonotone, GapAssumption
  <2> QED BY <2>1, <1>1, GapAssumption
<1>3. GapNum * a >= 0
  <2> HIDE DEF a
  <2>1. GapNum * 0 <= GapNum * a  BY <1>1, TimesMonotone, GapAssumption
  <2> QED BY <2>1, <1>1, GapAssumption
<1>4. GapDen * d \in Int /\ GapNum * a \in Int
  BY <1>1, GapAssumption
<1>5. GapDen * d <= GapNum * a
  <2> HIDE DEF a, d
  <2> QED BY <1>2, <1>3, <1>4
<1> QED BY <1>5 DEF WithinGap

(* Nothing under a bound within the gap leaves the gap.                    *)
LEMMA GapBelow ==
  ASSUME TypeOK, NEW o \in Int, NEW b \in Int, NEW v \in Int,
         ~Better(o, b), WithinGap(b, v)
  PROVE  WithinGap(o, v)
<1> DEFINE d == Gain(o, v)   e == Gain(b, v)   g == GapNum * (1 + Abs(v))
<1>1. d \in Int /\ e \in Int /\ d <= e /\ g \in Int
  BY GainInt, Order, GapAssumption DEF Better, Abs, Gain
<1>2. GapDen * e <= g  BY DEF WithinGap
<1>3. GapDen * d <= GapDen * e
  <2> HIDE DEF d, e
  <2> QED BY <1>1, TimesMonotone, GapAssumption
<1>4. GapDen * d \in Int /\ GapDen * e \in Int
  BY <1>1, GapAssumption
<1>5. GapDen * d <= g
  <2> HIDE DEF d, e, g
  <2> QED BY <1>1, <1>2, <1>3, <1>4
<1> QED BY <1>5 DEF WithinGap

(* Feasible points have integer objectives.                                *)
LEMMA PointFacts ==
  ASSUME TypeOK, NEW p \in mip.feas
  PROVE  mip.obj[p] \in Int /\ p \in Point /\ p # NoPoint
BY ModelType, NoPointAssumption DEF TypeOK, MipType

(* An incumbent is a feasible point.                                       *)
LEMMA IncumbentFacts ==
  ASSUME TypeOK, have_incumbent
  PROVE  bestx \in mip.feas /\ incumbent \in Int
BY PointFacts DEF TypeOK, have_incumbent, incumbent

(* The model never changes, and with it neither do its orders.             *)
LEMMA MipFixed ==
  ASSUME [Next]_vars
  PROVE  mip' = mip
BY DEF Next, vars, RootTighten, RootInfeasible, LoopLimit, LoopStop, Pop,
   TreeExhausted, RelaxInfeasible, RelaxUnbounded, RelaxGivesUp, RelaxSolved,
   RoundingHeuristic, BranchFractional, EnumerationSplit, IntegralLeaf, Finish

(* The order and the gap depend on the model only.                         *)
LEMMA OrdersFixed ==
  ASSUME mip' = mip
  PROVE  /\ \A a, b : Better(a, b)' <=> Better(a, b)
         /\ \A a, b : WithinGap(a, b)' <=> WithinGap(a, b)
         /\ enumerating' <=> enumerating
         /\ bestx' = bestx =>
              incumbent' = incumbent /\ (have_incumbent' <=> have_incumbent)
BY DEF Better, WithinGap, Gain, enumerating, incumbent, have_incumbent

(* What a verdict of solve_relaxation can be trusted for.                  *)
LEMMA VerdictFacts ==
  ASSUME NEW nd
  PROVE  /\ "infeasible" \in Verdicts(nd) => Points(nd) = {}
         /\ "optimal" \in Verdicts(nd) => ~mip.ray
         /\ "unbounded" \in Verdicts(nd) => mip.ray
<1>1. ASSUME NEW v \in DoubleVerdicts(nd)
      PROVE  /\ "infeasible" \in Arbitrated(nd, v) => Points(nd) = {}
             /\ "optimal" \in Arbitrated(nd, v) => ~mip.ray
             /\ "unbounded" \in Arbitrated(nd, v) => mip.ray
  BY <1>1 DEF DoubleVerdicts, Arbitrated, ExactVerdicts, Exposed
<1> QED BY <1>1 DEF Verdicts

----------------------------------------------------------------------------
(* The parts of the invariant, one step lemma each.                        *)

(* A step keeps the phases' facts.                                         *)
LEMMA PhaseStep ==
  ASSUME TypeOK, SearchInv, Next
  PROVE  PhaseInv'
<1> USE DEF PhaseInv, have_incumbent, OPTIMAL, INFEASIBLE, UNBOUNDED, NODE_LIMIT,
            STOPPED, FEASIBLE, NUMERICAL, INVALID
<1>1. PhaseInv /\ nodes \in Nat  BY DEF SearchInv, TypeOK
<1>2. CASE RootTighten  BY <1>1, <1>2 DEF RootTighten
<1>3. CASE RootInfeasible  BY <1>1, <1>3 DEF RootInfeasible
<1>4. CASE LoopLimit  BY <1>1, <1>4 DEF LoopLimit, Break
<1>5. CASE LoopStop  BY <1>1, <1>5 DEF LoopStop, Break
<1>6. CASE Pop  BY <1>1, <1>6 DEF Pop
<1>7. CASE TreeExhausted  BY <1>1, <1>7 DEF TreeExhausted
<1>8. CASE RelaxInfeasible  BY <1>1, <1>8 DEF RelaxInfeasible, Drop
<1>9. CASE RelaxUnbounded
  <2>1. mip.ray  BY <1>9, VerdictFacts DEF RelaxUnbounded
  <2>2. ~have_incumbent  BY <1>9 DEF SearchInv, BoundInv, RelaxUnbounded
  <2> QED BY <1>1, <1>9, <2>1, <2>2 DEF RelaxUnbounded, Break
<1>10. CASE RelaxGivesUp
  <2>1. PICK v \in DOMAIN GiveUpStatus : Break(GiveUpStatus[v], TRUE)
    BY <1>10 DEF RelaxGivesUp
  <2>2. GiveUpStatus[v] \in {NODE_LIMIT, STOPPED, NUMERICAL, INVALID}
    BY <2>1 DEF GiveUpStatus
  <2> QED BY <1>1, <1>10, <2>1, <2>2 DEF RelaxGivesUp, Break
<1>11. CASE RelaxSolved
  <2>1. pc' \in {"loop", "round"}  BY <1>11 DEF RelaxSolved, Drop
  <2> QED BY <1>1, <1>11, <2>1 DEF RelaxSolved
<1>12. CASE RoundingHeuristic
  <2>1. CASE mip.stop_at_feasible /\ bestx' # NoPoint /\ ~mip.all_solutions
    <3>1. status' = INFEASIBLE /\ limit_reached' = FALSE /\ pc' = "finish"
      BY <1>1, <1>12, <2>1 DEF RoundingHeuristic, Break
    <3> QED BY <1>1, <1>12, <2>1, <3>1 DEF RoundingHeuristic
  <2>2. CASE ~(mip.stop_at_feasible /\ bestx' # NoPoint /\ ~mip.all_solutions)
    BY <1>1, <1>12, <2>2 DEF RoundingHeuristic
  <2> QED BY <2>1, <2>2
<1>13. CASE BranchFractional  BY <1>1, <1>13 DEF BranchFractional, Drop
<1>14. CASE EnumerationSplit  BY <1>1, <1>14 DEF EnumerationSplit, Drop
<1>15. CASE IntegralLeaf
  <2>1. CASE Improves(relax.base) /\ mip.stop_at_feasible /\ ~mip.all_solutions
    <3>1. status' = INFEASIBLE /\ limit_reached' = FALSE /\ pc' = "finish"
          /\ bestx' # NoPoint
      BY <1>1, <1>15, <2>1 DEF IntegralLeaf, Break, Improves
    <3> QED BY <1>1, <1>15, <3>1 DEF IntegralLeaf
  <2>2. CASE ~(Improves(relax.base) /\ mip.stop_at_feasible /\ ~mip.all_solutions)
    <3>1. pc' = "loop" /\ UNCHANGED <<status, limit_reached, stopped_early>>
      BY <1>15, <2>2 DEF IntegralLeaf, Drop
    <3>2. pc = "branch" /\ nodes' = nodes /\ proven_optimal' = proven_optimal
      BY <1>15 DEF IntegralLeaf
    <3> QED BY <1>1, <3>1, <3>2
  <2> QED BY <2>1, <2>2
<1>16. CASE Finish  BY <1>1, <1>16 DEF Finish
<1> QED
  BY <1>2, <1>3, <1>4, <1>5, <1>6, <1>7, <1>8, <1>9, <1>10, <1>11, <1>12, <1>13,
     <1>14, <1>15, <1>16 DEF Next

(* A step keeps the root's facts.                                          *)
LEMMA RootStep ==
  ASSUME TypeOK, SearchInv, Next
  PROVE  RootInv'
<1>1. RootInv /\ nodes \in Nat /\ mip' = mip
  BY MipFixed DEF SearchInv, TypeOK
<1>2. pc \in {"relax", "round", "branch"} => nodes > 0
  BY DEF SearchInv, PhaseInv
<1>3. CASE RootTighten
  BY <1>1, <1>3 DEF RootTighten, RootInv, SearchInv, PhaseInv
<1>4. CASE Pop
  <2>1. PICK nd \in open : open' = open \ {nd}
    BY <1>4 DEF Pop, Heads
  <2>2. pc' = "relax" /\ nodes' = nodes + 1  BY <1>4 DEF Pop
  <2>3. mip.ray => nodes = 0 /\ open' = {}
    BY <1>1, <1>4, <2>1 DEF RootInv, Pop
  <2> QED BY <1>1, <2>2, <2>3 DEF RootInv
<1>5. CASE RelaxSolved
  <2>1. ~mip.ray  BY <1>5, VerdictFacts DEF RelaxSolved
  <2>2. nodes' = nodes  BY <1>5 DEF RelaxSolved
  <2> QED BY <1>1, <1>2, <1>5, <2>1, <2>2 DEF RootInv, RelaxSolved
<1>6. CASE RoundingHeuristic \/ BranchFractional \/ EnumerationSplit \/ IntegralLeaf
  <2>1. ~mip.ray /\ nodes > 0 /\ nodes' = nodes
    BY <1>1, <1>2, <1>6 DEF RootInv, RoundingHeuristic, BranchFractional,
       EnumerationSplit, IntegralLeaf
  <2> QED BY <1>1, <2>1 DEF RootInv
<1>7. CASE \/ RootInfeasible \/ LoopLimit \/ LoopStop \/ TreeExhausted
           \/ RelaxInfeasible \/ RelaxUnbounded \/ RelaxGivesUp \/ Finish
  <2>1. nodes' = nodes /\ open' \in {open, {}}
    BY <1>7 DEF RootInfeasible, LoopLimit, LoopStop, TreeExhausted,
       RelaxInfeasible, RelaxUnbounded, RelaxGivesUp, Finish
  <2>2. pc' \in {"finish", "done"} \/ (pc' = "loop" /\ nodes > 0)
    BY <1>2, <1>7 DEF RootInfeasible, LoopLimit, LoopStop, TreeExhausted,
       RelaxInfeasible, RelaxUnbounded, RelaxGivesUp, Finish, Break, Drop
  <2> QED BY <1>1, <2>1, <2>2 DEF RootInv
<1> QED BY <1>3, <1>4, <1>5, <1>6, <1>7 DEF Next

(* A step that replaces the incumbent replaces it by a strictly better     *)
(* feasible point.                                                         *)
LEMMA IncumbentStep ==
  ASSUME TypeOK, SearchInv, [Next]_vars
  PROVE  bestx' = bestx \/ (bestx' \in mip.feas /\ Improves(bestx'))
<1>1. CASE RoundingHeuristic
  <2>1. PICK xc \in (IF mip.all_solutions THEN {NoPoint} ELSE Rounded(relax, node)) :
          bestx' = IF Improves(xc) THEN xc ELSE bestx
    BY <1>1 DEF RoundingHeuristic
  <2>2. xc \in mip.feas \union {NoPoint}
    BY <2>1, RoundedType DEF Points
  <2> QED BY <2>1, <2>2 DEF Improves
<1>2. CASE IntegralLeaf
  <2>1. relax.base \in mip.feas
    BY <1>2 DEF IntegralLeaf, SearchInv, RelaxInv, Points
  <2> QED BY <1>2, <2>1 DEF IntegralLeaf
<1>3. CASE ~RoundingHeuristic /\ ~IntegralLeaf
  BY <1>3 DEF Next, vars, RootTighten, RootInfeasible, LoopLimit, LoopStop, Pop,
     TreeExhausted, RelaxInfeasible, RelaxUnbounded, RelaxGivesUp, RelaxSolved,
     BranchFractional, EnumerationSplit, Finish
<1> QED BY <1>1, <1>2, <1>3

(* The incumbent never gets worse.                                         *)
LEMMA IncumbentMonotone ==
  ASSUME TypeOK, SearchInv, [Next]_vars, have_incumbent
  PROVE  /\ have_incumbent' /\ bestx' \in mip.feas /\ incumbent' = mip.obj[bestx']
         /\ ~Better(incumbent, incumbent')
<1>1. mip' = mip  BY MipFixed
<1>2. incumbent' = mip.obj[bestx']  BY <1>1 DEF incumbent
<1>3. bestx \in mip.feas /\ incumbent \in Int  BY IncumbentFacts
<1>4. CASE bestx' = bestx
  BY <1>2, <1>3, <1>4, Order DEF have_incumbent, incumbent
<1>5. CASE bestx' \in mip.feas /\ Improves(bestx')
  <2>1. Better(mip.obj[bestx'], incumbent)  BY <1>5 DEF Improves
  <2>2. bestx' # NoPoint /\ mip.obj[bestx'] \in Int  BY <1>5, PointFacts
  <2>3. ~Better(incumbent, mip.obj[bestx'])
    BY <1>3, <2>1, <2>2, Order
  <2> QED BY <1>2, <1>5, <2>2, <2>3 DEF have_incumbent
<1> QED BY <1>4, <1>5, IncumbentStep

(* Points handed out stay so; only a leaf adds one.                        *)
LEMMA EmittedStep ==
  ASSUME TypeOK, [Next]_vars
  PROVE  /\ Emitted \subseteq Emitted'
         /\ ~IntegralLeaf => Emitted' = Emitted
         /\ IntegralLeaf => Emitted' \subseteq Emitted \union {relax.base}
         /\ IntegralLeaf /\ enumerating => relax.base \in Emitted'
<1>1. CASE IntegralLeaf
  <2>1. emitted \in Seq(mip.feas)  BY DEF TypeOK
  <2>2. ASSUME NEW e, NEW s, s = Append(emitted, e)
        PROVE  {s[i] : i \in DOMAIN s} = Emitted \union {e}
    <3>1. DOMAIN s = 1 .. Len(emitted) + 1 /\ DOMAIN emitted = 1 .. Len(emitted)
          /\ Len(emitted) \in Nat
      BY <2>1, <2>2
    <3>2. \A i \in 1 .. Len(emitted) : s[i] = emitted[i]
      BY <2>1, <2>2
    <3>3. s[Len(emitted) + 1] = e
      BY <2>1, <2>2
    <3> QED BY <3>1, <3>2, <3>3 DEF Emitted
  <2>3. CASE emitted' = Append(emitted, relax.base)
    BY <1>1, <2>2, <2>3 DEF Emitted
  <2>4. CASE emitted' # Append(emitted, relax.base)
    BY <1>1, <2>4 DEF IntegralLeaf, Emitted, enumerating
  <2> QED BY <2>3, <2>4
<1>2. CASE ~IntegralLeaf
  <2>1. emitted' = emitted
    BY <1>2 DEF Next, vars, RootTighten, RootInfeasible, LoopLimit, LoopStop, Pop,
       TreeExhausted, RelaxInfeasible, RelaxUnbounded, RelaxGivesUp, RelaxSolved,
       RoundingHeuristic, BranchFractional, EnumerationSplit, Finish
  <2> QED BY <1>2, <2>1 DEF Emitted
<1> QED BY <1>1, <1>2

(* A point that needs no live box stays so.                                *)
Settled(p) ==
  \/ enumerating /\ p \in Emitted
  \/ ~enumerating /\ have_incumbent /\ WithinGap(mip.obj[p], incumbent)

(* A settled point stays settled.                                          *)
LEMMA SettledStep ==
  ASSUME TypeOK, SearchInv, [Next]_vars, NEW p \in mip.feas, Settled(p)
  PROVE  Settled(p)'
<1>1. mip' = mip  BY MipFixed
<1>2. CASE enumerating /\ p \in Emitted
  BY <1>1, <1>2, EmittedStep, OrdersFixed DEF Settled
<1>3. CASE ~enumerating /\ have_incumbent /\ WithinGap(mip.obj[p], incumbent)
  <2>1. have_incumbent' /\ incumbent' = mip.obj[bestx'] /\ mip.obj[bestx'] \in Int
        /\ ~Better(incumbent, mip.obj[bestx'])
    BY <1>3, IncumbentMonotone, PointFacts
  <2>2. mip.obj[p] \in Int /\ incumbent \in Int /\ MipType(mip)
    BY <1>3, PointFacts, IncumbentFacts, ModelType DEF TypeOK
  <2>3. WithinGap(mip.obj[p], mip.obj[bestx'])
    BY <1>3, <2>1, <2>2, GapSurvives
  <2> QED BY <1>1, <1>3, <2>1, <2>3, OrdersFixed DEF Settled
<1> QED BY <1>2, <1>3 DEF Settled

(* The two halves of a split cover the box.                                *)
LEMMA ChildrenCover ==
  ASSUME TypeOK, NEW j \in Vars, NEW v \in Int, NEW p \in Point, Inside(p, node)
  PROVE  \E c \in Children(j, v) : Inside(p, c)
<1>1. node.lo \in Point /\ node.hi \in Point /\ p[j] \in Int
  BY DEF TypeOK, NodeType, Point
<1>2. CASE p[j] <= v
  <2>1. Inside(p, Child(node.lo, [node.hi EXCEPT ![j] = v]))
    BY <1>1, <1>2 DEF Inside, Child, Point
  <2> QED BY <2>1 DEF Children
<1>3. CASE p[j] > v
  <2>1. Inside(p, Child([node.lo EXCEPT ![j] = v + 1], node.hi))
    BY <1>1, <1>3 DEF Inside, Child, Point
  <2> QED BY <2>1 DEF Children
<1> QED BY <1>1, <1>2, <1>3

(* A box with no room is one point.                                        *)
LEMMA FixedBox ==
  ASSUME TypeOK, Unfixed = {}, NEW p \in Point, Inside(p, node),
         NEW q \in Point, Inside(q, node)
  PROVE  p = q
<1>1. \A j \in Vars : p[j] = q[j]
  BY DEF Unfixed, Inside, TypeOK, NodeType, Point
<1> QED BY <1>1 DEF Point

(* A point is accounted for by an open node or for good.                   *)
LEMMA AccountedIsSettled ==
  ASSUME NEW p
  PROVE  Accounted(p) <=> (\E nd \in Live : Inside(p, nd)) \/ Settled(p)
BY DEF Accounted, Settled

(* The box being processed gives its points up only when they are settled  *)
(* or handed to its children.                                              *)
LEMMA NodeStep ==
  ASSUME TypeOK, SearchInv, Next, pc \in {"relax", "round", "branch"},
         pc' \notin {"finish", "done"}, NEW p \in mip.feas, Inside(p, node)
  PROVE  (\E nd \in Live' : Inside(p, nd)) \/ Settled(p)'
<1>m. mip' = mip /\ mip.obj[p] \in Int /\ p \in Point
  BY MipFixed, PointFacts
<1>p. p \in Points(node)  BY DEF Points
<1>1. CASE RelaxInfeasible
  <2>1. "infeasible" \notin Verdicts(node)  BY <1>p, VerdictFacts
  <2>2. mip.ray /\ nodes # 1  BY <1>1, <2>1, VerdictFacts DEF RelaxInfeasible
  <2>3. nodes > 0  BY <1>1 DEF SearchInv, PhaseInv, RelaxInfeasible
  <2> QED BY <2>2, <2>3 DEF SearchInv, RootInv
<1>2. CASE RelaxSolved
  <2>1. PICK rx \in Relaxations(node) :
          IF Prunable(rx.obj) THEN Drop
             ELSE relax' = rx /\ pc' = "round" /\ UNCHANGED node
    BY <1>2 DEF RelaxSolved
  <2>2. rx.obj \in Int /\ ~Better(mip.obj[p], rx.obj)
    BY <1>p, RelaxationType DEF RelaxType
  <2>3. CASE Prunable(rx.obj)
    <3>1. WithinGap(rx.obj, incumbent) /\ have_incumbent /\ ~enumerating
      BY <2>3 DEF Prunable, enumerating
    <3>2. WithinGap(mip.obj[p], incumbent)
      BY <1>m, <2>2, <3>1, IncumbentFacts, GapBelow
    <3>3. Settled(p)  BY <3>1, <3>2 DEF Settled
    <3> QED BY <3>3, SettledStep
  <2>4. CASE ~Prunable(rx.obj)
    BY <2>1, <2>4 DEF Live
  <2> QED BY <2>3, <2>4
<1>3. CASE RoundingHeuristic
  BY <1>3 DEF RoundingHeuristic, Break, Live
<1>4. CASE BranchFractional
  <2>1. PICK j \in relax.frac : open' = open \union Children(j, relax.base[j])
    BY <1>4 DEF BranchFractional
  <2>2. j \in Vars /\ relax.base[j] \in Int
    BY <2>1 DEF TypeOK, RelaxType, Point
  <2> QED BY <1>m, <2>1, <2>2, ChildrenCover DEF Live
<1>5. CASE EnumerationSplit
  <2>1. PICK j \in Unfixed : open' = open \union Children(j, SplitValue(j))
    BY <1>5 DEF EnumerationSplit
  <2>2. j \in Vars /\ SplitValue(j) \in Int
    BY <2>1 DEF TypeOK, RelaxType, NodeType, Point, Unfixed, SplitValue
  <2> QED BY <1>m, <2>1, <2>2, ChildrenCover DEF Live
<1>6. CASE IntegralLeaf
  <2>1. relax.base \in mip.feas /\ Inside(relax.base, node)
        /\ relax.obj = mip.obj[relax.base] /\ ~Better(mip.obj[p], relax.obj)
    BY <1>p, <1>6 DEF IntegralLeaf, SearchInv, RelaxInv, Points
  <2>2. CASE enumerating
    <3>1. Unfixed = {}  BY <1>6, <2>2 DEF IntegralLeaf
    <3>2. p = relax.base  BY <1>m, <2>1, <3>1, FixedBox, PointFacts
    <3> QED BY <1>m, <1>6, <2>2, <3>2, EmittedStep, OrdersFixed DEF Settled
  <2>3. CASE ~enumerating
    <3> DEFINE o == mip.obj[p]   b == mip.obj[relax.base]   v == mip.obj[bestx']
    <3>1. o \in Int /\ b \in Int /\ ~Better(o, b)
      BY <1>m, <2>1, PointFacts
    <3>2. bestx' # NoPoint /\ v \in Int /\ ~Better(b, v)
      <4>1. CASE Improves(relax.base)
        BY <1>6, <2>1, <3>1, <4>1, PointFacts, Order DEF IntegralLeaf
      <4>2. CASE ~Improves(relax.base)
        BY <1>6, <2>1, <4>2, PointFacts, IncumbentFacts
           DEF IntegralLeaf, Improves, incumbent, have_incumbent
      <4> QED BY <4>1, <4>2
    <3>3. ~Better(o, v)
      <4> HIDE DEF o, b, v
      <4> QED BY <3>1, <3>2, Order
    <3>4. WithinGap(o, v)
      <4> HIDE DEF o, v
      <4> QED BY <3>1, <3>2, <3>3, GapOfWorse
    <3>5. have_incumbent' /\ incumbent' = v
      BY <1>m, <3>2 DEF have_incumbent, incumbent
    <3> QED BY <1>m, <2>3, <3>4, <3>5, OrdersFixed DEF Settled
  <2> QED BY <2>2, <2>3
<1>7. CASE RelaxUnbounded \/ RelaxGivesUp
  BY <1>7 DEF RelaxUnbounded, RelaxGivesUp, Break
<1>8. CASE \/ RootTighten \/ RootInfeasible \/ LoopLimit \/ LoopStop \/ Pop
           \/ TreeExhausted \/ Finish
  BY <1>8 DEF RootTighten, RootInfeasible, LoopLimit, LoopStop, Pop, TreeExhausted,
     Finish
<1> QED BY <1>1, <1>2, <1>3, <1>4, <1>5, <1>6, <1>7, <1>8 DEF Next

(* A step loses no point.                                                  *)
LEMMA LostStep ==
  ASSUME TypeOK, SearchInv, Next
  PROVE  NothingLost'
<1> SUFFICES ASSUME pc' \notin {"root", "finish", "done"}, NEW p \in mip.feas
             PROVE  (\E nd \in Live' : Inside(p, nd)) \/ Settled(p)'
  BY MipFixed DEF NothingLost, Accounted, Settled, Inside
<1>1. CASE RootTighten
  <2>1. PICK lo \in Between(mip.lo, mip.hi) : \E hi \in Between(lo, mip.hi) :
          /\ \A q \in mip.feas, j \in Vars : lo[j] <= q[j] /\ q[j] <= hi[j]
          /\ open' = {[lo |-> lo, hi |-> hi, bound |-> 0]}
    BY <1>1 DEF RootTighten
  <2>2. PICK hi \in Between(lo, mip.hi) :
          /\ \A q \in mip.feas, j \in Vars : lo[j] <= q[j] /\ q[j] <= hi[j]
          /\ open' = {[lo |-> lo, hi |-> hi, bound |-> 0]}
    BY <2>1
  <2> DEFINE root == [lo |-> lo, hi |-> hi, bound |-> 0]
  <2>3. Inside(p, root)  BY <2>2 DEF Inside
  <2>4. root \in Live'  BY <2>2 DEF Live
  <2> QED BY <2>3, <2>4
<1>2. CASE pc \in {"loop", "relax", "round", "branch"}
  <2>1. (\E nd \in Live : Inside(p, nd)) \/ Settled(p)
    BY <1>2, AccountedIsSettled DEF SearchInv, NothingLost
  <2>2. CASE Settled(p)  BY <2>2, SettledStep
  <2>3. ASSUME NEW nd \in open, Inside(p, nd)
        PROVE  \E other \in Live' : Inside(p, other)
    <3>1. CASE Pop
      BY <2>3, <3>1 DEF Pop, Heads, Live
    <3>2. CASE ~Pop
      BY <1>2, <2>3, <3>2 DEF Live, Next, RootTighten, RootInfeasible, LoopLimit,
         LoopStop, TreeExhausted, RelaxInfeasible, RelaxUnbounded, RelaxGivesUp,
         RelaxSolved, RoundingHeuristic, BranchFractional, EnumerationSplit,
         IntegralLeaf, Finish, Break
    <3> QED BY <3>1, <3>2
  <2>4. CASE pc \in {"relax", "round", "branch"} /\ Inside(p, node)
    BY <2>4, NodeStep
  <2> QED BY <2>1, <2>2, <2>3, <2>4 DEF Live
<1>3. CASE pc = "root" /\ ~RootTighten
  BY <1>3 DEF Next, RootInfeasible, LoopLimit, LoopStop, Pop, TreeExhausted,
     RelaxInfeasible, RelaxUnbounded, RelaxGivesUp, RelaxSolved, RoundingHeuristic,
     BranchFractional, EnumerationSplit, IntegralLeaf, Finish
<1>4. CASE pc \in {"finish", "done"}
  BY <1>4 DEF Next, RootTighten, RootInfeasible, LoopLimit, LoopStop, Pop,
     TreeExhausted, RelaxInfeasible, RelaxUnbounded, RelaxGivesUp, RelaxSolved,
     RoundingHeuristic, BranchFractional, EnumerationSplit, IntegralLeaf, Finish
<1> QED BY <1>1, <1>2, <1>3, <1>4 DEF TypeOK

(* A step keeps the facts of enumeration.                                  *)
LEMMA EmittedInvStep ==
  ASSUME TypeOK, SearchInv, Next
  PROVE  EmittedInv'
<1>m. mip' = mip  BY MipFixed
<1> SUFFICES ASSUME NEW p \in Emitted'
             PROVE  have_incumbent' /\ ~Better(mip.obj[p], mip.obj[bestx'])
  BY <1>m, OrdersFixed DEF EmittedInv, incumbent
<1>1. ASSUME NEW q \in Emitted  PROVE q \in mip.feas
  BY <1>1 DEF Emitted, TypeOK
<1>2. CASE p \in Emitted
  <2>1. have_incumbent /\ ~Better(mip.obj[p], incumbent)
    BY <1>2 DEF SearchInv, EmittedInv
  <2>2. have_incumbent' /\ bestx' \in mip.feas /\ ~Better(incumbent, mip.obj[bestx'])
    BY <2>1, IncumbentMonotone
  <2>3. mip.obj[p] \in Int /\ incumbent \in Int /\ mip.obj[bestx'] \in Int
    BY <1>1, <1>2, <2>1, <2>2, IncumbentFacts, PointFacts
  <2> QED BY <2>1, <2>2, <2>3, Order
<1>3. CASE IntegralLeaf /\ p = relax.base
  <2>1. p \in mip.feas /\ mip.obj[p] \in Int /\ p # NoPoint
    BY <1>3, PointFacts DEF IntegralLeaf, SearchInv, RelaxInv, Points
  <2>2. CASE Improves(p)
    BY <1>3, <2>1, <2>2, Order DEF IntegralLeaf, have_incumbent
  <2>3. CASE ~Improves(p)
    BY <1>3, <2>1, <2>3, IncumbentFacts DEF IntegralLeaf, Improves, incumbent,
       have_incumbent
  <2> QED BY <2>2, <2>3
<1> QED BY <1>2, <1>3, EmittedStep

(* A step keeps what exhaustion means.                                     *)
LEMMA ExhaustedStep ==
  ASSUME TypeOK, SearchInv, Next
  PROVE  ExhaustedInv'
<1> USE DEF OPTIMAL, INFEASIBLE, UNBOUNDED, NODE_LIMIT, STOPPED, FEASIBLE, NUMERICAL,
            INVALID
<1>m. mip' = mip  BY MipFixed
<1>1. CASE TreeExhausted
  <2>1. Live = {} /\ NothingLost /\ pc = "loop"
    BY <1>1 DEF TreeExhausted, Live, SearchInv
  <2>2. ASSUME NEW p \in mip.feas
        PROVE  /\ have_incumbent /\ WithinGap(mip.obj[p], incumbent)
               /\ enumerating => p \in Emitted
    <3>1. Settled(p)
      BY <2>1, AccountedIsSettled DEF NothingLost
    <3>2. CASE enumerating
      <4>1. p \in Emitted  BY <3>1, <3>2 DEF Settled
      <4>2. have_incumbent /\ ~Better(mip.obj[p], incumbent)
        BY <4>1 DEF SearchInv, EmittedInv
      <4> QED BY <4>1, <4>2, PointFacts, IncumbentFacts, GapOfWorse
    <3>3. CASE ~enumerating
      BY <3>1, <3>3 DEF Settled
    <3> QED BY <3>2, <3>3
  <2>3. bestx' = bestx /\ Emitted' = Emitted
    BY <1>1 DEF TreeExhausted, Emitted
  <2> QED BY <1>m, <2>2, <2>3, OrdersFixed DEF ExhaustedInv
<1>2. CASE \/ LoopLimit \/ LoopStop \/ RelaxUnbounded \/ RelaxGivesUp
  <2>1. status' # INFEASIBLE
    BY <1>2 DEF LoopLimit, LoopStop, RelaxUnbounded, RelaxGivesUp, Break,
       GiveUpStatus
  <2> QED BY <2>1 DEF ExhaustedInv
<1>3. CASE RoundingHeuristic
  <2>1. pc' = "finish" => stopped_early' = TRUE
    BY <1>3 DEF RoundingHeuristic
  <2> QED BY <2>1 DEF ExhaustedInv
<1>4. CASE IntegralLeaf
  <2>1. pc' = "finish" => stopped_early' = TRUE
    BY <1>4 DEF IntegralLeaf, Drop
  <2> QED BY <2>1 DEF ExhaustedInv
<1>5. CASE \/ RootTighten \/ RootInfeasible \/ Pop \/ RelaxInfeasible \/ RelaxSolved
           \/ BranchFractional \/ EnumerationSplit \/ Finish
  <2>1. pc' # "finish"
    BY <1>5 DEF RootTighten, RootInfeasible, Pop, RelaxInfeasible, RelaxSolved,
       BranchFractional, EnumerationSplit, Finish, Drop
  <2> QED BY <2>1 DEF ExhaustedInv
<1> QED BY <1>1, <1>2, <1>3, <1>4, <1>5 DEF Next

(* The states in which best_bound has to dominate.                         *)
RootSolved ==
  \/ have_incumbent
  \/ pc \in {"round", "branch"}
  \/ nodes > 1
  \/ nodes = 1 /\ open # {}

(* A root that was not solved by this step was solved before.              *)
LEMMA BoundKept ==
  ASSUME TypeOK, SearchInv, Next, ~RelaxSolved, RootSolved'
  PROVE  RootSolved
<1> USE DEF RootSolved, have_incumbent
<1>0. nodes \in Nat  BY DEF TypeOK
<1>1. CASE RootTighten \/ RootInfeasible
  BY <1>1, <1>0 DEF RootTighten, RootInfeasible, SearchInv, PhaseInv
<1>2. CASE Pop
  <2>1. PICK nd \in open : open' = open \ {nd}
    BY <1>2 DEF Pop, Heads
  <2>2. pc = "loop" /\ pc' = "relax" /\ nodes' = nodes + 1 /\ bestx' = bestx
    BY <1>2 DEF Pop
  <2>3. CASE nodes = 0
    <3>1. open' = {}  BY <2>1, <2>2, <2>3 DEF SearchInv, RootInv
    <3> QED BY <2>2, <2>3, <3>1
  <2>4. CASE nodes # 0
    BY <1>0, <2>1, <2>2, <2>4
  <2> QED BY <2>3, <2>4
<1>3. CASE \/ LoopLimit \/ LoopStop \/ TreeExhausted \/ RelaxInfeasible
           \/ RelaxUnbounded \/ RelaxGivesUp \/ Finish
  <2>1. nodes' = nodes /\ open' \in {open, {}} /\ bestx' = bestx
    BY <1>3 DEF LoopLimit, LoopStop, TreeExhausted, RelaxInfeasible,
       RelaxUnbounded, RelaxGivesUp, Finish
  <2>2. pc' \notin {"round", "branch"}
    BY <1>3 DEF LoopLimit, LoopStop, TreeExhausted, RelaxInfeasible,
       RelaxUnbounded, RelaxGivesUp, Finish, Break, Drop
  <2> QED BY <2>1, <2>2
<1>4. CASE RoundingHeuristic \/ BranchFractional \/ EnumerationSplit \/ IntegralLeaf
  BY <1>4 DEF RoundingHeuristic, BranchFractional, EnumerationSplit, IntegralLeaf
<1> QED BY <1>1, <1>2, <1>3, <1>4 DEF Next

(* A step keeps the bound honest.                                          *)
LEMMA BoundStep ==
  ASSUME TypeOK, SearchInv, Next
  PROVE  BoundInv'
<1>m. mip' = mip /\ nodes \in Nat
  BY MipFixed DEF TypeOK
<1>1. nodes' = 1 /\ pc' = "relax" => open' = {} /\ ~have_incumbent' /\ emitted' = << >>
  <2>1. CASE Pop
    BY <1>m, <2>1 DEF Pop, Heads, SearchInv, PhaseInv, RootInv, have_incumbent
  <2>2. CASE ~Pop
    <3>1. pc' # "relax"
      BY <2>2 DEF Next, RootTighten, RootInfeasible, LoopLimit, LoopStop,
         TreeExhausted, RelaxInfeasible, RelaxUnbounded, RelaxGivesUp, RelaxSolved,
         RoundingHeuristic, BranchFractional, EnumerationSplit, IntegralLeaf, Finish,
         Break, Drop
    <3> QED BY <3>1
  <2> QED BY <2>1, <2>2
<1>2. ASSUME RootSolved', NEW p \in mip.feas
      PROVE  ~Better(mip.obj[p], best_bound')
  <2>1. CASE RelaxSolved
    <3>1. PICK rx \in Relaxations(node) :
            best_bound' = IF nodes = 1 \/ Better(rx.obj, best_bound) THEN rx.obj
                                                                    ELSE best_bound
      BY <2>1 DEF RelaxSolved
    <3>2. rx.obj \in Int /\ best_bound \in Int /\ mip.obj[p] \in Int
      BY RelaxationType, PointFacts DEF RelaxType, TypeOK
    <3>3. CASE nodes = 1
      <4>1. pc = "relax" /\ open = {} /\ ~have_incumbent /\ emitted = << >>
        BY <2>1, <3>3 DEF RelaxSolved, SearchInv, BoundInv
      <4>2. \E nd \in Live : Inside(p, nd)
        BY <4>1 DEF SearchInv, NothingLost, Accounted, Emitted
      <4>3. p \in Points(node)  BY <4>1, <4>2 DEF Live, Points
      <4> QED BY <3>1, <3>3, <4>3, RelaxationType
    <3>4. CASE nodes # 1
      <4>1. nodes > 1
        BY <1>m, <2>1, <3>4 DEF RelaxSolved, SearchInv, PhaseInv
      <4>2. ~Better(mip.obj[p], best_bound)
        BY <4>1 DEF SearchInv, BoundInv
      <4> QED BY <3>1, <3>2, <3>4, <4>2, Order
    <3> QED BY <3>3, <3>4
  <2>2. CASE ~RelaxSolved
    <3>1. best_bound' = best_bound
      BY <2>2 DEF Next, RootTighten, RootInfeasible, LoopLimit, LoopStop, Pop,
         TreeExhausted, RelaxInfeasible, RelaxUnbounded, RelaxGivesUp,
         RoundingHeuristic, BranchFractional, EnumerationSplit, IntegralLeaf, Finish
    <3>2. RootSolved  BY <1>2, <2>2, BoundKept
    <3> QED BY <3>1, <3>2 DEF RootSolved, SearchInv, BoundInv
  <2> QED BY <2>1, <2>2
<1> QED BY <1>m, <1>1, <1>2, OrdersFixed DEF BoundInv, RootSolved

(* A step keeps the verdicts honest.                                       *)
LEMMA VerdictStep ==
  ASSUME TypeOK, SearchInv, Next
  PROVE  OptimalWithinGap' /\ InfeasibleIsProof' /\ TruncatedIsHonest'
<1> USE DEF OPTIMAL, INFEASIBLE, UNBOUNDED, NODE_LIMIT, STOPPED, FEASIBLE, NUMERICAL,
            INVALID
<1>m. mip' = mip  BY MipFixed
<1>1. CASE Finish
  <2>1. PhaseInv /\ ExhaustedInv /\ pc = "finish"
    BY <1>1 DEF SearchInv, Finish
  <2>2. /\ proven_optimal' = (~limit_reached /\ ~stopped_early /\ have_incumbent)
        /\ status' = IF have_incumbent THEN IF limit_reached THEN FEASIBLE ELSE OPTIMAL
                                       ELSE status
        /\ bestx' = bestx /\ limit_reached' = limit_reached
    BY <1>1 DEF Finish
  <2>3. (have_incumbent' <=> have_incumbent) /\ incumbent' = incumbent
    BY <1>m, <2>2, OrdersFixed
  <2>4. OptimalWithinGap'
    <3> SUFFICES ASSUME status' = OPTIMAL, proven_optimal'
                 PROVE  /\ bestx \in mip.feas
                        /\ \A p \in mip.feas : WithinGap(mip.obj[p], incumbent)
      BY <1>m, <2>2, <2>3, OrdersFixed DEF OptimalWithinGap
    <3>1. have_incumbent /\ ~limit_reached /\ ~stopped_early
      BY <2>2
    <3>2. status = INFEASIBLE
      BY <2>1, <3>1 DEF PhaseInv
    <3> QED BY <2>1, <3>1, <3>2, IncumbentFacts DEF ExhaustedInv
  <2>5. InfeasibleIsProof'
    <3> SUFFICES ASSUME status' = INFEASIBLE PROVE mip.feas = {}
      BY <1>m DEF InfeasibleIsProof
    <3>1. ~have_incumbent /\ status = INFEASIBLE
      BY <2>2
    <3>2. ~stopped_early
      BY <2>1, <3>1 DEF PhaseInv
    <3> QED BY <2>1, <3>1, <3>2 DEF ExhaustedInv
  <2>6. TruncatedIsHonest'
    <3> SUFFICES ASSUME limit_reached
                 PROVE  /\ ~proven_optimal'
                        /\ status' \notin {OPTIMAL, INFEASIBLE, UNBOUNDED}
                        /\ have_incumbent <=> status' = FEASIBLE
      BY <2>2, <2>3 DEF TruncatedIsHonest
    <3>1. ~proven_optimal'  BY <2>2
    <3>2. status \in {NODE_LIMIT, STOPPED, NUMERICAL, INVALID}
      BY <2>1 DEF PhaseInv
    <3>3. status' = IF have_incumbent THEN FEASIBLE ELSE status
      BY <2>2
    <3> QED BY <3>1, <3>2, <3>3
  <2> QED BY <2>4, <2>5, <2>6
<1>2. CASE RootInfeasible
  <2>1. ~limit_reached  BY <1>2 DEF RootInfeasible, SearchInv, PhaseInv
  <2> QED BY <1>m, <1>2, <2>1 DEF RootInfeasible, OptimalWithinGap, InfeasibleIsProof,
             TruncatedIsHonest
<1>3. CASE ~Finish /\ ~RootInfeasible
  <2>1. pc' # "done"
    BY <1>3 DEF Next, RootTighten, LoopLimit, LoopStop, Pop, TreeExhausted,
       RelaxInfeasible, RelaxUnbounded, RelaxGivesUp, RelaxSolved, RoundingHeuristic,
       BranchFractional, EnumerationSplit, IntegralLeaf, Break, Drop
  <2> QED BY <2>1 DEF OptimalWithinGap, InfeasibleIsProof, TruncatedIsHonest
<1> QED BY <1>1, <1>2, <1>3

(* The search invariant is about the variables only.                       *)
LEMMA SearchStutter ==
  ASSUME SearchInv, UNCHANGED vars
  PROVE  SearchInv'
BY DEF vars, SearchInv, PhaseInv, RootInv, RelaxInv, NothingLost, Accounted, EmittedInv,
   ExhaustedInv, BoundInv, OptimalWithinGap, InfeasibleIsProof, TruncatedIsHonest,
   have_incumbent, incumbent, enumerating, Live, Emitted, Points, Inside, Better, Gain,
   WithinGap

----------------------------------------------------------------------------
(* The theorems.                                                           *)

(* The search invariant holds at first.                                    *)
LEMMA SearchInit == Init => SearchInv
<1> SUFFICES ASSUME Init PROVE SearchInv
  OBVIOUS
<1>1. ~have_incumbent /\ Emitted = {} /\ pc = "root" /\ nodes = 0
  BY DEF Init, have_incumbent, Emitted
<1> QED BY <1>1 DEF Init, SearchInv, PhaseInv, RootInv, RelaxInv, NothingLost, EmittedInv,
           ExhaustedInv, BoundInv, OptimalWithinGap, InfeasibleIsProof,
           TruncatedIsHonest

(* A step keeps the search invariant.                                      *)
LEMMA SearchStep == TypeOK /\ SearchInv /\ [Next]_vars => SearchInv'
<1> SUFFICES ASSUME TypeOK, SearchInv, [Next]_vars PROVE SearchInv'
  OBVIOUS
<1>1. CASE Next
  <2>1. RelaxInv'  BY <1>1, RelaxStep DEF SearchInv
  <2> QED BY <1>1, <2>1, PhaseStep, RootStep, LostStep, EmittedInvStep, ExhaustedStep,
          BoundStep, VerdictStep DEF SearchInv
<1>2. CASE UNCHANGED vars  BY <1>2, SearchStutter
<1> QED BY <1>1, <1>2

(* The inductive invariant holds of every behaviour of mip_solve.          *)
THEOREM SearchCorrect == Spec => [](TypeOK /\ SearchInv)
<1>1. Init => TypeOK /\ SearchInv
  BY TypeInit, SearchInit
<1>2. TypeOK /\ SearchInv /\ [Next]_vars => (TypeOK /\ SearchInv)'
  <2>1. SearchInv => RelaxInv  BY DEF SearchInv
  <2> QED BY <2>1, TypeStep, SearchStep
<1> QED BY <1>1, <1>2, PTL DEF Spec

(* No feasible point is ever lost by the search.                           *)
THEOREM SearchLosesNothing == Spec => []NothingLost
<1>1. SearchInv => NothingLost  BY DEF SearchInv
<1> QED BY <1>1, SearchCorrect, PTL

(* A proven optimum is unbeaten past the gap, whatever the engines did.    *)
THEOREM ProvenOptimumIsWithinGap == Spec => []OptimalWithinGap
<1>1. SearchInv => OptimalWithinGap  BY DEF SearchInv
<1> QED BY <1>1, SearchCorrect, PTL

(* INFEASIBLE is never reported of a model with a feasible point.          *)
THEOREM InfeasibleIsProven == Spec => []InfeasibleIsProof
<1>1. SearchInv => InfeasibleIsProof  BY DEF SearchInv
<1> QED BY <1>1, SearchCorrect, PTL

(* A truncated search claims no proof and keeps its incumbent.             *)
THEOREM TruncationIsHonest == Spec => []TruncatedIsHonest
<1>1. SearchInv => TruncatedIsHonest  BY DEF SearchInv
<1> QED BY <1>1, SearchCorrect, PTL

(* The best bound reported with a point dominates every feasible point.    *)
THEOREM ReportedBoundDominates == Spec => []BestBoundDominates
<1>1. SearchInv => BestBoundDominates
  BY DEF SearchInv, BoundInv, BestBoundDominates
<1> QED BY <1>1, SearchCorrect, PTL

(* The incumbent is only ever replaced by a strictly better point.         *)
THEOREM IncumbentOnlyImproves == Spec => IncumbentImproves
<1>1. TypeOK /\ SearchInv /\ [Next]_vars =>
        [have_incumbent /\ bestx' # bestx =>
           bestx' # NoPoint /\ Better(mip.obj[bestx'], mip.obj[bestx])]_vars
  <2> SUFFICES ASSUME TypeOK, SearchInv, [Next]_vars, have_incumbent, bestx' # bestx
               PROVE  bestx' # NoPoint /\ Better(mip.obj[bestx'], mip.obj[bestx])
    OBVIOUS
  <2>1. Improves(bestx')  BY IncumbentStep
  <2> QED BY <2>1 DEF Improves, incumbent
<1> QED BY <1>1, SearchCorrect, PTL DEF Spec, IncumbentImproves

(* The verdict a step ends the search with is one the model justifies.     *)
LEMMA AnswerJustified ==
  ASSUME TypeOK, SearchInv, SearchInv', mip' = mip, bestx' = bestx,
         Finish \/ RootInfeasible
  PROVE  \E v \in Promise!Verdicts : Promise!Justified(v) /\ PromisedVerdict' = v
<1> USE DEF OPTIMAL, INFEASIBLE, UNBOUNDED, NODE_LIMIT, STOPPED, FEASIBLE, NUMERICAL,
            INVALID, Promise!Verdicts
<1>1. pc' = "done"  BY DEF Finish, RootInfeasible
<1>2. CASE status' = INFEASIBLE
  <2>1. mip.feas = {}  BY <1>1, <1>2 DEF SearchInv, InfeasibleIsProof
  <2>2. PromisedVerdict' = "infeasible"  BY <1>1, <1>2 DEF PromisedVerdict
  <2>3. Promise!Justified("infeasible")  BY <2>1 DEF Promise!Justified, FeasibleOf
  <2> QED BY <2>2, <2>3
<1>3. CASE Finish /\ have_incumbent /\ status' = OPTIMAL /\ proven_optimal'
  <2>1. bestx \in mip.feas /\ \A p \in mip.feas : WithinGap(mip.obj[p], mip.obj[bestx])
    BY <1>1, <1>3, OrdersFixed DEF SearchInv, OptimalWithinGap, incumbent
  <2>2. NoneBeatsIn(mip, bestx)
    BY <2>1 DEF NoneBeatsIn, WithinGap, Gain
  <2>3. PromisedVerdict' = "optimal"  BY <1>1, <1>3 DEF PromisedVerdict
  <2>4. Promise!Justified("optimal")
    BY <1>3, <2>2 DEF Promise!Justified, have_incumbent
  <2> QED BY <2>3, <2>4
<1>4. CASE /\ Finish /\ have_incumbent
           /\ status' = FEASIBLE \/ (status' = OPTIMAL /\ ~proven_optimal')
  <2>1. PromisedVerdict' = "feasible"  BY <1>1, <1>4 DEF PromisedVerdict
  <2>2. Promise!Justified("feasible")
    BY <1>4 DEF Promise!Justified, have_incumbent
  <2> QED BY <2>1, <2>2
<1>5. CASE Finish /\ ~have_incumbent /\ status' = UNBOUNDED
  <2>1. mip.ray  BY <1>5 DEF Finish, SearchInv, PhaseInv
  <2>2. PromisedVerdict' = "unbounded"  BY <1>1, <1>5 DEF PromisedVerdict
  <2>3. Promise!Justified("unbounded")  BY <2>1 DEF Promise!Justified, HasRay
  <2> QED BY <2>2, <2>3
<1>6. CASE /\ Finish /\ ~have_incumbent
           /\ status' \in {NODE_LIMIT, STOPPED, NUMERICAL, INVALID}
  <2>1. PromisedVerdict' = "unknown"  BY <1>1, <1>6 DEF PromisedVerdict
  <2>2. Promise!Justified("unknown")
    BY <1>6 DEF Promise!Justified, have_incumbent
  <2> QED BY <2>1, <2>2
<1>7. CASE Finish
  <2>1. have_incumbent => status' \in {OPTIMAL, FEASIBLE}
    BY <1>7 DEF Finish
  <2>2. ~have_incumbent =>
          status' \in {INFEASIBLE, NODE_LIMIT, STOPPED, NUMERICAL, INVALID, UNBOUNDED}
    BY <1>7 DEF Finish, SearchInv, PhaseInv
  <2> QED BY <1>2, <1>3, <1>4, <1>5, <1>6, <1>7, <2>1, <2>2
<1>8. CASE RootInfeasible
  BY <1>2, <1>8 DEF RootInfeasible
<1> QED BY <1>7, <1>8

(* mip_solve implements the promise of mip.h: every step of the search is  *)
(* a Find, an Answer the model justifies, or no step of the promise.       *)
THEOREM SearchImplementsPromise == Spec => ImplementsPromise
<1> USE DEF OPTIMAL, INFEASIBLE, UNBOUNDED, NODE_LIMIT, STOPPED, FEASIBLE, NUMERICAL,
            INVALID
<1>1. Init => Promise!Init
  BY DEF Init, Promise!Init, Promise!Running, PromisedVerdict
<1>2. /\ TypeOK /\ SearchInv /\ TypeOK' /\ SearchInv' /\ [Next]_vars
      => [Promise!Next]_<<mip, bestx, PromisedVerdict>>
  <2> SUFFICES ASSUME TypeOK, SearchInv, TypeOK', SearchInv', [Next]_vars
               PROVE  [Promise!Next]_<<mip, bestx, PromisedVerdict>>
    OBVIOUS
  <2>m. mip' = mip  BY MipFixed
  <2>1. CASE bestx' # bestx
    <3>1. RoundingHeuristic \/ IntegralLeaf
      BY <2>1 DEF Next, vars, RootTighten, RootInfeasible, LoopLimit, LoopStop, Pop,
         TreeExhausted, RelaxInfeasible, RelaxUnbounded, RelaxGivesUp, RelaxSolved,
         BranchFractional, EnumerationSplit, Finish
    <3>2. pc # "done" /\ pc' # "done"
      BY <3>1 DEF RoundingHeuristic, IntegralLeaf, Break, Drop
    <3>3. PromisedVerdict = "running" /\ PromisedVerdict' = PromisedVerdict
      BY <3>2 DEF PromisedVerdict
    <3>4. bestx' \in mip.feas /\ Improves(bestx')
      BY <2>1, IncumbentStep
    <3>5. bestx # NoPoint => BeatsIn(mip, bestx', bestx)
      <4> SUFFICES ASSUME bestx # NoPoint PROVE BeatsIn(mip, bestx', bestx)
        OBVIOUS
      <4>1. Better(mip.obj[bestx'], mip.obj[bestx])
        BY <3>4 DEF Improves, have_incumbent, incumbent
      <4>2. mip.obj[bestx'] \in Int /\ mip.obj[bestx] \in Int
        BY <3>4, PointFacts, IncumbentFacts DEF have_incumbent
      <4> QED BY <4>1, <4>2 DEF BeatsIn, Better, Gain
    <3>6. Promise!Find
      BY <2>m, <3>3, <3>4, <3>5 DEF Promise!Find, Promise!Running, FeasibleOf
    <3> QED BY <3>6 DEF Promise!Next
  <2>2. CASE bestx' = bestx /\ PromisedVerdict' # PromisedVerdict
    <3>1. (Finish \/ RootInfeasible) /\ pc # "done" /\ pc' = "done"
      BY <2>2 DEF Next, vars, RootTighten, RootInfeasible, LoopLimit, LoopStop, Pop,
         TreeExhausted, RelaxInfeasible, RelaxUnbounded, RelaxGivesUp, RelaxSolved,
         RoundingHeuristic, BranchFractional, EnumerationSplit, IntegralLeaf, Finish,
         Break, Drop, PromisedVerdict
    <3>2. PromisedVerdict = "running"
      BY <3>1 DEF PromisedVerdict
    <3>3. \E v \in Promise!Verdicts : Promise!Justified(v) /\ PromisedVerdict' = v
      BY <2>m, <2>2, <3>1, AnswerJustified
    <3> QED BY <2>m, <2>2, <3>2, <3>3
            DEF Promise!Next, Promise!Answer, Promise!Running
  <2>3. CASE bestx' = bestx /\ PromisedVerdict' = PromisedVerdict
    BY <2>m, <2>3
  <2> QED BY <2>1, <2>2, <2>3
<1> QED BY <1>1, <1>2, SearchCorrect, PTL DEF Spec, ImplementsPromise, Promise!Spec

----------------------------------------------------------------------------
(* The tree and the enumeration.                                           *)
Busy == pc \in {"relax", "round", "branch"}

(* A box of a finite number of variables has finitely many points.         *)
LEMMA BoxFinite ==
  ASSUME IsFiniteSet(Vars), NEW a \in Point, NEW b \in Point
  PROVE  IsFiniteSet(Between(a, b))
<1> DEFINE side == [j \in Vars |-> a[j] .. b[j]]
           D == UNION {a[j] .. b[j] : j \in Vars}
           graph == [p \in [Vars -> D] |-> {<<j, p[j]>> : j \in Vars}]
<1>1. IsFiniteSet({a[j] .. b[j] : j \in Vars})
  <2>1. side \in Surjection(Vars, {a[j] .. b[j] : j \in Vars})
    BY DEF Surjection
  <2> QED BY <2>1, FS_Surjection
<1>2. \A S \in {a[j] .. b[j] : j \in Vars} : IsFiniteSet(S)
  <2> SUFFICES ASSUME NEW j \in Vars PROVE IsFiniteSet(a[j] .. b[j])
    OBVIOUS
  <2>1. a[j] \in Int /\ b[j] \in Int  BY DEF Point
  <2> QED BY <2>1, FS_Interval
<1>3. IsFiniteSet(D)  BY <1>1, <1>2, FS_UNION
<1>4. IsFiniteSet(SUBSET (Vars \X D))
  BY <1>3, FS_Product, FS_SUBSET
<1>5. graph \in Injection([Vars -> D], SUBSET (Vars \X D))
  <2>1. ASSUME NEW p \in [Vars -> D]  PROVE graph[p] \in SUBSET (Vars \X D)
    OBVIOUS
  <2>2. ASSUME NEW p \in [Vars -> D], NEW q \in [Vars -> D], graph[p] = graph[q]
        PROVE  p = q
    <3>1. ASSUME NEW j \in Vars  PROVE p[j] = q[j]
      <4>1. <<j, p[j]>> \in graph[q]  BY <2>2
      <4> QED BY <4>1
    <3> QED BY <3>1
  <2>3. graph \in [[Vars -> D] -> SUBSET (Vars \X D)]  BY <2>1
  <2> HIDE DEF graph
  <2> QED BY <2>2, <2>3 DEF Injection, IsInjective
<1>6. IsFiniteSet([Vars -> D])  BY <1>4, <1>5, FS_Injection
<1>7. Between(a, b) \in SUBSET [Vars -> D]  BY DEF Between
<1> HIDE DEF D
<1> QED BY <1>6, <1>7, FS_Subset

(* Bounds of the model and of live boxes are integers.                     *)
LEMMA BoxFacts ==
  ASSUME TypeOK
  PROVE  /\ mip.lo \in Point /\ mip.hi \in Point
         /\ \A nd \in Live : nd.lo \in Point /\ nd.hi \in Point /\ nd.bound \in Int
         /\ relax.base \in Point /\ relax.frac \subseteq Vars
BY ModelType DEF TypeOK, Live, NodeType, RelaxType, MipType

(* Being between two points, coordinate by coordinate.                     *)
LEMMA BetweenPoints ==
  ASSUME NEW a \in Point, NEW b \in Point, NEW p
  PROVE  p \in Between(a, b)
           <=> p \in Point /\ \A j \in Vars : a[j] <= p[j] /\ p[j] <= b[j]
<1>1. ASSUME p \in Between(a, b)  PROVE p \in Point
  BY <1>1, BetweenType
<1>2. ASSUME p \in Point, \A j \in Vars : a[j] <= p[j] /\ p[j] <= b[j]
      PROVE  p \in Between(a, b)
  <2>1. \A j \in Vars : p[j] \in a[j] .. b[j]  BY <1>2 DEF Point
  <2>2. p \in [Vars -> UNION {a[j] .. b[j] : j \in Vars}]  BY <1>2, <2>1 DEF Point
  <2> QED BY <1>2, <2>2 DEF Between
<1> QED BY <1>1, <1>2 DEF Between

(* Disjoint boxes have no common point.                                    *)
LEMMA ApartBoxes ==
  ASSUME NEW nd, NEW other, nd.lo \in Point, nd.hi \in Point, other.lo \in Point,
         other.hi \in Point, Apart(nd, other), NEW p \in Point, Inside(p, nd)
  PROVE  ~Inside(p, other)
BY DEF Apart, Inside, Point

----------------------------------------------------------------------------
(* How a step changes the live boxes: it keeps them, drops the current     *)
(* one, splits it, or starts or ends the search.                           *)

SplitAt(j, v) ==
  /\ j \in Vars /\ v \in Int
  /\ node.lo[j] <= v /\ v < node.hi[j]
  /\ Live' = (Live \ {node}) \union Children(j, v)

(* What a step does to the open boxes and the node count.                  *)
LEMMA LiveStep ==
  ASSUME TypeOK, BaseInv, Next
  PROVE  \/ RootTighten
         \/ pc' = "done" /\ Live' = {} /\ nodes' = nodes /\ ~Busy /\ ~Busy'
         \/ /\ Live' = Live
            /\ \/ nodes' = nodes /\ (Busy' <=> Busy)
               \/ nodes' = nodes + 1 /\ ~Busy /\ Busy'
         \/ Busy /\ ~Busy' /\ nodes' = nodes /\ Live' = Live \ {node}
         \/ Busy /\ ~Busy' /\ nodes' = nodes /\ \E j, v : SplitAt(j, v)
<1> USE DEF Busy
<1>1. CASE RootInfeasible
  BY <1>1 DEF RootInfeasible, BaseInv, Live
<1>2. CASE LoopLimit \/ LoopStop
  BY <1>2 DEF LoopLimit, LoopStop, Break, Live
<1>3. CASE Pop
  BY <1>3 DEF Pop, Heads, Live
<1>4. CASE TreeExhausted
  BY <1>4 DEF TreeExhausted, Live
<1>d. ASSUME Busy, pc' \notin {"relax", "round", "branch"}, open' = open
      PROVE  Live' = Live \ {node}
  BY <1>d DEF Live, BaseInv
<1>5. CASE RelaxInfeasible
  BY <1>5, <1>d DEF RelaxInfeasible, Drop
<1>6. CASE RelaxUnbounded
  BY <1>6, <1>d DEF RelaxUnbounded, Break
<1>7. CASE RelaxGivesUp
  BY <1>7, <1>d DEF RelaxGivesUp, Break
<1>8. CASE RelaxSolved
  <2>1. \/ Drop
        \/ pc' = "round" /\ UNCHANGED node
    BY <1>8 DEF RelaxSolved
  <2>2. CASE Drop  BY <1>8, <1>d, <2>2 DEF RelaxSolved, Drop
  <2>3. CASE pc' = "round" /\ UNCHANGED node
    BY <1>8, <2>3 DEF RelaxSolved, Live
  <2> QED BY <2>1, <2>2, <2>3
<1>9. CASE RoundingHeuristic
  <2>1. \/ \E st : Break(st, FALSE)
        \/ pc' = "branch" /\ UNCHANGED node
    BY <1>9 DEF RoundingHeuristic
  <2>2. CASE \E st : Break(st, FALSE)
    BY <1>9, <1>d, <2>2 DEF RoundingHeuristic, Break
  <2>3. CASE pc' = "branch" /\ UNCHANGED node
    BY <1>9, <2>3 DEF RoundingHeuristic, Live
  <2> QED BY <2>1, <2>2, <2>3
<1>s. ASSUME pc = "branch", Drop, NEW j \in Vars, NEW v \in Int,
             node.lo[j] <= v, v < node.hi[j],
             open' = open \union Children(j, v)
      PROVE  SplitAt(j, v) /\ Busy /\ ~Busy'
  BY <1>s DEF SplitAt, Live, Drop, BaseInv
<1>10. CASE BranchFractional
  <2>1. PICK j \in relax.frac : open' = open \union Children(j, relax.base[j])
    BY <1>10 DEF BranchFractional
  <2>2. j \in Vars /\ relax.base[j] \in Int
    BY <2>1, BoxFacts DEF Point
  <2>3. node.lo[j] <= relax.base[j] /\ relax.base[j] < node.hi[j]
    BY <1>10, <2>1, <2>2 DEF BaseInv, BranchFractional
  <2>4. SplitAt(j, relax.base[j]) /\ Busy /\ ~Busy'
    BY <1>10, <1>s, <2>1, <2>2, <2>3 DEF BranchFractional
  <2> QED BY <1>10, <2>4 DEF BranchFractional
<1>11. CASE EnumerationSplit
  <2>1. PICK j \in Unfixed : open' = open \union Children(j, SplitValue(j))
    BY <1>11 DEF EnumerationSplit
  <2>2. j \in Vars /\ node.lo[j] \in Int /\ node.hi[j] \in Int /\ relax.base[j] \in Int
        /\ node.lo[j] < node.hi[j]
    BY <2>1, BoxFacts DEF Unfixed, TypeOK, NodeType, Point
  <2>3. node.lo[j] <= relax.base[j] /\ relax.base[j] <= node.hi[j]
    BY <1>11, <2>2 DEF BaseInv, EnumerationSplit
  <2>4. SplitValue(j) \in Int /\ node.lo[j] <= SplitValue(j) /\ SplitValue(j) < node.hi[j]
    BY <2>2, <2>3 DEF SplitValue
  <2>5. SplitAt(j, SplitValue(j)) /\ Busy /\ ~Busy'
    BY <1>11, <1>s, <2>1, <2>2, <2>4 DEF EnumerationSplit
  <2> QED BY <1>11, <2>5 DEF EnumerationSplit
<1>12. CASE IntegralLeaf
  <2>1. \/ \E st : Break(st, FALSE)
        \/ Drop
    BY <1>12 DEF IntegralLeaf
  <2> QED BY <1>12, <1>d, <2>1 DEF IntegralLeaf, Break, Drop
<1>13. CASE Finish
  BY <1>13 DEF Finish, Live
<1> QED BY <1>1, <1>2, <1>3, <1>4, <1>5, <1>6, <1>7, <1>8, <1>9, <1>10, <1>11, <1>12,
        <1>13 DEF Next

(* The box the root starts from.                                           *)
LEMMA RootBox ==
  ASSUME TypeOK, RootTighten
  PROVE  \E lo \in Point, hi \in Point :
           /\ Live' = {[lo |-> lo, hi |-> hi, bound |-> 0]}
           /\ \A j \in Vars : mip.lo[j] <= lo[j] /\ lo[j] <= hi[j] /\ hi[j] <= mip.hi[j]
           /\ nodes' = nodes
<1>1. PICK lo \in Between(mip.lo, mip.hi) : \E hi \in Between(lo, mip.hi) :
        open' = {[lo |-> lo, hi |-> hi, bound |-> 0]}
  BY DEF RootTighten
<1>2. PICK hi \in Between(lo, mip.hi) : open' = {[lo |-> lo, hi |-> hi, bound |-> 0]}
  BY <1>1
<1>3. lo \in Point /\ \A j \in Vars : mip.lo[j] <= lo[j]
  BY BetweenPoints, BoxFacts
<1>4. hi \in Point /\ \A j \in Vars : lo[j] <= hi[j] /\ hi[j] <= mip.hi[j]
  BY <1>3, BetweenPoints, BoxFacts
<1>5. Live' = {[lo |-> lo, hi |-> hi, bound |-> 0]} /\ nodes' = nodes
  BY <1>2 DEF RootTighten, Live
<1> QED BY <1>3, <1>4, <1>5

----------------------------------------------------------------------------
(* The parts of the invariant, one step lemma each.                        *)

(* A relaxation's point is in the box, a fractional coordinate below its   *)
(* upper end.                                                              *)
LEMMA RelaxationInBox ==
  ASSUME TypeOK, NEW nd \in NodeType, NEW rx \in Relaxations(nd)
  PROVE  /\ \A j \in Vars : nd.lo[j] <= rx.base[j] /\ rx.base[j] <= nd.hi[j]
         /\ \A j \in rx.frac : rx.base[j] < nd.hi[j]
<1>1. CASE \E p \in Points(nd) : rx = [obj |-> mip.obj[p], base |-> p, frac |-> {}]
  BY <1>1 DEF Points, Inside
<1>2. CASE /\ rx \in [obj : mip.values, base : Between(nd.lo, nd.hi), frac : (SUBSET Vars) \ {{}}]
           /\ \A j \in rx.frac : rx.base[j] < nd.hi[j]
  <2>1. rx.base \in Between(nd.lo, nd.hi) /\ nd.lo \in Point /\ nd.hi \in Point
    BY <1>2 DEF NodeType
  <2> QED BY <1>2, <2>1, BetweenType
<1> QED BY <1>1, <1>2 DEF Relaxations

(* A step keeps the relaxation's point in the box.                         *)
LEMMA BaseStep ==
  ASSUME TypeOK, BaseInv, Next
  PROVE  BaseInv'
<1>1. CASE RootTighten \/ RootInfeasible \/ LoopLimit \/ LoopStop \/ TreeExhausted \/ Finish
  BY <1>1 DEF BaseInv, RootTighten, RootInfeasible, LoopLimit, LoopStop, TreeExhausted,
     Finish, Break
<1>2. CASE Pop  BY <1>2 DEF BaseInv, Pop
<1>3. CASE RelaxInfeasible \/ RelaxUnbounded \/ RelaxGivesUp
  BY <1>3 DEF BaseInv, RelaxInfeasible, RelaxUnbounded, RelaxGivesUp, Break, Drop
<1>4. CASE RelaxSolved
  <2>1. PICK rx \in Relaxations(node) :
          IF Prunable(rx.obj) THEN Drop ELSE relax' = rx /\ pc' = "round" /\ UNCHANGED node
    BY <1>4 DEF RelaxSolved
  <2>2. CASE Drop  BY <2>2 DEF BaseInv, Drop
  <2>3. CASE relax' = rx /\ pc' = "round" /\ UNCHANGED node
    <3>1. node \in NodeType  BY DEF TypeOK
    <3> QED BY <1>4, <2>3, <3>1, RelaxationInBox DEF BaseInv, RelaxSolved
  <2> QED BY <2>1, <2>2, <2>3
<1>5. CASE RoundingHeuristic
  <2>1. \/ pc' = "finish"
        \/ pc' = "branch" /\ UNCHANGED <<node, relax>>
    BY <1>5 DEF RoundingHeuristic, Break
  <2> QED BY <1>5, <2>1 DEF BaseInv, RoundingHeuristic
<1>6. CASE BranchFractional \/ EnumerationSplit \/ IntegralLeaf
  <2>1. pc' \in {"loop", "finish"}
    BY <1>6 DEF BranchFractional, EnumerationSplit, IntegralLeaf, Drop, Break
  <2> QED BY <2>1 DEF BaseInv
<1> QED BY <1>1, <1>2, <1>3, <1>4, <1>5, <1>6 DEF Next

(* The two halves of a split, and the rest.                                *)
LEMMA SplitFacts ==
  ASSUME TypeOK, BoxesInv, Busy, NEW j, NEW v, SplitAt(j, v)
  PROVE  \E low, high :
           /\ Live' = (Live \ {node}) \union {low, high}
           /\ low.lo = node.lo /\ low.hi = [node.hi EXCEPT ![j] = v]
           /\ high.lo = [node.lo EXCEPT ![j] = v + 1] /\ high.hi = node.hi
           /\ low.lo \in Point /\ low.hi \in Point /\ high.lo \in Point /\ high.hi \in Point
           /\ Apart(low, high) /\ Apart(high, low)
           /\ \A nd \in Live \ {node} : /\ Apart(nd, low) /\ Apart(nd, high)
                                        /\ Apart(low, nd) /\ Apart(high, nd)
<1> DEFINE low == Child(node.lo, [node.hi EXCEPT ![j] = v])
           high == Child([node.lo EXCEPT ![j] = v + 1], node.hi)
<1>1. j \in Vars /\ v \in Int /\ node.lo[j] <= v /\ v < node.hi[j]
      /\ Live' = (Live \ {node}) \union {low, high}
  BY DEF SplitAt, Children
<1>2. node \in Live /\ node.lo \in Point /\ node.hi \in Point
  BY BoxFacts DEF Live, Busy
<1>3. low.lo = node.lo /\ low.hi = [node.hi EXCEPT ![j] = v]
      /\ high.lo = [node.lo EXCEPT ![j] = v + 1] /\ high.hi = node.hi
  BY DEF Child
<1>4. low.lo \in Point /\ low.hi \in Point /\ high.lo \in Point /\ high.hi \in Point
  BY <1>1, <1>2, <1>3 DEF Point
<1>5. low.hi[j] = v /\ high.lo[j] = v + 1
  BY <1>1, <1>2, <1>3 DEF Point
<1>6. Apart(low, high) /\ Apart(high, low)
  BY <1>1, <1>5 DEF Apart
<1>7. ASSUME NEW nd \in Live \ {node}
      PROVE  /\ Apart(nd, low) /\ Apart(nd, high)
             /\ Apart(low, nd) /\ Apart(high, nd)
  <2>1. PICK k \in Vars : nd.hi[k] < node.lo[k] \/ node.hi[k] < nd.lo[k]
    BY <1>2, <1>7 DEF BoxesInv, Apart
  <2>2. nd.lo[k] \in Int /\ nd.hi[k] \in Int /\ node.lo[k] \in Int /\ node.hi[k] \in Int
    BY <1>2, <1>7, <2>1, BoxFacts DEF Point
  <2>3. low.lo[k] = node.lo[k] /\ low.hi[k] <= node.hi[k] /\ low.hi[k] \in Int
    BY <1>1, <1>2, <1>3, <2>2 DEF Point
  <2>4. high.hi[k] = node.hi[k] /\ node.lo[k] <= high.lo[k] /\ high.lo[k] \in Int
    BY <1>1, <1>2, <1>3, <2>2 DEF Point
  <2> HIDE DEF low, high
  <2>5. nd.hi[k] < low.lo[k] \/ low.hi[k] < nd.lo[k]
    BY <2>1, <2>2, <2>3
  <2>6. nd.hi[k] < high.lo[k] \/ high.hi[k] < nd.lo[k]
    BY <2>1, <2>2, <2>4
  <2> QED BY <2>5, <2>6 DEF Apart
<1> HIDE DEF low, high
<1> QED BY <1>1, <1>3, <1>4, <1>6, <1>7

(* A part of the model's box.                                              *)
Part(nd) == \A j \in Vars : mip.lo[j] <= nd.lo[j] /\ nd.lo[j] <= nd.hi[j] /\ nd.hi[j] <= mip.hi[j]

(* A step keeps the open boxes apart and inside the model's.               *)
LEMMA BoxesStep ==
  ASSUME TypeOK, BaseInv, BoxesInv, Next
  PROVE  BoxesInv'
<1>m. mip' = mip  BY MipFixed
<1> SUFFICES /\ \A nd \in Live' : Part(nd)
             /\ \A nd, other \in Live' : nd # other => Apart(nd, other)
  BY <1>m DEF BoxesInv, Part, Apart
<1>0. /\ \A nd \in Live : Part(nd)
      /\ \A nd, other \in Live : nd # other => Apart(nd, other)
  BY DEF BoxesInv, Part
<1>1. CASE RootTighten
  <2>1. PICK lo \in Point, hi \in Point :
          /\ Live' = {[lo |-> lo, hi |-> hi, bound |-> 0]}
          /\ \A j \in Vars : mip.lo[j] <= lo[j] /\ lo[j] <= hi[j] /\ hi[j] <= mip.hi[j]
    BY <1>1, RootBox
  <2> QED BY <2>1 DEF Part
<1>2. CASE Live' \subseteq Live
  BY <1>0, <1>2
<1>3. CASE Busy /\ \E j, v : SplitAt(j, v)
  <2>1. PICK j, v : SplitAt(j, v)  BY <1>3
  <2>2. PICK low, high :
          /\ Live' = (Live \ {node}) \union {low, high}
          /\ low.lo = node.lo /\ low.hi = [node.hi EXCEPT ![j] = v]
          /\ high.lo = [node.lo EXCEPT ![j] = v + 1] /\ high.hi = node.hi
          /\ low.lo \in Point /\ low.hi \in Point /\ high.lo \in Point /\ high.hi \in Point
          /\ Apart(low, high) /\ Apart(high, low)
          /\ \A nd \in Live \ {node} : /\ Apart(nd, low) /\ Apart(nd, high)
                                       /\ Apart(low, nd) /\ Apart(high, nd)
    BY <1>3, <2>1, SplitFacts
  <2>3. node \in Live /\ Part(node) /\ node.lo \in Point /\ node.hi \in Point
    BY <1>0, <1>3, BoxFacts DEF Live, Busy
  <2>4. Part(low) /\ Part(high)
    <3> SUFFICES ASSUME NEW k \in Vars
                 PROVE  /\ mip.lo[k] <= low.lo[k] /\ low.lo[k] <= low.hi[k] /\ low.hi[k] <= mip.hi[k]
                        /\ mip.lo[k] <= high.lo[k] /\ high.lo[k] <= high.hi[k] /\ high.hi[k] <= mip.hi[k]
      BY DEF Part
    <3>1. mip.lo[k] \in Int /\ mip.hi[k] \in Int /\ node.lo[k] \in Int /\ node.hi[k] \in Int
      BY <2>3, BoxFacts DEF Point
    <3>2. mip.lo[k] <= node.lo[k] /\ node.lo[k] <= node.hi[k] /\ node.hi[k] <= mip.hi[k]
      BY <2>3 DEF Part
    <3>3. v \in Int /\ node.lo[j] <= v /\ v < node.hi[j]  BY <2>1 DEF SplitAt
    <3>4. low.hi[k] = (IF k = j THEN v ELSE node.hi[k])
          /\ high.lo[k] = (IF k = j THEN v + 1 ELSE node.lo[k])
      BY <2>2, <2>3 DEF Point
    <3> QED BY <2>2, <3>1, <3>2, <3>3, <3>4
  <2> QED BY <1>0, <2>2, <2>4
<1> QED BY <1>1, <1>2, <1>3, LiveStep

(* No step puts a point into a live box that was in none.                  *)
LEMMA LiveShrinks ==
  ASSUME TypeOK, BaseInv, BoxesInv, Next, ~RootTighten, NEW p \in Point,
         \A nd \in Live : ~Inside(p, nd)
  PROVE  \A nd \in Live' : ~Inside(p, nd)
<1>1. CASE Live' \subseteq Live  BY <1>1
<1>2. CASE Busy /\ \E j, v : SplitAt(j, v)
  <2>1. PICK j, v : SplitAt(j, v)  BY <1>2
  <2>2. PICK low, high :
          /\ Live' = (Live \ {node}) \union {low, high}
          /\ low.lo = node.lo /\ low.hi = [node.hi EXCEPT ![j] = v]
          /\ high.lo = [node.lo EXCEPT ![j] = v + 1] /\ high.hi = node.hi
    BY <1>2, <2>1, SplitFacts
  <2>3. node \in Live /\ node.lo \in Point /\ node.hi \in Point
    BY <1>2, BoxFacts DEF Live, Busy
  <2>4. v \in Int /\ j \in Vars /\ node.lo[j] <= v /\ v < node.hi[j]
    BY <2>1 DEF SplitAt
  <2>5. Inside(p, low) => Inside(p, node)
    <3> SUFFICES ASSUME Inside(p, low), NEW k \in Vars
                 PROVE  node.lo[k] <= p[k] /\ p[k] <= node.hi[k]
      BY DEF Inside
    <3>1. low.lo[k] <= p[k] /\ p[k] <= low.hi[k]  BY DEF Inside
    <3>2. low.hi[k] = IF k = j THEN v ELSE node.hi[k]  BY <2>2, <2>3 DEF Point
    <3>3. p[k] \in Int /\ node.hi[k] \in Int  BY <2>3 DEF Point
    <3> QED BY <2>2, <2>4, <3>1, <3>2, <3>3
  <2>6. Inside(p, high) => Inside(p, node)
    <3> SUFFICES ASSUME Inside(p, high), NEW k \in Vars
                 PROVE  node.lo[k] <= p[k] /\ p[k] <= node.hi[k]
      BY DEF Inside
    <3>1. high.lo[k] <= p[k] /\ p[k] <= high.hi[k]  BY DEF Inside
    <3>2. high.lo[k] = IF k = j THEN v + 1 ELSE node.lo[k]  BY <2>2, <2>3 DEF Point
    <3>3. p[k] \in Int /\ node.lo[k] \in Int  BY <2>3 DEF Point
    <3> QED BY <2>2, <2>4, <3>1, <3>2, <3>3
  <2> QED BY <2>2, <2>3, <2>5, <2>6
<1> QED BY <1>1, <1>2, LiveStep

(* An enumeration never stops at its first solution.                       *)
LEMMA EnumerationGoesOn ==
  ASSUME TypeOK, Next, enumerating, ~stopped_early
  PROVE  ~stopped_early'
BY DEF enumerating, Next, RootTighten, RootInfeasible, LoopLimit, LoopStop, Pop,
   TreeExhausted, RelaxInfeasible, RelaxUnbounded, RelaxGivesUp, RelaxSolved,
   RoundingHeuristic, BranchFractional, EnumerationSplit, IntegralLeaf, Finish

(* What is known of an enumeration that has ended unlimited.               *)
LEMMA EndedComplete ==
  ASSUME TypeOK, SearchInv, FreshInv, Next, enumerating, pc' = "done",
         status' \in {OPTIMAL, INFEASIBLE}
  PROVE  Emitted' = mip.feas
<1> USE DEF OPTIMAL, INFEASIBLE, UNBOUNDED, NODE_LIMIT, STOPPED, FEASIBLE, NUMERICAL, INVALID
<1>0. Emitted \subseteq mip.feas  BY DEF Emitted, TypeOK
<1>1. CASE RootInfeasible
  <2>1. Emitted = {} /\ mip.feas = {} /\ emitted' = emitted
    BY <1>0, <1>1 DEF RootInfeasible
  <2> QED BY <2>1 DEF Emitted
<1>2. CASE Finish
  <2>1. emitted' = emitted /\ pc = "finish"  BY <1>2 DEF Finish
  <2>2. status = INFEASIBLE
    BY <1>2, <2>1 DEF Finish, SearchInv, PhaseInv
  <2>3. \A p \in mip.feas : p \in Emitted
    BY <2>1, <2>2 DEF SearchInv, ExhaustedInv, FreshInv
  <2> QED BY <1>0, <2>1, <2>3 DEF Emitted
<1>3. CASE ~RootInfeasible /\ ~Finish
  <2>1. pc' # "done"
    BY <1>3 DEF Next, RootTighten, LoopLimit, LoopStop, Pop, TreeExhausted, RelaxInfeasible,
       RelaxUnbounded, RelaxGivesUp, RelaxSolved, RoundingHeuristic, BranchFractional,
       EnumerationSplit, IntegralLeaf, Drop, Break
  <2> QED BY <2>1
<1> QED BY <1>1, <1>2, <1>3

(* A step keeps emitted points out of the open boxes.                      *)
LEMMA FreshStep ==
  ASSUME TypeOK, SearchInv, BaseInv, BoxesInv, FreshInv, Next
  PROVE  FreshInv'
<1>m. mip' = mip /\ (enumerating' <=> enumerating)  BY MipFixed, OrdersFixed
<1> SUFFICES ASSUME enumerating
             PROVE  /\ ~stopped_early'
                    /\ \A i \in DOMAIN emitted' : \A nd \in Live' : ~Inside(emitted'[i], nd)
                    /\ \A i, k \in DOMAIN emitted' : emitted'[i] = emitted'[k] => i = k
                    /\ pc' = "done" /\ status' \in {OPTIMAL, INFEASIBLE} => Emitted' = mip.feas
  BY <1>m DEF FreshInv, Inside, OPTIMAL, INFEASIBLE
<1>0. /\ ~stopped_early
      /\ \A i \in DOMAIN emitted : \A nd \in Live : ~Inside(emitted[i], nd)
      /\ \A i, k \in DOMAIN emitted : emitted[i] = emitted[k] => i = k
  BY DEF FreshInv
<1>1. ~stopped_early'  BY <1>0, EnumerationGoesOn
<1>2. pc' = "done" /\ status' \in {OPTIMAL, INFEASIBLE} => Emitted' = mip.feas
  BY EndedComplete
<1>3. \A i \in DOMAIN emitted : emitted[i] \in mip.feas /\ emitted[i] \in Point
  BY PointFacts DEF TypeOK
<1>4. CASE emitted' = emitted
  <2>1. CASE RootTighten
    <3>1. emitted = << >>  BY <2>1 DEF RootTighten, SearchInv, PhaseInv
    <3> QED BY <1>1, <1>2, <1>4, <3>1
  <2>2. CASE ~RootTighten
    <3>1. \A i \in DOMAIN emitted : \A nd \in Live' : ~Inside(emitted[i], nd)
      BY <1>0, <1>3, <2>2, LiveShrinks
    <3> QED BY <1>0, <1>1, <1>2, <1>4, <3>1
  <2> QED BY <2>1, <2>2
<1>5. CASE IntegralLeaf /\ emitted' = Append(emitted, relax.base)
  <2> DEFINE b == relax.base   n == Len(emitted)
  <2>1. b \in mip.feas /\ b \in Point /\ Inside(b, node)
    BY <1>5, PointFacts DEF IntegralLeaf, SearchInv, RelaxInv, Points
  <2>2. node \in Live /\ Live' \subseteq Live \ {node}
    BY <1>5, LiveStep, <1>1 DEF Live, IntegralLeaf, Busy, BaseInv, Drop, Break
  <2>3. \A nd \in Live' : ~Inside(b, nd)
    BY <2>1, <2>2, ApartBoxes, BoxFacts DEF BoxesInv
  <2>4. \A i \in DOMAIN emitted : emitted[i] # b
    BY <1>0, <2>1, <2>2
  <2>5. n \in Nat /\ DOMAIN emitted = 1 .. n /\ DOMAIN emitted' = 1 .. n + 1
        /\ (\A i \in 1 .. n : emitted'[i] = emitted[i]) /\ emitted'[n + 1] = b
    BY <1>5, <2>1 DEF TypeOK
  <2>6. \A i \in DOMAIN emitted' : i \in 1 .. n \/ i = n + 1
    BY <2>5
  <2> HIDE DEF b, n
  <2>7. \A i \in DOMAIN emitted' : \A nd \in Live' : ~Inside(emitted'[i], nd)
    BY <1>0, <2>2, <2>3, <2>5, <2>6
  <2>8. \A i, k \in DOMAIN emitted' : emitted'[i] = emitted'[k] => i = k
    BY <1>0, <2>4, <2>5, <2>6
  <2> QED BY <1>1, <1>2, <2>7, <2>8
<1>6. emitted' = emitted \/ (IntegralLeaf /\ emitted' = Append(emitted, relax.base))
  BY DEF Next, RootTighten, RootInfeasible, LoopLimit, LoopStop, Pop, TreeExhausted,
     RelaxInfeasible, RelaxUnbounded, RelaxGivesUp, RelaxSolved, RoundingHeuristic,
     BranchFractional, EnumerationSplit, IntegralLeaf, Finish
<1> QED BY <1>4, <1>5, <1>6

----------------------------------------------------------------------------
(* Counting the nodes.                                                     *)

(* The lattice of the box is finite, and so are its covered points and the *)
(* corners.                                                                *)
LEMMA LatticeFacts ==
  ASSUME TypeOK, BoxesInv, IsFiniteSet(Vars)
  PROVE  /\ IsFiniteSet(Lattice) /\ Cardinality(Lattice) \in Nat
         /\ Corners \subseteq Covered /\ Covered \subseteq Lattice
         /\ IsFiniteSet(Covered) /\ Cardinality(Covered) \in Nat
         /\ IsFiniteSet(Corners) /\ Cardinality(Corners) \in Nat
         /\ Cardinality(Corners) <= Cardinality(Covered)
         /\ Cardinality(Covered) <= Cardinality(Lattice)
<1>1. IsFiniteSet(Lattice)  BY BoxFacts, BoxFinite DEF Lattice
<1>2. Covered \subseteq Lattice  BY DEF Covered
<1>3. ASSUME NEW nd \in Live  PROVE nd.lo \in Covered
  <2>1. nd.lo \in Point /\ nd.hi \in Point /\ mip.lo \in Point /\ mip.hi \in Point
    BY BoxFacts
  <2>2. \A j \in Vars : mip.lo[j] <= nd.lo[j] /\ nd.lo[j] <= nd.hi[j] /\ nd.hi[j] <= mip.hi[j]
    BY DEF BoxesInv
  <2>3. \A j \in Vars : mip.lo[j] \in Int /\ nd.lo[j] \in Int /\ nd.hi[j] \in Int /\ mip.hi[j] \in Int
    BY <2>1 DEF Point
  <2>4. nd.lo \in Lattice
    BY <2>1, <2>2, <2>3, BetweenPoints DEF Lattice
  <2>5. Inside(nd.lo, nd)  BY <2>2, <2>3 DEF Inside
  <2> QED BY <2>4, <2>5 DEF Covered
<1>4. Corners \subseteq Covered  BY <1>3 DEF Corners
<1>5. IsFiniteSet(Covered) /\ Cardinality(Covered) <= Cardinality(Lattice)
  BY <1>1, <1>2, FS_Subset
<1>6. IsFiniteSet(Corners) /\ Cardinality(Corners) <= Cardinality(Covered)
  BY <1>4, <1>5, FS_Subset
<1> QED BY <1>1, <1>2, <1>4, <1>5, <1>6, FS_CardinalityType

(* The current box gone, its corner is covered no more.                    *)
LEMMA DropCounts ==
  ASSUME TypeOK, BaseInv, BoxesInv, Next, IsFiniteSet(Vars), Busy, Live' = Live \ {node}
  PROVE  /\ Cardinality(Covered') <= Cardinality(Covered) - 1
         /\ Cardinality(Corners') = Cardinality(Corners) - 1
         /\ Cardinality(Covered') \in Nat
<1>m. mip' = mip  BY MipFixed
<1>1. node \in Live /\ node.lo \in Point /\ node.hi \in Point /\ node.lo \in Corners
  BY BoxFacts DEF Live, Busy, Corners
<1>2. Inside(node.lo, node)
  BY <1>1 DEF BoxesInv, Inside, Point
<1>3. \A nd \in Live \ {node} : ~Inside(node.lo, nd)
  BY <1>1, <1>2, ApartBoxes, BoxFacts DEF BoxesInv
<1>4. \A nd \in Live \ {node} : nd.lo # node.lo
  <2> SUFFICES ASSUME NEW nd \in Live \ {node}, nd.lo = node.lo PROVE FALSE
    OBVIOUS
  <2>1. nd.lo \in Point /\ nd.hi \in Point  BY BoxFacts
  <2>2. Inside(nd.lo, nd)  BY <2>1 DEF BoxesInv, Inside, Point
  <2> QED BY <1>3, <2>2
<1>5. Corners' = Corners \ {node.lo}
  BY <1>1, <1>4 DEF Corners
<1>6. Covered' \in SUBSET (Covered \ {node.lo})
  BY <1>m, <1>3 DEF Covered, Lattice, Inside
<1>7. IsFiniteSet(Covered) /\ IsFiniteSet(Corners) /\ node.lo \in Covered
      /\ Cardinality(Covered) \in Nat
  BY <1>1, LatticeFacts
<1>8. IsFiniteSet(Covered \ {node.lo})
      /\ Cardinality(Covered \ {node.lo}) = Cardinality(Covered) - 1
  BY <1>7, FS_RemoveElement
<1>9. IsFiniteSet(Covered') /\ Cardinality(Covered') <= Cardinality(Covered) - 1
  BY <1>6, <1>8, FS_Subset
<1>10. Cardinality(Corners') = Cardinality(Corners) - 1
  BY <1>1, <1>5, <1>7, FS_RemoveElement
<1> QED BY <1>9, <1>10, FS_CardinalityType

(* Two halves cover what the box covered, with one corner more.            *)
LEMMA SplitCounts ==
  ASSUME TypeOK, BaseInv, BoxesInv, Next, IsFiniteSet(Vars), Busy, NEW j, NEW v, SplitAt(j, v)
  PROVE  /\ Covered' = Covered
         /\ Cardinality(Corners') = Cardinality(Corners) + 1
<1>m. mip' = mip  BY MipFixed
<1>1. PICK low, high :
        /\ Live' = (Live \ {node}) \union {low, high}
        /\ low.lo = node.lo /\ low.hi = [node.hi EXCEPT ![j] = v]
        /\ high.lo = [node.lo EXCEPT ![j] = v + 1] /\ high.hi = node.hi
        /\ low.lo \in Point /\ low.hi \in Point /\ high.lo \in Point /\ high.hi \in Point
        /\ Apart(low, high) /\ Apart(high, low)
        /\ \A nd \in Live \ {node} : /\ Apart(nd, low) /\ Apart(nd, high)
                                     /\ Apart(low, nd) /\ Apart(high, nd)
  BY SplitFacts
<1>2. node \in Live /\ node.lo \in Point /\ node.hi \in Point
  BY BoxFacts DEF Live, Busy
<1>3. j \in Vars /\ v \in Int /\ node.lo[j] <= v /\ v < node.hi[j]
  BY DEF SplitAt
<1>4. ASSUME NEW p \in Point
      PROVE  Inside(p, node) <=> Inside(p, low) \/ Inside(p, high)
  <2>1. \A k \in Vars : /\ low.hi[k] = IF k = j THEN v ELSE node.hi[k]
                        /\ high.lo[k] = IF k = j THEN v + 1 ELSE node.lo[k]
    BY <1>1, <1>2 DEF Point
  <2>2. \A k \in Vars : p[k] \in Int /\ node.lo[k] \in Int /\ node.hi[k] \in Int
    BY <1>2 DEF Point
  <2>3. Inside(p, node) /\ p[j] <= v => Inside(p, low)
    BY <1>1, <2>1, <2>2 DEF Inside
  <2>4. Inside(p, node) /\ p[j] > v => Inside(p, high)
    BY <1>1, <1>3, <2>1, <2>2 DEF Inside
  <2>5. Inside(p, low) => Inside(p, node)
    BY <1>1, <1>3, <2>1, <2>2 DEF Inside
  <2>6. Inside(p, high) => Inside(p, node)
    BY <1>1, <1>3, <2>1, <2>2 DEF Inside
  <2>7. p[j] <= v \/ p[j] > v  BY <1>3, <2>2
  <2> QED BY <2>3, <2>4, <2>5, <2>6, <2>7
<1>5. \A p \in Lattice : p \in Point
  BY BetweenPoints, BoxFacts DEF Lattice
<1>6. Covered' = Covered
  <2>1. Covered' = {p \in Lattice : \E nd \in (Live \ {node}) \union {low, high} : Inside(p, nd)}
    BY <1>m, <1>1 DEF Covered, Lattice, Inside
  <2> QED BY <1>2, <1>4, <1>5, <2>1 DEF Covered
<1>7. high.lo \notin Corners
  <2>1. high.lo # node.lo
    BY <1>1, <1>2, <1>3 DEF Point
  <2>2. ASSUME NEW nd \in Live \ {node}  PROVE nd.lo # high.lo
    <3>1. PICK k \in Vars : nd.hi[k] < high.lo[k] \/ high.hi[k] < nd.lo[k]
      BY <1>1 DEF Apart
    <3>2. nd.lo[k] <= nd.hi[k] /\ nd.lo[k] \in Int /\ nd.hi[k] \in Int
      BY BoxFacts DEF BoxesInv, Point
    <3>3. high.lo[k] <= high.hi[k] /\ high.lo[k] \in Int /\ high.hi[k] \in Int
      BY <1>1, <1>2, <1>3 DEF BoxesInv, Point
    <3> QED BY <3>1, <3>2, <3>3
  <2> QED BY <2>1, <2>2 DEF Corners
<1>8. Corners' = Corners \union {high.lo}
  BY <1>1, <1>2 DEF Corners
<1> QED BY <1>6, <1>7, <1>8, LatticeFacts, FS_AddElement

(* The node budget at the root.                                            *)
LEMMA RootBudget ==
  ASSUME NEW c \in Nat, NEW r \in Nat, c <= r
  PROVE  0 + 2 * c - 1 - 0 <= 2 * r - 1
OBVIOUS

(* The node budget when a box is dropped.                                  *)
LEMMA DropBudget ==
  ASSUME NEW n \in Nat, NEW c \in Nat, NEW d \in Nat, NEW k \in Nat, NEW r \in Nat,
         d <= c - 1, n + 2 * c - k - 1 <= 2 * r - 1
  PROVE  n + 2 * d - (k - 1) - 0 <= 2 * r - 1
OBVIOUS

(* A step keeps the count of nodes within the budget.                      *)
LEMMA CountStep ==
  ASSUME TypeOK, SearchInv, BaseInv, BoxesInv, CountInv, Next, IsFiniteSet(Vars)
  PROVE  CountInv'
<1> DEFINE c == Cardinality(Covered)   k == Cardinality(Corners)
           r == Cardinality(Lattice)   b == IF Busy THEN 1 ELSE 0
<1>m. mip' = mip /\ r' = r /\ Lattice' = Lattice  BY MipFixed DEF Lattice
<1>t. c \in Nat /\ k \in Nat /\ r \in Nat /\ nodes \in Nat /\ k <= c /\ c <= r
  BY LatticeFacts DEF TypeOK
<1>0. (nodes = 0 /\ Live = {}) \/ nodes + 2 * c - k - b <= 2 * r - 1
  BY DEF CountInv, Busy
<1>g. SUFFICES (nodes' = 0 /\ Live' = {}) \/ nodes' + 2 * c' - k' - b' <= 2 * r - 1
  BY <1>m DEF CountInv, Busy
<1>1. CASE RootTighten
  <2>1. PICK lo \in Point, hi \in Point :
          /\ Live' = {[lo |-> lo, hi |-> hi, bound |-> 0]}
          /\ \A i \in Vars : mip.lo[i] <= lo[i] /\ lo[i] <= hi[i] /\ hi[i] <= mip.hi[i]
          /\ nodes' = nodes
    BY <1>1, RootBox
  <2>2. Corners' = {lo}  BY <2>1 DEF Corners
  <2>3. k' = 1  BY <2>2, FS_Singleton
  <2>4. Covered' \in SUBSET Lattice  BY <1>m DEF Covered
  <2>5. c' \in Nat /\ c' <= r  BY <2>4, LatticeFacts, FS_Subset, FS_CardinalityType
  <2>6. nodes' = 0 /\ b' = 0
    BY <1>1, <2>1 DEF RootTighten, SearchInv, PhaseInv, Busy
  <2>7. 0 + 2 * c' - 1 - 0 <= 2 * r - 1
    BY <1>t, <2>5, RootBudget
  <2> QED BY <2>3, <2>6, <2>7
<1>2. CASE pc' = "done" /\ Live' = {} /\ nodes' = nodes /\ ~Busy /\ ~Busy'
  <2>1. c' = 0 /\ k' = 0
    <3>1. Covered' = {} /\ Corners' = {}  BY <1>2 DEF Covered, Corners
    <3> QED BY <3>1, FS_EmptySet
  <2>2. b = 0 /\ b' = 0  BY <1>2
  <2> HIDE DEF c, k, r, b
  <2> QED BY <1>0, <1>2, <1>t, <2>1, <2>2
<1>3. CASE /\ Live' = Live
           /\ \/ nodes' = nodes /\ (Busy' <=> Busy)
              \/ nodes' = nodes + 1 /\ ~Busy /\ Busy'
  <2>1. Covered' = Covered /\ Corners' = Corners
    BY <1>m, <1>3 DEF Covered, Corners, Inside
  <2>2. c' = c /\ k' = k  BY <2>1
  <2>3. CASE nodes' = nodes /\ (Busy' <=> Busy)
    BY <1>0, <1>3, <2>2, <2>3
  <2>4. CASE nodes' = nodes + 1 /\ ~Busy /\ Busy'
    <3>1. Live # {}
      BY <1>3, <2>4 DEF Live, Busy
    <3>2. b = 0 /\ b' = 1  BY <2>4
    <3> HIDE DEF c, k, r, b
    <3> QED BY <1>0, <1>t, <2>2, <2>4, <3>1, <3>2
  <2> QED BY <1>3, <2>3, <2>4
<1>4. CASE Busy /\ ~Busy' /\ nodes' = nodes /\ Live' = Live \ {node}
  <2>1. c' <= c - 1 /\ k' = k - 1 /\ c' \in Nat  BY <1>4, DropCounts
  <2>2. b = 1 /\ b' = 0 /\ Live # {} /\ nodes' = nodes  BY <1>4 DEF Live, Busy
  <2>3. nodes + 2 * c - k - 1 <= 2 * r - 1  BY <1>0, <2>2
  <2>4. nodes + 2 * c' - (k - 1) - 0 <= 2 * r - 1
    BY <1>t, <2>1, <2>3, DropBudget
  <2> QED BY <2>1, <2>2, <2>4
<1>5. CASE Busy /\ ~Busy' /\ nodes' = nodes /\ \E j, v : SplitAt(j, v)
  <2>1. c' = c /\ k' = k + 1  BY <1>5, SplitCounts
  <2>2. b = 1 /\ b' = 0 /\ Live # {}  BY <1>5 DEF Live, Busy
  <2> HIDE DEF c, k, r, b
  <2> QED BY <1>0, <1>5, <1>t, <2>1, <2>2
<1> QED BY <1>1, <1>2, <1>3, <1>4, <1>5, LiveStep

----------------------------------------------------------------------------
(* The theorems.                                                           *)

(* The tree's invariant holds at first.                                    *)
LEMMA TreeInit == Init => TreeInv
<1> SUFFICES ASSUME Init PROVE TreeInv
  OBVIOUS
<1>1. Live = {}  BY DEF Init, Live
<1> QED BY <1>1 DEF Init, TreeInv, BaseInv, BoxesInv, FreshInv, CountInv

(* A step keeps the tree's invariant.                                      *)
LEMMA TreeStep ==
  ASSUME IsFiniteSet(Vars), TypeOK, SearchInv, TreeInv, [Next]_vars
  PROVE  TreeInv'
<1>1. CASE Next
  BY <1>1, BaseStep, BoxesStep, FreshStep, CountStep DEF TreeInv
<1>2. CASE UNCHANGED vars
  BY <1>2 DEF vars, TreeInv, BaseInv, BoxesInv, FreshInv, CountInv, Live, Apart, Inside,
     Emitted, Lattice, Covered, Corners, enumerating
<1> QED BY <1>1, <1>2

(* The live boxes stay non-empty parts of the model's box and disjoint, no *)
(* point handed out lies in one, and every node popped is paid for by the  *)
(* points it covers.                                                       *)
THEOREM TreeCorrect ==
  ASSUME IsFiniteSet(Vars)
  PROVE  Spec => [](TypeOK /\ SearchInv /\ TreeInv)
<1>1. Init => TypeOK /\ SearchInv /\ TreeInv
  BY TypeInit, SearchInit, TreeInit
<1>2. TypeOK /\ SearchInv /\ TreeInv /\ [Next]_vars => (TypeOK /\ SearchInv /\ TreeInv)'
  <2>1. SearchInv => RelaxInv  BY DEF SearchInv
  <2> QED BY <2>1, TypeStep, SearchStep, TreeStep
<1> QED BY <1>1, <1>2, PTL DEF Spec

(* Each solution of a model is handed out at most once, and all of them    *)
(* when the search ends unlimited; the tree has fewer than two nodes for   *)
(* each point of the box, so that a larger node limit never ends it.       *)
THEOREM EnumerationIsExact ==
  ASSUME IsFiniteSet(Vars)
  PROVE  Spec => []EnumerationExact
<1>1. TypeOK /\ TreeInv => EnumerationExact
  <2> SUFFICES ASSUME TypeOK, TreeInv PROVE EnumerationExact
    OBVIOUS
  <2> DEFINE c == Cardinality(Covered)   k == Cardinality(Corners)   r == Cardinality(Lattice)
             b == IF pc \in {"relax", "round", "branch"} THEN 1 ELSE 0
  <2>1. nodes > 0 => nodes <= 2 * r - 1
    <3> SUFFICES ASSUME nodes > 0 PROVE nodes <= 2 * r - 1
      OBVIOUS
    <3>1. nodes + 2 * c - k - b <= 2 * r - 1  BY DEF TreeInv, CountInv, TypeOK
    <3>2. c \in Nat /\ k \in Nat /\ r \in Nat /\ nodes \in Nat /\ k <= c
      BY LatticeFacts DEF TreeInv, TypeOK
    <3>3. b = 0 \/ (b = 1 /\ c > 0)
      <4>1. ASSUME pc \in {"relax", "round", "branch"}  PROVE c > 0
        <5>1. node.lo \in Corners  BY <4>1 DEF Corners, Live
        <5>2. c # 0  BY <5>1, LatticeFacts, FS_EmptySet DEF TreeInv
        <5> HIDE DEF c
        <5> QED BY <3>2, <5>2
      <4> QED BY <4>1
    <3> HIDE DEF c, k, r, b
    <3> QED BY <3>1, <3>2, <3>3
  <2>2. TreeIsAPartition
    BY <2>1 DEF TreeIsAPartition, TreeInv, BoxesInv, Lattice
  <2> QED BY <2>2 DEF EnumerationExact, TreeInv, FreshInv
<1> QED BY <1>1, TreeCorrect, PTL

----------------------------------------------------------------------------
(* The words of mipsolve: an optimum or an infeasibility is backed by the  *)
(* model, and the evidence checks never demote a point the search stands   *)
(* by.                                                                     *)

(* A search that ends with a point verdict holds a point.                  *)
PointInv == pc = "done" /\ status \in {OPTIMAL, FEASIBLE} => have_incumbent

(* The word is chosen once, after the search, by its final status.         *)
WordInv ==
  /\ printed # Nothing => pc = "done"
  /\ printed = "OPTIMAL" => status = OPTIMAL /\ proven_optimal /\ objective = incumbent
  /\ printed = "INFEASIBLE" => status = INFEASIBLE
  /\ ProofIsPrinted

CliInv == TypeOK /\ SearchInv /\ PointInv /\ WordInv

(* The printed word follows from its status by what the search proved.     *)
LEMMA WordsFollow == CliInv => PrintedFollowsTheModel
<1> SUFFICES ASSUME CliInv PROVE PrintedIsBacked
  BY DEF PrintedFollowsTheModel, CliInv, WordInv
<1>1. ASSUME printed = "INFEASIBLE" PROVE mip.feas = {}
  <2>1. pc = "done" /\ status = INFEASIBLE
    BY <1>1 DEF CliInv, WordInv, Nothing
  <2> QED BY <2>1 DEF CliInv, SearchInv, InfeasibleIsProof
<1>2. ASSUME printed = "OPTIMAL"
      PROVE  objective = incumbent /\ \A p \in mip.feas : WithinGap(mip.obj[p], objective)
  <2>1. pc = "done" /\ status = OPTIMAL /\ proven_optimal /\ objective = incumbent
    BY <1>2 DEF CliInv, WordInv, Nothing
  <2> QED BY <2>1 DEF CliInv, SearchInv, OptimalWithinGap
<1> QED BY <1>1, <1>2 DEF PrintedIsBacked

(* The evidence check accepts every incumbent: best_bound dominates it, so *)
(* it is never on the wrong side of the reported bound.                    *)
LEMMA IncumbentIsCertified ==
  ASSUME TypeOK, SearchInv, pc = "done", have_incumbent, NEW claim \in BOOLEAN
  PROVE  PointCertified(claim)
<1>1. bestx \in mip.feas
  BY DEF TypeOK, have_incumbent
<1>2. incumbent \in Int /\ best_bound \in Int
  BY <1>1, IncumbentFacts, PointFacts DEF TypeOK, incumbent
<1>3. ~Better(incumbent, best_bound)
  BY <1>1 DEF SearchInv, BoundInv, incumbent
<1> DEFINE g == Gain(incumbent, best_bound)   s == 1 + Abs(incumbent) + Abs(best_bound)
<1>4. g \in Int /\ g <= 0
  BY <1>2, <1>3, GainInt DEF Better
<1>5. s \in Nat
  BY <1>2 DEF Abs
<1> HIDE DEF g, s
<1>6. GapDen * g <= 0 /\ GapNum * s >= 0
  <2>1. GapDen \in Nat /\ GapNum \in Nat  BY GapAssumption
  <2>2. -g \in Nat  BY <1>4
  <2>3. GapDen * (-g) \in Nat /\ GapNum * s \in Nat
    BY <2>1, <2>2, <1>5
  <2>4. GapDen * g = -(GapDen * (-g))
    BY <2>1, <2>2, <1>4
  <2> QED BY <2>3, <2>4
<1>7. GapDen * g \in Int /\ GapNum * s \in Int
  BY <1>4, <1>5, GapAssumption
<1> QED BY <1>1, <1>6, <1>7 DEF PointCertified, g, s

(* Before the search nothing is printed.                                   *)
LEMMA CliStart == CliInit => CliInv
<1> SUFFICES ASSUME CliInit PROVE CliInv
  OBVIOUS
<1>1. TypeOK /\ SearchInv
  BY TypeInit, SearchInit DEF CliInit
<1>2. PointInv /\ WordInv
  BY DEF CliInit, Init, PointInv, WordInv, ProofIsPrinted, Nothing
<1> QED BY <1>1, <1>2 DEF CliInv

(* A step of the search, before anything is printed.                       *)
LEMMA SearchPart ==
  ASSUME CliInv, Next, UNCHANGED <<printed, objective>>
  PROVE  CliInv'
<1>1. TypeOK' /\ SearchInv'
  BY TypeStep, SearchStep DEF CliInv, SearchInv
<1>2. pc # "done"
  BY DEF Next, RootTighten, RootInfeasible, LoopLimit, LoopStop, Pop, TreeExhausted,
         RelaxInfeasible, RelaxUnbounded, RelaxGivesUp, RelaxSolved, RoundingHeuristic,
         BranchFractional, EnumerationSplit, IntegralLeaf, Finish
<1>3. printed = Nothing
  BY <1>2 DEF CliInv, WordInv
<1>4. WordInv'
  BY <1>3 DEF WordInv, ProofIsPrinted, Nothing
<1>5. PointInv'
  <2>1. CASE Finish
    BY <2>1 DEF CliInv, SearchInv, PhaseInv, Finish, PointInv, have_incumbent,
                OPTIMAL, FEASIBLE, INFEASIBLE, NODE_LIMIT, STOPPED, NUMERICAL, INVALID, UNBOUNDED
  <2>2. CASE RootInfeasible
    BY <2>2 DEF RootInfeasible, PointInv, OPTIMAL, FEASIBLE, INFEASIBLE
  <2>3. CASE ~Finish /\ ~RootInfeasible
    <3>1. pc' # "done"
      BY <2>3 DEF Next, RootTighten, LoopLimit, LoopStop, Pop, TreeExhausted, Drop, Break,
         RelaxInfeasible, RelaxUnbounded, RelaxGivesUp, RelaxSolved, RoundingHeuristic,
         BranchFractional, EnumerationSplit, IntegralLeaf
    <3> QED BY <3>1 DEF PointInv
  <2> QED BY <2>1, <2>2, <2>3
<1> QED BY <1>1, <1>4, <1>5 DEF CliInv

(* The report, by the status it reports.                                   *)
LEMMA ReportPart ==
  ASSUME CliInv, Report
  PROVE  CliInv'
<1>1. TypeOK' /\ SearchInv'
  BY SearchStutter, TypeStep DEF CliInv, Report, SearchInv
<1>2. PointInv'
  BY DEF CliInv, PointInv, Report, vars, have_incumbent
<1>3. pc = "done" /\ pc' = pc /\ status' = status /\ proven_optimal' = proven_optimal
      /\ incumbent' = incumbent
  BY DEF Report, vars, incumbent
<1>4. status \in {OPTIMAL, FEASIBLE} => PointCertified(TRUE) /\ PointCertified(FALSE)
  BY <1>3, IncumbentIsCertified DEF CliInv, PointInv
<1> USE DEF OPTIMAL, FEASIBLE, INFEASIBLE, NODE_LIMIT, STOPPED, NUMERICAL, INVALID, UNBOUNDED
<1>5. CASE ReportPoint
  BY <1>1, <1>2, <1>3, <1>4, <1>5 DEF ReportPoint, PrintPoint, CliInv, WordInv, ProofIsPrinted
<1>6. CASE ReportInfeasible
  BY <1>1, <1>2, <1>3, <1>6 DEF ReportInfeasible, PrintWord, CliInv, WordInv, ProofIsPrinted
<1>7. CASE ReportUnbounded
  BY <1>1, <1>2, <1>3, <1>7 DEF ReportUnbounded, PrintWord, CliInv, WordInv, ProofIsPrinted
<1>8. CASE ReportLimit
  BY <1>1, <1>2, <1>3, <1>8 DEF ReportLimit, CliInv, WordInv, ProofIsPrinted
<1>9. CASE ReportFailure
  BY <1>1, <1>2, <1>3, <1>9 DEF ReportFailure, PrintWord, CliInv, WordInv, ProofIsPrinted
<1> QED BY <1>5, <1>6, <1>7, <1>8, <1>9 DEF Report

(* What mipsolve prints follows the model, in both directions, whatever    *)
(* the simplex claimed on the way and wherever the search was cut short.   *)
THEOREM PrintedWordsFollow == CliSpec => []PrintedFollowsTheModel
<1>1. CliInit => CliInv
  BY CliStart
<1>2. CliInv /\ [CliNext]_cliVars => CliInv'
  <2> SUFFICES ASSUME CliInv, [CliNext]_cliVars PROVE CliInv'
    OBVIOUS
  <2>1. CASE Next /\ UNCHANGED <<printed, objective>>
    BY <2>1, SearchPart
  <2>2. CASE Report
    BY <2>2, ReportPart
  <2>3. CASE UNCHANGED cliVars
    <3>1. TypeOK' /\ SearchInv'
      BY <2>3, SearchStutter, TypeStep DEF CliInv, cliVars, SearchInv
    <3> QED BY <3>1, <2>3 DEF CliInv, cliVars, vars, PointInv, WordInv, ProofIsPrinted,
                 have_incumbent, incumbent
  <2> QED BY <2>1, <2>2, <2>3 DEF CliNext
<1> QED BY <1>1, <1>2, WordsFollow, PTL DEF CliSpec
=============================================================================
