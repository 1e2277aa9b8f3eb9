------------------------------ MODULE CspProbe ------------------------------
(***************************************************************************)
(* The small backtracking solver that fz_solve tries on a satisfaction     *)
(* problem before the MIP (src/src/fzn.c, csp_try_alldiff and the csp_     *)
(* functions): which constraints it takes, propagation over its domains    *)
(* and what one node of its search does.  The search is in FznRows.        *)
(*                                                                         *)
(* A domain holds the values left (the mask) and says whether one of them  *)
(* was assigned; the bounds are the declared ones until then.              *)
(***************************************************************************)
EXTENDS FznMeaning

CONSTANTS
  PASSES,        \* rounds of one propagation (200)
  WIDTH          \* most values of a domain (64)

Free(S) == [vals |-> S, assigned |-> FALSE]
Fixed(i) == [vals |-> {i}, assigned |-> TRUE]
ValueOf(dom) == Min(dom.vals)

(* A state of propagation: domains, and whether no contradiction was met.  *)
Going(doms) == [doms |-> doms, ok |-> TRUE]
Failed(s) == [s EXCEPT !.ok = FALSE]

Assigned(s, v) == s.doms[v].assigned
csp_contains(s, v, i) == i \in s.doms[v].vals

(* The last value left is assigned.                                        *)
csp_remove(s, v, i) ==
  LET left == s.doms[v].vals \ {i}
  IN IF ~csp_contains(s, v, i) THEN s
     ELSE IF left = {} THEN Failed(s)
     ELSE [s EXCEPT !.doms[v] = IF Cardinality(left) = 1 THEN Fixed(Min(left)) ELSE Free(left)]

csp_assign(s, v, i) ==
  IF csp_contains(s, v, i) THEN [s EXCEPT !.doms[v] = Fixed(i)] ELSE Failed(s)

----------------------------------------------------------------------------
(* What csp_try_alldiff collects.                                          *)

AllDiff(fs) ==
  [kind |-> "alldiff", vars |-> [i \in DOMAIN SelectSeq(fs, lin_unit_var) |->
                                   VarOf(SelectSeq(fs, lin_unit_var)[i])],
   fixed |-> Ints(SelectSeq(fs, IsConst))]
CspLin(vars, coefs, rel, rhs) ==
  [kind |-> "lin", vars |-> vars, coefs |-> coefs, rel |-> rel, rhs |-> rhs]
CspNe(a, b, ca, cb, rhs) ==
  [kind |-> "ne", vars |-> <<a, b>>, coefs |-> <<ca, cb>>, rhs |-> rhs]

Variables(fs) == [i \in DOMAIN fs |-> VarOf(fs[i])]
Units(fs) == \A i \in DOMAIN fs : lin_unit_var(fs[i])

Side(rel) == CASE rel = "eq" -> "=" [] rel \in {"le", "lt"} -> "<" [] rel \in {"ge", "gt"} -> ">"
Strict(rel) == CASE rel = "lt" -> -1 [] rel = "gt" -> 1 [] rel \in {"eq", "le", "ge"} -> 0

(* Any predicate with "all_different" in its name is an all-different; one *)
(* without variables is passed over.                                       *)
Taken(c) ==
  CASE c.p = "all_different" -> TRUE
    [] c.p = "lin" /\ c.mode = "" ->
         /\ ~c.float /\ Coefficients(c) /\ Units(c.a[2]) /\ IsConst(c.a[3])
         /\ c.rel = "ne" => Len(c.a[2]) = 2
    [] c.p = "compare" /\ c.mode = "" ->
         /\ ~c.float
         /\ \/ c.rel = "ne" /\ Units(c.a)
            \/ c.rel = "eq" /\ \E i \in DOMAIN c.a : lin_unit_var(c.a[i])
    [] c.p \notin {"all_different", "lin", "compare"} \/ (c.p # "all_different" /\ c.mode # "") -> FALSE

Collected(c) ==
  LET f == c.a[1]
      g == c.a[2]
      k == Ints(c.a[1])
      vs == Variables(g)
  IN CASE c.p = "all_different" -> IF Len(f) > 1 /\ ~Consts(f) THEN <<AllDiff(f)>> ELSE << >>
       [] c.p = "lin" /\ c.rel = "ne" -> <<CspNe(vs[1], vs[2], k[1], k[2], IntOf(c.a[3]))>>
       [] c.p = "lin" /\ c.rel # "ne" ->
            <<CspLin(vs, k, Side(c.rel), IntOf(c.a[3]) + Strict(c.rel))>>
       [] c.p = "compare" /\ c.rel = "ne" -> <<CspNe(VarOf(f), VarOf(g), 1, -1, 0)>>
       [] c.p = "compare" /\ c.rel = "eq" ->
            <<CASE IsConst(g) -> CspLin(<<VarOf(f)>>, <<1>>, "=", IntOf(g))
                [] IsConst(f) -> CspLin(<<VarOf(g)>>, <<1>>, "=", IntOf(f))
                [] ~IsConst(f) /\ ~IsConst(g) -> CspLin(<<VarOf(f), VarOf(g)>>, <<1, -1>>, "=", 0)>>

(* All constraints or none, in the order of the list: the last one of the  *)
(* file first; within it the all-different ones are looked at first, then  *)
(* the linear ones.                                                        *)
OfKind(cs, kind) == SelectSeq(cs, LAMBDA c : c.kind = kind)
Collection(p) ==
  LET all == FoldLeft(LAMBDA s, c : Collected(c) \o s, << >>, p.constraints)
  IN OfKind(all, "alldiff") \o OfKind(all, "lin") \o OfKind(all, "ne")

csp_try_alldiff(p) ==
  /\ p.objective.kind = "satisfy"
  /\ p.nolo \cup p.nohi = {}
  /\ \A v \in DOMAIN p.lo : /\ p.lo[v] .. p.hi[v] # {} /\ Cardinality(p.lo[v] .. p.hi[v]) <= WIDTH
                            /\ p.set[v] = {} \/ p.set[v] = p.lo[v] .. p.hi[v]
  /\ \A i \in DOMAIN p.constraints : Taken(p.constraints[i])
  /\ \E i \in DOMAIN Collection(p) : Collection(p)[i].kind # "lin"

----------------------------------------------------------------------------
(* Propagation.                                                            *)

(* Values of assigned variables and constants are removed from the others. *)
PruneAllDiff(s, c) ==
  LET clash == \E i, k \in DOMAIN c.fixed : i < k /\ c.fixed[i] = c.fixed[k]
      From(s1, i) ==
        LET v == c.vars[i]
            a == ValueOf(s1.doms[v])
            Other(s2, j) ==
              IF j = i \/ ~s2.ok THEN s2
              ELSE IF Assigned(s2, c.vars[j])
                   THEN IF ValueOf(s2.doms[c.vars[j]]) = a THEN Failed(s2) ELSE s2
              ELSE csp_remove(s2, c.vars[j], a)
        IN IF ~s1.ok \/ ~Assigned(s1, v) THEN s1
           ELSE IF a \in Range(c.fixed) THEN Failed(s1)
           ELSE FoldLeft(Other, s1, [j \in DOMAIN c.vars |-> j])
      Constant(s1, k) ==
        FoldLeft(LAMBDA s2, v : IF ~s2.ok \/ Assigned(s2, v) THEN s2 ELSE csp_remove(s2, v, k),
                 s1, c.vars)
  IN IF clash THEN Failed(s)
     ELSE FoldLeft(Constant, FoldLeft(From, s, [i \in DOMAIN c.vars |-> i]), c.fixed)

Divides(k, i) == i % Abs(k) = 0

(* Both sides of two variables: the value of one decides the other.        *)
Forced_OtherSide(c, i, a) == Quotient(c.rhs + c.coefs[3 - i] * a, c.coefs[i])   \* a mutant
Forced(c, i, a) == Quotient(c.rhs - c.coefs[3 - i] * a, c.coefs[i])
Solvable(c, i, a) == Divides(c.coefs[i], c.rhs - c.coefs[3 - i] * a)

PruneLin(s, c, lo, hi) ==
  LET low(v) == IF Assigned(s, v) THEN ValueOf(s.doms[v]) ELSE lo[v]
      high(v) == IF Assigned(s, v) THEN ValueOf(s.doms[v]) ELSE hi[v]
      Sum(F(_), G(_)) == FoldLeft(LAMBDA t, i : t + c.coefs[i] * (IF c.coefs[i] >= 0 THEN F(c.vars[i])
                                                                                  ELSE G(c.vars[i])),
                                  0, [i \in DOMAIN c.vars |-> i])
      possible == /\ c.rel # ">" => Sum(low, high) <= c.rhs
                  /\ c.rel # "<" => Sum(high, low) >= c.rhs
      open == {i \in DOMAIN c.vars : ~Assigned(s, c.vars[i])}
      i == CHOOSE i \in open : TRUE
      a == ValueOf(s.doms[c.vars[3 - i]])
  IN IF c.rel = "=" /\ Len(c.vars) = 2 /\ Cardinality(open) = 1
     THEN IF Solvable(c, i, a) THEN csp_assign(s, c.vars[i], Forced(c, i, a)) ELSE Failed(s)
     ELSE IF possible THEN s ELSE Failed(s)


PruneNe(s, c) ==
  LET open == {i \in {1, 2} : ~Assigned(s, c.vars[i])}
      i == CHOOSE i \in open : TRUE
      a == ValueOf(s.doms[c.vars[3 - i]])
      value(j) == ValueOf(s.doms[c.vars[j]])
  IN CASE open = {} -> IF c.coefs[1] * value(1) + c.coefs[2] * value(2) = c.rhs THEN Failed(s) ELSE s
       [] Cardinality(open) = 1 ->
            IF Solvable(c, i, a) THEN csp_remove(s, c.vars[i], Forced(c, i, a)) ELSE s
       [] Cardinality(open) = 2 -> s

(* Rounds over all constraints until nothing changes, but at most PASSES.  *)
csp_propagate(doms, cs, lo, hi) ==
  LET Prune(s, c) == IF ~s.ok THEN s
                     ELSE CASE c.kind = "alldiff" -> PruneAllDiff(s, c)
                            [] c.kind = "lin" -> PruneLin(s, c, lo, hi)
                            [] c.kind = "ne" -> PruneNe(s, c)
      round[k \in 0 .. PASSES] ==
        IF k = 0 THEN Going(doms)
        ELSE IF k > 1 /\ round[k - 1] = round[k - 2] THEN round[k - 1]
        ELSE FoldLeft(Prune, round[k - 1], cs)
  IN round[PASSES]

(* The variable to branch on: the first with one or two values left, else  *)
(* the first with fewest; a child for each of its values.                  *)
Undecided(doms) == {v \in DOMAIN doms : ~doms[v].assigned}
Small(doms) == {v \in Undecided(doms) : Cardinality(doms[v].vals) <= 2}
Branching(doms) ==
  IF Small(doms) # {} THEN Min(Small(doms))
  ELSE Min({v \in Undecided(doms) : \A u \in Undecided(doms) :
              Cardinality(doms[v].vals) <= Cardinality(doms[u].vals)})
Children(doms) ==
  LET v == Branching(doms)
      values == Ascending(doms[v].vals)
  IN [k \in DOMAIN values |-> [doms EXCEPT ![v] = Fixed(values[k])]]
=============================================================================
