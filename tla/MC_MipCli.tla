----------------------------- MODULE MC_MipCli -----------------------------
(***************************************************************************)
(* Small instances of mip_solve, under mipsolve and under other callers:   *)
(* two integer variables over a 2 x 3 box, the feasible sets being those   *)
(* that rows of small coefficients cut out of it, so that empty, singleton,*)
(* full and ragged sets all occur; and 0/1 knapsacks.                      *)
(***************************************************************************)
EXTENDS MipCli

MCVars == {1, 2}
MCLo == [j \in MCVars |-> 0]
MCHi == [j \in MCVars |-> j]
Box == {p \in [MCVars -> 0 .. 2] : p[1] <= MCHi[1] /\ p[2] <= MCHi[2]}

Dot(a, p) == a[1] * p[1] + a[2] * p[2]

(* {p : a . p <= b, d . p >= e}: the rows of the models.                   *)
FeasibleSets ==
  {{p \in Box : Dot(<<1, 1>>, p) <= b /\ Dot(<<a, 1>>, p) >= e} :
     a \in {-2, 2}, b \in {1, 3}, e \in {-1, 1, 4}}

(* A model over clean, representable data with room to finish the search.  *)
Model(f, c, max, values) ==
  [lo |-> MCLo, hi |-> MCHi, feas |-> f, obj |-> [p \in f |-> Dot(c, p)],
   maximize |-> max, stop_at_feasible |-> FALSE, all_solutions |-> FALSE,
   node_limit |-> 20, ray |-> FALSE, values |-> values,
   integral |-> TRUE, shaky |-> FALSE]

(* Optimization, with and without all_solutions.                           *)
OptimizeMIPs ==
  {Model(f, <<3, 2>>, max, IF max THEN {5, 8} ELSE {-1, 3}) :
     f \in FeasibleSets, max \in BOOLEAN}
    \union
  {[Model(f, <<3, 2>>, TRUE, {5, 8}) EXCEPT !.all_solutions = TRUE] : f \in FeasibleSets}

(* Satisfaction: first point, and enumeration of all of them.              *)
SatisfyMIPs ==
  {[Model(f, <<0, 0>>, TRUE, {0}) EXCEPT !.stop_at_feasible = TRUE,
                                         !.all_solutions = all] :
     f \in FeasibleSets, all \in BOOLEAN}

(* Shaky or unrepresentable data, unbounded relaxations, a small limit.    *)
HostileMIPs ==
  {[Model(f, <<3, 2>>, max, {0, 5, 9}) EXCEPT !.node_limit = 3, !.ray = max,
                                              !.integral = integral, !.shaky = shaky] :
     f \in FeasibleSets, max \in BOOLEAN, integral \in BOOLEAN, shaky \in BOOLEAN}

(* 0/1 knapsacks w . p <= 2; an unsatisfiable parity row is the empty set. *)
Square == {p \in Box : p[2] <= 1}
KnapsackSets == {{}} \union {{p \in Square : Dot(w, p) <= 2} : w \in {<<1, 1>>, <<2, 1>>, <<3, 2>>}}

Knapsacks ==
  {[Model(f, c, max, {-3, 3, 5, 8}) EXCEPT !.hi = [j \in MCVars |-> 1], !.node_limit = 3,
                                           !.ray = ray, !.shaky = shaky] :
     f \in KnapsackSets, c \in {<<3, 4>>, <<-3, 4>>}, max \in BOOLEAN, ray \in BOOLEAN,
     shaky \in BOOLEAN}

AllMIPs == OptimizeMIPs \union SatisfyMIPs \union HostileMIPs \union Knapsacks
============================================================================
