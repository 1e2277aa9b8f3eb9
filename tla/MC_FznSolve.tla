----------------------------- MODULE MC_FznSolve -----------------------------
(* Small instances of FznSolve: models each engine of the ladder decides.  *)
EXTENDS FznSolve, TLC

MCVars == {"x", "y"}

Point(x, y) == ("x" :> x) @@ ("y" :> y)
Doms(X, Y) == ("x" :> X) @@ ("y" :> Y)

Model(d, s, mode) ==
  [dom |-> d, sols |-> s, mode |-> mode, obj |-> [p \in Box(d) |-> p["x"] - p["y"]],
   terms |-> MCVars, out |-> {"x"}, free |-> {}, big |-> {}, understood |-> TRUE,
   handled |-> TRUE, alldiff |-> FALSE, product |-> 0, node_limit |-> 0, beyond |-> {}]

Square == Doms({0, 1}, {0, 1})
Modes == {"satisfy", "all", "minimize", "maximize"}

(* Declared domains, any limit: the engine, the heuristics and the bridge. *)
Bounded ==
  {[Model(Square, s, m) EXCEPT !.alldiff = a, !.handled = h, !.node_limit = n] :
     s \in {{}, {Point(0, 1)}, {Point(0, 0), Point(0, 1), Point(1, 0)}},
     m \in Modes, a \in BOOLEAN, h \in BOOLEAN, n \in {0, 1}}

(* y undeclared: 8 is the synthetic bound, 9 lies outside the clamp.       *)
Free ==
  {[Model(Doms({0, 1}, {0, 8, 9}), s, m) EXCEPT
      !.free = {"y"}, !.terms = t, !.big = {8, 9}, !.beyond = {9}, !.understood = u,
      !.obj = [p \in Box(Doms({0, 1}, {0, 8, 9})) |->
                 p["x"] + (IF "y" \in t THEN p["y"] ELSE 0)]] :
     s \in {{}, {Point(0, 0), Point(1, 9)}, {Point(0, 8), Point(1, 0)}, {Point(1, 9)}},
     m \in Modes, t \in {{"x"}, MCVars}, u \in BOOLEAN}

(* x * y = 4 next to a constraint without a linear form.                   *)
Product ==
  {[Model(Doms({1, 2, 4}, {1, 2, 4}), {Point(2, 2), Point(1, 4), Point(4, 1)}, m) EXCEPT
      !.out = MCVars, !.product = 4, !.handled = FALSE, !.understood = FALSE] : m \in Modes}

(* Every set of solutions of the unit square, and of a domain too wide to  *)
(* list, where the engine decides.                                         *)
Engine ==
  {[Model(Square, s, m) EXCEPT !.obj = [p \in Box(Square) |-> c * p["x"] + p["y"]]] :
     s \in SUBSET Box(Square), m \in Modes, c \in {2, -1}}
Wide ==
  {[Model(Doms({0, 1}, {0, 1, 9}), s, m) EXCEPT !.free = f, !.big = {9}, !.understood = u] :
     s \in SUBSET {Point(0, 0), Point(0, 9), Point(1, 1), Point(1, 9)},
     m \in {"satisfy", "all", "minimize"}, f \in {{}, {"y"}}, u \in BOOLEAN}

MCCSPs == Bounded \union Free \union Product \union Engine \union Wide
=============================================================================
