----------------------------- MODULE MC_QpSolve -----------------------------
(* Quadratic programs of two variables under up to three rows, and of      *)
(* three variables for the convexity gate.                                 *)
EXTENDS QpSolve

Program(Q, c, rows, x0, lp_first) ==
  [n |-> Len(c), Q |-> Q, c |-> c, A |-> rows[1], b |-> rows[2], x0 |-> x0, lp_first |-> lp_first]

(* Definite, singular and zero, then two that no scan may accept and one   *)
(* that is not symmetric.                                                  *)
Definite == {<<<<1, 0>>, <<0, 1>>>>, <<<<2, 1>>, <<1, 2>>>>, <<<<1, 1>>, <<1, 1>>>>, <<<<2, -1>>, <<-1, 1>>>>,
           <<<<0, 0>>, <<0, 1>>>>, <<<<0, 0>>, <<0, 0>>>>}
Indefinite == {<<<<1, 2>>, <<2, 1>>>>, <<<<0, 1>>, <<1, 0>>>>, <<<<-1, 0>>, <<0, -1>>>>, <<<<2, 1>>, <<0, 2>>>>}

Costs == {<<-1, -2>>, <<1, 0>>, <<-2, 1>>}

(* Rows the origin satisfies: none, one, three at a vertex, one twice, an  *)
(* unbounded and a bounded corner.                                         *)
Rooted ==
  {<<<<>>, <<>>>>, <<<<<<1, 1>>>>, <<1>>>>,
   <<<<<<1, 0>>, <<0, 1>>, <<1, 1>>>>, <<1, 1, 2>>>>,
   <<<<<<1, 0>>, <<2, 0>>, <<0, 1>>>>, <<1, 2, 1>>>>,
   <<<<<<-1, 0>>, <<0, -1>>, <<1, 2>>>>, <<0, 0, 3>>>>}

(* Rows it does not: a corner, an equation, and two empty systems.         *)
Unrooted ==
  {<<<<<<-1, 0>>, <<-1, -1>>, <<0, 1>>>>, <<-1, -2, 2>>>>,
   <<<<<<1, 1>>, <<-1, -1>>>>, <<1, -1>>>>,
   <<<<<<1, 0>>, <<-2, 0>>>>, <<-1, 1>>>>,
   <<<<<<-1, 0>>, <<0, -1>>, <<1, 1>>>>, <<0, 0, -1>>>>}

Planar ==
  {Program(Q, c, rows, x0, FALSE) : Q \in Definite, c \in Costs, rows \in Rooted, x0 \in {None, <<1, 1>>}}
    \cup {Program(Q, c, rows, x0, lp) : Q \in Definite, c \in Costs, rows \in Unrooted,
              x0 \in {None, <<1, 1>>}, lp \in BOOLEAN}
    \cup {Program(Q, <<1, 0>>, <<<<>>, <<>>>>, None, FALSE) : Q \in Indefinite}

(* Every principal minor of order two positive, and not semidefinite; the  *)
(* same, semidefinite; a zero pivot before and after an elimination.       *)
Gates ==
  {<<<<10, -9, -9>>, <<-9, 10, -9>>, <<-9, -9, 10>>>>, <<<<2, -1, -1>>, <<-1, 2, -1>>, <<-1, -1, 2>>>>,
   <<<<0, 0, 0>>, <<0, 1, 1>>, <<0, 1, 1>>>>, <<<<0, 1, 0>>, <<1, 0, 0>>, <<0, 0, 1>>>>}
Spatial == {Program(Q, c, <<<<>>, <<>>>>, None, FALSE) : Q \in Gates, c \in {<<0, 0, 0>>, <<1, 1, 1>>}}

MCQPs == Planar \cup Spatial
TailQPs == MCQPs \cup {Program(<<<<0, 0>>, <<0, -1>>>>, <<0, 0>>, <<<<>>, <<>>>>, None, FALSE)}
             \cup {Program(<<<<1, 1, 1>>, <<1, 1, 1>>, <<1, 1, 0>>>>, <<0, 0, 0>>, <<<<>>, <<>>>>, None, FALSE)}

MCStarts ==
  [n \in {2, 3} |-> IF n = 2 THEN {<<1, 1>>, <<0, 1>>, <<1, 0>>, <<2, 0>>, <<2, 1>>, <<3, -1>>} ELSE {}]
MCMultipliers == -1 .. 2
MCScalars == -3 .. 3
=============================================================================
