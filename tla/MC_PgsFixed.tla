---------------------------- MODULE MC_PgsFixed ----------------------------
(* Calls of the fixed-point kernel on words of five bits: one and two      *)
(* variables, coupled or not, with every kind of box, step and tolerance.  *)
EXTENDS PgsFixed

Call(A, b, lo, hi, x0, w, tol, sweeps) ==
  [A |-> A, b |-> b, lo |-> lo, hi |-> hi, x0 |-> x0,
   w_num |-> w[1], w_den |-> w[2], tol |-> tol, max_iter |-> sweeps]

Matrices == {<<<<a, c>>, <<c, d>>>> : a \in {1, 3}, d \in {0, 2}, c \in {-2, 0, 1}}
Loads == {-16, -5, 0, 7, 15} \X {-16, 2, 15}
Omegas == {<<1, 1>>, <<1, 2>>, <<3, 2>>, <<4, 2>>, <<1, 0>>}

(* Boxes at the ends of the word and around zero, and two in which a move  *)
(* may wrap, one of them the full word; and one that is empty.             *)
Boxes == {<<<<-16, -16>>, <<15, 15>>>>, <<<<-9, 0>>, <<10, 1>>>>, <<<<-16, -7>>, <<-1, 8>>>>, <<<<0, -3>>, <<15, 3>>>>, <<<<1, 4>>, <<6, 4>>>>, <<<<2, 0>>, <<1, 5>>>>}

Coupled ==
  {Call(A, b, box[1], box[2], x0, w, tol, 3) :
     A \in Matrices, b \in Loads, box \in Boxes, x0 \in {<<0, 0>>, <<-16, 15>>},
     w \in Omegas, tol \in {0, 1}}
Single ==
  {Call(<<<<a>>>>, <<b>>, <<lo>>, <<hi>>, <<lo>>, w, 2, sweeps) :
     a \in -1 .. 3, b \in -16 .. 15, lo \in {-16, -7}, hi \in {-7, 8, 15}, w \in Omegas, sweeps \in {0, 4}}

MCProblems == Coupled \cup Single

(* They keep the contract, for which the properties are also proved.       *)
ASSUME CallsKeepTheContract ==
  \A p \in Problems : InContract(p)
============================================================================
