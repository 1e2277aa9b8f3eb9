-------------------------- MODULE MC_ExactSimplex --------------------------
(* Programs for the exact simplex on words of seven and fourteen bits:     *)
(* every pair of rows from a small choice, with data small and close to    *)
(* the end of the word; programs whose products meet the lowest word; and  *)
(* a program on which the largest-coefficient rule cycles.                 *)
EXTENDS ExactSimplex

CONSTANTS Large                                   \* a coefficient that overflows soon

Ints(s) == [i \in DOMAIN s |-> Whole(s[i])]
Problem(n, max, c, A, rel, b, l, u) ==
  [n |-> n, m |-> Len(rel), maximize |-> max, c |-> c, A |-> A, rel |-> rel, b |-> b, l |-> l, u |-> u]

Boxes == {<<<<Whole(0), Whole(0)>>, <<None, None>>>>, <<<<Whole(-2), None>>, <<Whole(3), Whole(4)>>>>,
          <<<<Whole(1), Whole(1)>>, <<Whole(1), Whole(5)>>>>}
Lefts == {<<1, 2>>, <<-3, 5>>, <<2, -1>>, <<0, 3>>, <<Large, 7>>}
Rels == {<<"<", "<">>, <<">", "<">>, <<"=", ">">>, <<"=", "=">>}
Rights == {<<4, 7>>, <<-3, 6>>, <<0, 0>>}

Pairs ==
  {Problem(2, max, Ints(<<2, 3>>), <<Ints(a), Ints(a2)>>, rel, Ints(b), box[1], box[2]) :
     max \in BOOLEAN, a \in Lefts, a2 \in Lefts, rel \in Rels, b \in Rights, box \in Boxes}

(* Eight times eight is one past the end of the narrow word.               *)
Edges ==
  {Problem(2, TRUE, Ints(<<1, -1>>), <<Ints(<<8, a>>)>>, <<rel>>, Ints(<<b>>),
           <<Whole(l), Whole(0)>>, <<u, Whole(3)>>) :
     a \in {0, 1}, rel \in {"<", ">", "="}, b \in {0, 8, -8}, l \in {-8, 0, 8}, u \in {None, Whole(8)}}

Cycling ==
  Problem(4, TRUE, Ints(<<10, -57, -9, -24>>),
          <<<<Fraction(1, 2), Fraction(-11, 2), Fraction(-5, 2), Whole(9)>>,
            <<Fraction(1, 2), Fraction(-3, 2), Fraction(-1, 2), Whole(1)>>,
            <<Whole(1), Zero, Zero, Zero>>>>,
          <<"<", "<", "<">>, <<Zero, Zero, One>>, [j \in 1..4 |-> Zero], [j \in 1..4 |-> None])

Crossed ==
  {Problem(2, TRUE, Ints(<<1, 1>>), <<Ints(<<1, 1>>)>>, <<"<">>, Ints(<<2>>),
           <<Whole(1), Whole(0)>>, <<Whole(0), Whole(3)>>)}

MCProblems == Pairs \cup Edges \cup {Cycling}
LowestProblems == Edges
=============================================================================
