--------------------------- MODULE MC_WarmSimplex ---------------------------
(***************************************************************************)
(* Instances of WarmSimplex: totally unimodular programs of two variables, *)
(* rows over the interval matrices of x, y and x + y.                      *)
(***************************************************************************)
EXTENDS WarmSimplex

Inf == 1000

MCWindow == -3..6

Row(a, rel, b) == [a |-> a, rel |-> rel, b |-> b]

LP(c, max, l, u, rows, limit) ==
  [c |-> c, maximize |-> max, l |-> l, u |-> u, rows |-> rows, limit |-> limit]

MCProblems ==
  { \* slack basis, bounded optimum
    LP(<<1, 0>>, TRUE, <<0, 0>>, <<2, 2>>, <<Row(<<1, 1>>, "<", 3)>>, 20),
    \* Phase I needed; a redundant equality leaves a basic artificial
    LP(<<1, -1>>, FALSE, <<0, 0>>, <<2, Inf>>,
       <<Row(<<1, 1>>, "=", 2), Row(<<1, 1>>, "=", 2)>>, 20),
    \* negative right-hand side, a free variable, unbounded one way
    LP(<<0, 1>>, TRUE, <<0, -Inf>>, <<2, Inf>>, <<Row(<<-1, -1>>, "<", -2)>>, 20),
    \* parked at an upper bound; a reversed row
    LP(<<1, 1>>, FALSE, <<-Inf, 0>>, <<2, 2>>, <<Row(<<1, 1>>, ">", 1)>>, 20),
    \* no feasible point, and a limit of one pivot
    LP(<<1, 1>>, TRUE, <<0, 0>>, <<1, 1>>, <<Row(<<1, 1>>, ">", 2), Row(<<1, 0>>, "<", 0)>>, 1) }

MCObjectives == {[c |-> <<1, 0>>, maximize |-> FALSE], [c |-> <<1, 2>>, maximize |-> TRUE]}

MCBoxes == { [l |-> <<0, 0>>, u |-> <<2, 2>>], [l |-> <<1, 0>>, u |-> <<1, 3>>],
             [l |-> <<2, 1>>, u |-> <<2, 1>>], [l |-> <<0, 2>>, u |-> <<Inf, 2>>],
             [l |-> <<-Inf, 0>>, u |-> <<Inf, 1>>], [l |-> <<-Inf, 0>>, u |-> <<1, 3>>],
             [l |-> <<0, 3>>, u |-> <<2, 1>>] }

MCNewRows == {Row(<<0, 1>>, ">", 1), Row(<<1, 1>>, "=", 3)}
=============================================================================
