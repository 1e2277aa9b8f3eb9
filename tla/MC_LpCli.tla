----------------------------- MODULE MC_LpCli -----------------------------
(***************************************************************************)
(* Linear programs for LpCli: a family of two columns and two rows that    *)
(* covers the reductions and their pairs, and larger ones chosen by hand.  *)
(***************************************************************************)
EXTENDS LpCli

CONSTANT Models      \* which of the sets below a run reads

Data(s) == [i \in DOMAIN s |-> s[i] * U]
oo == Inf \div U

(* A column is written as the sequence of its coefficients by row.         *)
LP(max, c, l, u, rel, b, A) ==
  [cols |-> 1 .. Len(c), rows |-> 1 .. Len(b), maximize |-> max, c |-> Data(c),
   l |-> Data(l), u |-> Data(u), rel |-> rel, b |-> Data(b),
   A |-> [j \in 1 .. Len(c) |->
            [i \in {r \in 1 .. Len(b) : A[j][r] # 0} |-> A[j][i] * U]]]

Family ==
  {LP(max, <<1, -2>>, <<0, -1>>, <<3, 2>>, r, b, <<a1, a2>>) :
     max \in BOOLEAN, r \in {<<"<", "=">>, <<"=", "=">>, <<">", "<">>},
     b \in {<<1, 2>>, <<0, 3>>}, a1 \in {<<1, 0>>, <<1, -1>>, <<0, 2>>},
     a2 \in {<<1, 0>>, <<1, 1>>, <<-2, 1>>, <<0, 0>>}}

Chosen ==
  { \* a bound that is no multiple of the unit
    LP(TRUE, <<1, 1>>, <<0, 0>>, <<3, 3>>, <<"<", "<">>, <<10, 4>>, <<<<7, 1>>, <<0, 1>>>>),
    LP(TRUE, <<1, 1>>, <<0, 0>>, <<3, 3>>, <<">", "<">>, <<-9, 4>>, <<<<-7, 1>>, <<0, 1>>>>),
    \* a free column held by two singleton rows, met and contradicted
    LP(TRUE, <<1>>, <<-oo>>, <<oo>>, <<"<", ">">>, <<2, 1>>, <<<<1, 1>>>>),
    LP(TRUE, <<1>>, <<-oo>>, <<oo>>, <<"<", ">">>, <<1, 2>>, <<<<1, 1>>>>),
    LP(TRUE, <<1>>, <<-oo>>, <<oo>>, <<">", "=">>, <<2, 2>>, <<<<1, 2>>>>),
    LP(FALSE, <<1>>, <<-oo>>, <<oo>>, <<"<", ">">>, <<-1, 2>>, <<<<-1, 2>>>>),
    \* a bound of a singleton row against one of a doubleton row
    LP(TRUE, <<1, 1>>, <<0, 0>>, <<1, 3>>, <<"=", ">">>, <<1, 3>>, <<<<1, 0>>, <<1, 1>>>>),
    LP(TRUE, <<1, 1>>, <<0, -1>>, <<1, 3>>, <<"=", "<">>, <<1, -1>>, <<<<2, 0>>, <<1, 1>>>>),
    \* contradictions with the box, by one row and by its activity
    LP(TRUE, <<1>>, <<0>>, <<3>>, <<">">>, <<4>>, <<<<1>>>>),
    LP(TRUE, <<1>>, <<0>>, <<3>>, <<"<">>, <<-1>>, <<<<1>>>>),
    LP(TRUE, <<1, 1>>, <<0, 0>>, <<1, 1>>, <<">">>, <<3>>, <<<<1>>, <<1>>>>),
    LP(TRUE, <<1, 1>>, <<0, 0>>, <<3, 3>>, <<"<", ">">>, <<1, 5>>, <<<<1, 1>>, <<0, 1>>>>),
    LP(TRUE, <<1, 1>>, <<1, 1>>, <<2, 2>>, <<"=">>, <<1>>, <<<<1>>, <<1>>>>),
    LP(TRUE, <<1, 1>>, <<0, 0>>, <<1, 1>>, <<"=">>, <<3>>, <<<<1>>, <<1>>>>),
    LP(TRUE, <<1, 1>>, <<0, 0>>, <<1, 1>>, <<"<">>, <<-1>>, <<<<0>>, <<0>>>>),
    LP(TRUE, <<1>>, <<0>>, <<1>>, <<"=", "<">>, <<1, 0>>, <<<<0, 1>>>>),
    \* a row that a fixed column empties
    LP(TRUE, <<1, 1>>, <<2, 0>>, <<2, 3>>, <<"<", "<">>, <<1, 2>>, <<<<1, 0>>, <<0, 1>>>>),
    LP(TRUE, <<1, 1>>, <<2, 0>>, <<2, 3>>, <<"<", "=">>, <<3, 2>>, <<<<1, 1>>, <<0, 1>>>>),
    LP(TRUE, <<1, 1>>, <<2, 0>>, <<2, 0>>, <<"=">>, <<1>>, <<<<1>>, <<1>>>>),
    LP(TRUE, <<1, 1>>, <<2, 0>>, <<2, 3>>, <<"=">>, <<6>>, <<<<1>>, <<1>>>>),
    LP(TRUE, <<1, 1>>, <<2, 0>>, <<2, 3>>, <<"=">>, <<1>>, <<<<1>>, <<1>>>>),
    \* contradictions that only the substituted rows show
    LP(TRUE, <<1, 1, 1>>, <<0, 0, 0>>, <<2, 2, 1>>, <<"=", ">">>, <<0, 2>>,
       <<<<1, 1>>, <<-1, -2>>, <<0, 1>>>>),
    LP(TRUE, <<1, 1>>, <<0, 0>>, <<1, 3>>, <<"<", "=">>, <<1, 3>>, <<<<0, 1>>, <<1, 1>>>>),
    \* everything is eliminated, on a bound that a doubleton row implied
    LP(TRUE, <<1, -2>>, <<0, -1>>, <<3, 2>>, <<"<", "=">>, <<0, 3>>, <<<<0, 1>>, <<1, 1>>>>),
    \* the dropped half of an equality, in a model without a limit
    LP(TRUE, <<1, 1, 1>>, <<0, 0, 0>>, <<3, 3, oo>>, <<"=", "<">>, <<1, 3>>,
       <<<<1, 1>>, <<0, 1>>, <<0, 0>>>>),
    LP(TRUE, <<1, 1>>, <<0, 0>>, <<oo, oo>>, <<"=">>, <<1>>, <<<<1>>, <<0>>>>),
    LP(TRUE, <<1, 1, 0>>, <<0, 0, 0>>, <<3, oo, oo>>, <<"=", "<">>, <<1, 1>>,
       <<<<1, 0>>, <<0, 1>>, <<0, -1>>>>),
    \* empty columns, with and without a limit
    LP(TRUE, <<1, 1>>, <<0, 0>>, <<3, oo>>, <<"<">>, <<2>>, <<<<1>>, <<0>>>>),
    LP(FALSE, <<1, 1>>, <<0, -oo>>, <<3, 1>>, <<"<", "<">>, <<2, 3>>, <<<<1, 1>>, <<0, 0>>>>),
    LP(TRUE, <<1, 1, 1>>, <<0, 0, 0>>, <<3, 3, oo>>, <<"<", "<">>, <<3, 1>>,
       <<<<1, 1>>, <<1, -1>>, <<0, 0>>>>),
    LP(TRUE, <<0, 1>>, <<-oo, 0>>, <<oo, 3>>, <<"<">>, <<2>>, <<<<0>>, <<1>>>>),
    \* nothing to reduce, and an unbounded model
    LP(TRUE, <<1, 1>>, <<0, 0>>, <<2, 3>>, <<"<", "<">>, <<3, 1>>, <<<<1, 1>>, <<1, -1>>>>),
    LP(TRUE, <<1, 0>>, <<0, 0>>, <<oo, oo>>, <<"<">>, <<1>>, <<<<1>>, <<-1>>>>),
    LP(TRUE, <<1, 0, 0>>, <<0, 0, 0>>, <<oo, oo, 2>>, <<"<", "<">>, <<1, 1>>,
       <<<<1, 0>>, <<-1, 0>>, <<0, 1>>>>),
    \* two substitutions, a fill and a cancellation
    LP(TRUE, <<1, 1, 1>>, <<0, 0, 0>>, <<3, 3, 3>>, <<"=", "<", "=">>, <<0, 3, 3>>,
       <<<<1, 1, 0>>, <<-1, 0, 1>>, <<0, 1, 1>>>>),
    LP(TRUE, <<1, 0, 1>>, <<0, 0, 0>>, <<3, 3, 3>>, <<"=", "=">>, <<0, 2>>,
       <<<<1, 1>>, <<-1, -1>>, <<0, 1>>>>),
    LP(TRUE, <<1, 0, 1>>, <<0, 0, 0>>, <<3, 3, oo>>, <<"=", "=">>, <<0, 2>>,
       <<<<1, 1>>, <<-1, -1>>, <<0, 1>>>>),
    LP(FALSE, <<1, 2, 0>>, <<0, 0, 0>>, <<oo, oo, 3>>, <<"=", ">", "<">>, <<0, 1, 3>>,
       <<<<1, 1, 1>>, <<-1, 1, 0>>, <<0, 0, 1>>>>) }

(* A singleton row whose upper half is dropped.                            *)
HalfEquality ==
  { LP(TRUE, <<1, 1>>, <<0, 0>>, <<3, 3>>, <<"=", "<">>, <<1, 3>>, <<<<1, 1>>, <<0, 1>>>>) }

(* A chain that frees one more row in every pass.                          *)
Chain ==
  { LP(TRUE, <<0, 0, 1, 1>>, <<0, 0, 0, 0>>, <<2, 2, 3, 3>>, <<"<", "<", "<", "<">>, <<0, 0, 1, 2>>,
       <<<<1, -1, 0, 0>>, <<0, 1, -1, 0>>, <<0, 0, 1, 1>>, <<0, 0, 0, 1>>>>) }

(* Nothing to reduce.                                                      *)
Irreducible ==
  { LP(TRUE, <<1, 1>>, <<0, 0>>, <<2, 3>>, <<"<", "<">>, <<3, 1>>, <<<<1, 1>>, <<1, -1>>>>) }

MCInit == \E p \in Models : CliInit(p) /\ (p \in Family => options.pre /\ options.scale)
MCNext == CliStep \/ Exited
MCSpec == MCInit /\ [][MCNext]_cvars

Halves(lo, hi) == {(k * U) \div 2 : k \in 2 * lo .. 2 * hi}
Integral(lo, hi) == {k * U : k \in lo .. hi}
MCGrid == Integral(-1, 3) \cup Halves(0, 1)
MCDuals == Integral(-2, 2) \cup Halves(0, 1)
MCModels == Family \cup Chosen \cup HalfEquality \cup Chain
=============================================================================
