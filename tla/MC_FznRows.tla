----------------------------- MODULE MC_FznRows -----------------------------
(***************************************************************************)
(* Small models for FznRows: every constraint family, relation and gate,   *)
(* with constants, halves, free variables and gapped sets among the        *)
(* arguments.  Variables of a model are numbered from 1; a 0/1 variable    *)
(* that gates a constraint is its last one.                                *)
(***************************************************************************)
EXTENDS FznRows

SATISFY == [kind |-> "satisfy", form |-> K(0)]
Goal(kind, f) == [kind |-> kind, form |-> f]

Model(lo, hi, cs) ==
  [lo |-> lo, hi |-> hi, set |-> [v \in DOMAIN lo |-> {}], nolo |-> {}, nohi |-> {},
   constraints |-> cs, objective |-> SATISFY, xy |-> << >>]
Unbounded(p, nolo, nohi) == [p EXCEPT !.nolo = nolo, !.nohi = nohi]
With(p, v, S) == [p EXCEPT !.set[v] = S, !.lo[v] = Min(S), !.hi[v] = Max(S)]
Named(p, x, y) == [p EXCEPT !.xy = <<x, y>>]
For(p, goal) == [p EXCEPT !.objective = goal]

C(p, a) == [p |-> p, rel |-> "", mode |-> "", float |-> FALSE, a |-> a]
Rel(c, rel) == [c EXCEPT !.rel = rel]
Gate(c, mode) == [c EXCEPT !.mode = mode]
Float(c) == [c EXCEPT !.float = TRUE]
Lin(ks, fs, k) == C("lin", <<ks, fs, k>>)

HALF == Form(<< >>, 1)
XS(n) == [i \in 1 .. n |-> X(i)]
KS(s) == [i \in DOMAIN s |-> K(s[i])]
Span2(lo, hi) == [range |-> TRUE, lo |-> lo, hi |-> hi, vals |-> {}]
Enum(S) == [range |-> FALSE, lo |-> 0, hi |-> 0, vals |-> S]

Modes == {"", "reif", "imp"}

(* x rel y, x rel 1, x rel 1/2; also gated by a variable or a constant.    *)
Comparisons ==
  {Model(<<-1, 0, 0>>, <<1, 2, 1>>,
     <<Rel(Gate(C("compare", <<X(1), y>> \o IF mode = "" THEN << >> ELSE <<r>>), mode), rel)>>) :
     rel \in Relations, mode \in Modes, y \in {X(2), K(1), HALF}, r \in {X(3), K(1)}}
  \cup {Model(<<-1, 0, 0>>, <<1, 2, 1>>, <<Rel(Gate(C("compare", <<X(1), X(2), K(0)>>), mode), "le")>>) :
     mode \in {"reif", "imp"}}
  \cup {Model(<<0, 0>>, <<2, 2>>, <<Float(Rel(C("compare", <<X(1), X(2)>>), rel))>>) :
     rel \in {"le", "lt"}}
Linear ==
  {Model(<<-1, 0, 0>>, <<1, 2, 1>>,
     <<Rel(Gate(C("lin", <<KS(<<2, -1>>), XS(2), k>> \o IF mode = "" THEN << >> ELSE <<X(3)>>),
                mode), rel)>>) : rel \in Relations, mode \in Modes, k \in {K(1), HALF}}

Pairs(fs) == {<<f, g>> : f \in fs, g \in fs}
Booleans ==
  {Model(<<0, 0, 0>>, <<1, 1, 1>>, <<C(p, <<X(1), g, X(3)>>)>>) :
     p \in {"bool_and", "bool_or", "bool_xor"}, g \in {X(1), X(2), K(0), K(1)}}
  \cup {Model(<<0, 0, 0>>, <<1, 1, 1>>, <<Gate(C("bool_clause", <<pos, neg, X(3)>>), mode)>>) :
          mode \in {"", "reif"}, pos \in {<< >>, <<X(1)>>, <<X(1), X(2)>>, <<K(0), X(1)>>},
          neg \in {<<X(2)>>, <<K(1)>>, <<X(1), X(2)>>}}
  \cup {Model(<<0, 0, 0>>, <<1, 1, 1>>, <<C(p, <<fs, X(3)>>)>>) :
          p \in {"array_bool_and", "array_bool_or"},
          fs \in {XS(1), XS(2), <<X(1), K(0)>>, <<X(2), K(1)>>, <<K(1)>>}}
  \cup {Model(<<0, 0, 0>>, <<1, 1, 1>>, <<C("array_bool_xor", <<fs>>)>>) :
          fs \in {XS(2), XS(3), <<X(1), X(2), K(1)>>}}
  \cup {Model(<<0, 0>>, <<1, 1>>, <<C("bool_not", XS(2))>>)}

Arithmetic ==
  {Model(<<-2, -1, -3>>, <<2, 2, 4>>, <<C(p, <<X(1), y, X(3)>>)>>) :
     p \in {"int_plus", "int_minus", "int_times", "int_div", "int_mod", "int_max", "int_min"},
     y \in {X(2), K(2), K(-2)}}
  \cup {Model(<<0, 0, -1>>, <<1, 2, 2>>, <<C("int_times", <<X(1), X(2), X(3)>>)>>),
        Model(<<0, 0, 0>>, <<1, 1, 1>>, <<C("int_times", <<X(1), X(2), X(3)>>)>>),
        Model(<<-2, 1>>, <<2, 3>>, <<C("int_times", <<X(1), X(1), X(2)>>)>>),
        Model(<<-2, -2>>, <<2, 3>>, <<C("int_neg", XS(2))>>),
        Model(<<-2, -2>>, <<2, 3>>, <<C("same", XS(2))>>),
        Model(<<-3, -2>>, <<3, 3>>, <<C("float_div", <<X(1), K(2), X(2)>>)>>),
        Model(<<-3, -2>>, <<3, 3>>, <<C("float_div", <<X(1), X(2), X(2)>>)>>),
        Model(<<-5>>, <<5>>, <<C("int_div", <<K(-7), K(2), X(1)>>)>>),
        Model(<<-5>>, <<5>>, <<C("int_mod", <<K(-7), K(2), X(1)>>)>>),
        Model(<<1, -4>>, <<3, 4>>, <<C("int_div", <<K(4), X(1), X(2)>>)>>),
        Model(<<-3, -4>>, <<-2, 4>>, <<C("int_mod", <<K(3), X(1), X(2)>>)>>)}
  \cup {Model(<<-2, -8>>, <<2, 8>>, <<C("int_pow", <<x, K(e), X(2)>>)>>) :
          x \in {X(1), K(2), K(-2)}, e \in {0, 1, 2, 3}}
  \cup {Model(<<lo, -1>>, <<lo + 3, 4>>, <<C("int_abs", XS(2))>>) : lo \in {-4, -3, -2, 0}}

Sets == {Span2(0, 1), Span2(2, 1), Span2(1, 3), Enum({}), Enum({1}), Enum({0, 2}), Enum({-3, 1, 2})}
Membership ==
  {Model(<<-1, 0>>, <<2, 1>>, <<C("set_in", <<x, S>>)>>) : x \in {X(1), K(1), HALF}, S \in Sets}
  \cup {Model(<<-1, 0>>, <<2, 1>>, <<Gate(C("set_in", <<X(1), S, X(2)>>), "reif")>>) : S \in Sets}
  \cup {Model(<<-1, 0>>, <<2, 1>>, <<Float(C("float_in", <<X(1), K(0), HALF>>))>>)}

Counting ==
  {Model(<<0, 0, 0>>, <<2, 1, 2>>, <<C("all_different", <<fs>>)>>) : fs \in {XS(1), XS(2), XS(3)}}
  \cup {Model(<<-1, -1, 0>>, <<1, 1, 1>>, <<C("alldifferent_except", <<fs>>)>>) : fs \in {XS(1), XS(3)}}
  \cup {Model(<<0, 0, 0>>, <<2, 1, 3>>, <<C("all_equal", <<XS(n)>>)>>) : n \in {1, 3}}
  \cup {Model(<<0, 0, 0>>, <<2, 1, 3>>, <<Rel(C("increasing", <<XS(3)>>), rel)>>) :
          rel \in {"le", "lt", "ge", "gt"}}
  \cup {Model(<<0, 0, 0>>, <<2, 1, 2>>, <<Rel(C("count", <<XS(2), y, X(3)>>), rel)>>) :
          rel \in Relations, y \in {K(1), X(2)}}
  \cup {Model(<<0, 0, 0>>, <<2, 2, 3>>, <<C("among", <<X(3), fs, S>>)>>) :
          fs \in {XS(2), <<X(1), K(1)>>, <<X(1), K(7)>>}, S \in {Span2(1, 2), Enum({0, 2}), Enum({})}}
  \cup {Model(<<0, 0, 0>>, <<2, 2, 2>>, <<Gate(C("global_cardinality", <<XS(2), KS(<<0, 2>>)>> \o b), m)>>) :
          m \in {"", "closed"}, b \in {<<<<X(3), K(1)>>>>, <<KS(<<0, 0>>), <<X(3), K(1)>>>>}}
  \cup {Model(<<0, 0, 0>>, <<2, 1, 3>>, <<C("nvalue", <<X(3), fs>>)>>) : fs \in {XS(2), << >>, <<X(1), K(1)>>}}
  \cup {Model(<<1, 1, 0, 0>>, <<2, 3, 3, 3>>, <<C(q[1], <<q[2], XS(2), KS(<<1, 2>>), 1>>)>>) :
          q \in {<<"bin_packing", K(2)>>, <<"bin_packing_capa", <<X(3), X(4)>>>>,
                 <<"bin_packing_load", <<X(3), X(4)>>>>}}
  \cup {Model(<<0, 0, 0>>, <<2, 2, 2>>, <<C("sliding_sum", <<K(1), K(3), K(n), XS(3)>>)>>) : n \in {1, 2, 4}}

Orders ==
  {Model(<<0, 0, 0, 0>>, <<1, 1, 1, 1>>, <<Rel(C("lex", p), rel)>>) : rel \in {"le", "lt"},
     p \in {<<XS(2), <<X(3), X(4)>>>>, <<XS(2), <<X(3)>>>>, <<<<X(1)>>, <<X(3), X(4)>>>>,
            << << >>, << >> >>, << << >>, XS(1)>>}}
  \cup {Model(<<1, 0, 0>>, <<4, 2, 3>>, <<C("element", <<i, arr, v, 1>>)>>) :
          i \in {X(1), K(2), K(3)}, arr \in {KS(<<1, 3>>), <<X(2), K(1)>>}, v \in {X(3), K(1)}}
  \cup {Model(<<0, 0, 0>>, <<4, 2, 3>>, <<C("element", <<X(1), <<X(2), K(1), K(3)>>, X(3), 0>>)>>)}
  \cup {Model(<<-1, 0, -2>>, <<1, 2, 4>>, <<C(p, <<X(3), fs>>)>>) :
          p \in {"array_int_maximum", "array_int_minimum"}, fs \in {XS(2), XS(1), <<X(1), K(0)>>}}
  \cup {Model(<<0, 0>>, <<3, 3>>, <<C(p, <<XS(2), KS(t)>>)>>) : p \in {"table_int", "table"},
          t \in {<<0, 1, 2, 3, 2, 0>>, <<5, 1>>, << >>, <<1, 2, 3>>}}
  \cup {Model(<<0, 0, 0>>, <<2, 3, 1>>, <<C("member", <<fs, X(2)>>)>>) :
          fs \in {<<X(1), X(3)>>, <<X(1), K(3)>>, << >>}}
  \cup {Model(<<0, 0, 0>>, <<2, 3, 1>>, <<Float(C("member", <<<<X(1), HALF>>, X(2)>>))>>)}

Graphs2 ==
  {Model([i \in 1 .. n |-> 0], [i \in 1 .. n |-> n], <<C(p, <<XS(n), offset>>)>>) :
     p \in {"circuit", "subcircuit"}, n \in {2, 3}, offset \in {0, 1}}
  \cup {Model(<<0>>, <<2>>, <<C("circuit", <<XS(1), 1>>)>>),
        Model(<<0, 0, 0, 0>>, <<2, 2, 2, 2>>, <<C("inverse", <<XS(2), <<X(3), X(4)>>, 1, 0>>)>>),
        Model(<<0, 0, 0, 0>>, <<2, 2, 2, 2>>, <<C("inverse", <<XS(3), <<X(4)>>, 1, 1>>)>>)}

Scheduling ==
  {Model(<<0, 0, 1>>, <<3, 2, 4>>, <<C("disjunctive", <<XS(3), KS(d)>>)>>) :
     d \in {<<1, 2, 1>>, <<2, 0, 2>>, <<5, 4, 0>>}}
  \cup {Model(<<0, 0, 0, 0>>, <<2, 1, 1, 1>>,
          <<C("diffn", <<XS(2), <<X(3), X(4)>>, KS(<<2, 1>>), KS(h)>>)>>) : h \in {<<1, 1>>, <<1, 0>>}}
  \cup {Model(<<0, 0, 0>>, <<2, 1, 2>>, <<C("cumulative", <<XS(3), KS(<<2, 1, 1>>), KS(r), cap>>)>>) :
          r \in {<<1, 1, 1>>, <<2, 0, 1>>, <<2, 2, 2>>}, cap \in {K(2), X(3)}}

(* Several constraints, free sides, gapped domains, objectives: what one   *)
(* constraint leaves in the builder is what the next one reads.            *)
Mixed ==
  {Unbounded(Model(<<0, 0, 0>>, <<3, 3, 1>>, cs), nolo, nohi) :
     nolo \in {{}, {1}}, nohi \in {{}, {1, 2}},
     cs \in {<<Rel(C("compare", <<X(1), X(2)>>), "lt"), Rel(C("compare", <<X(2), X(1)>>), "lt")>>,
             <<Rel(Gate(C("compare", <<X(1), K(2), X(3)>>), "reif"), "le")>>,
             <<Rel(Lin(KS(<<1, 1>>), XS(2), K(7)), "eq")>>,
             <<C("set_in", <<X(1), Span2(1, 2)>>), Rel(C("compare", <<X(1), X(2)>>), "eq")>>,
             <<Rel(C("compare", <<X(1), K(8)>>), "ge")>>,
             <<C("int_times", <<X(1), X(2), K(6)>>)>>}}
  \cup {For(Unbounded(Model(<<0, 0>>, <<2, 2>>, <<Rel(C("compare", <<X(1), K(1)>>), rel)>>), {}, {1}),
            Goal(kind, f)) :
          rel \in {"le", "ge"}, kind \in {"minimize", "maximize"}, f \in {X(1), Minus(X(2), X(1))}}
  \cup {For(Model(<<0, 0, 0>>, <<2, 1, 3>>, <<C(p, <<X(3), XS(2)>>), Rel(Lin(KS(<<1, 1>>), XS(2), K(2)), "ge")>>),
            Goal(kind, f)) :
          p \in {"array_int_maximum", "array_int_minimum"}, kind \in {"minimize", "maximize"},
          f \in {X(3), Scaled(-1, X(3))}}
  \cup {With(Model(<<0, 0>>, <<3, 3>>, <<C(p, XS(2) \o w)>>), 1, S) :
          S \in {{2}, {0, 3}, {1, 2}}, p \in {"same"}, w \in {<< >>}}
  \cup {With(Model(<<0, 0>>, <<3, 3>>, <<C("all_different", <<XS(2)>>)>>), 1, {0, 2, 3}),
        With(Model(<<0, 0>>, <<3, 3>>, <<C("int_pow", <<X(1), X(2), X(2)>>),
                                         C("same", XS(2))>>), 1, {0, 3}),
        Model(<<0, 0>>, <<1, 1>>, << >>)}

(* No multiple of 3, plus 2, is on the clamp.                              *)
OffTheClamp ==
  {For(Unbounded(Model(<<0, 0>>, <<2, 2>>, <<Rel(Lin(KS(<<1, -3>>), XS(2), K(2)), "eq")>>), {}, {1, 2}),
       Goal(kind, X(1))) : kind \in {"minimize", "maximize"}}

(* What the probe takes.                                                   *)
Ne(f, g) == Rel(C("compare", <<f, g>>), "ne")
Puzzles ==
  {Model(<<1, 1, 1>>, <<3, 3, 3>>, cs) :
     cs \in {<<C("all_different", <<XS(3)>>), Rel(Lin(KS(<<1, 2, -1>>), XS(3), K(2)), rel)>> :
                rel \in {"eq", "le", "lt", "ge", "gt"}}
       \cup {<<C("all_different", <<<<X(1), X(2), K(2)>>>>), Rel(Lin(KS(<<2, -1>>), <<X(2), X(3)>>, K(k)), rel)>> :
                k \in {0, 3}, rel \in {"eq", "ne"}}
       \cup {<<Ne(X(1), X(2)), Ne(X(2), X(3)), Ne(X(1), X(3)), Rel(C("compare", <<X(3), y>>), "eq")>> :
                y \in {K(2), X(2)}}
       \cup {<<Rel(Lin(KS(<<2, -1>>), XS(2), K(1)), "ne"), Rel(C("compare", <<K(3), X(3)>>), "eq"),
               Rel(Lin(KS(<<1, 1>>), <<X(2), X(3)>>, K(4)), "eq")>>,
             <<Ne(X(1), X(3)), Rel(Lin(KS(<<1, -1>>), XS(2), K(0)), "eq"),
               Rel(Lin(KS(<<1, -1>>), <<X(2), X(3)>>, K(0)), "eq")>>,
             <<C("all_different", <<<<X(1), X(1)>>>>)>>}}
  \cup {Model(<<0, 0, 0, 0>>, <<3, 3, 3, 3>>,
          <<C("all_different", <<XS(4)>>), Rel(Lin(KS(<<1, 1, 3, -2>>), XS(4), K(5)), rel),
            Rel(Lin(KS(<<1, -2>>), <<X(4), X(2)>>, K(1)), "ne")>>) : rel \in {"eq", "lt"}}

(* A reified comparison written for the clamped box of a free variable,    *)
(* then a set that puts the variable beyond the clamp and bounds it.       *)
BeyondTheClamp ==
  {Unbounded(Model(<<0, 0>>, <<0, 1>>,
     <<C("set_in", <<X(1), Enum({i})>>),
       Gate(Rel(C("compare", <<X(1), K(5), X(2)>>), rel), "reif")>>), {1}, {1}) :
     i \in {1, 7}, rel \in Relations}

(* The heuristic for products: a chain x^3 * y^2 = i, and one product that *)
(* is no such chain, next to a constraint without rows.                    *)
NoRows == Gate(C("int_plus", <<X(1), X(2), K(3)>>), "reif")
Times(f, g, h) == C("int_times", <<f, g, h>>)
Eight == <<Times(X(1), X(2), K(8)), NoRows>>
Products ==
  {Named(Model(<<-3, -3, -9, -9, -9>>, <<3, 3, 9, 9, 9>>,
     <<Times(X(1), X(1), X(3)), NoRows, Times(X(3), X(1), X(4)), Times(X(4), X(2), X(5)),
       Times(X(5), X(2), K(i))>>), 1, 2) : i \in {-8, 0, 4, 7, 8}}
  \cup {Named(Model(<<0, 0, i>>, <<3, 3, 8>>, <<NoRows, Times(X(1), X(2), X(3)), Times(X(1), X(1), K(4))>>), 1, 2) :
     i \in {6, 8}}
  \cup {Model(<<0, 0, 0>>, <<8, 8, 1>>, Eight),
        For(Named(Model(<<0, 0, 0>>, <<8, 8, 1>>, Eight), 1, 2), Goal("minimize", X(1)))}

(* An extremum as the objective, with the optimum far enough from zero for *)
(* the gap to leave a better point unfound.                                *)
Extrema ==
  {For(Model(<<2, 0, 0>>, <<3, 2, 4>>, <<C(p, <<X(3), XS(2)>>)>>), Goal(kind, f)) :
     p \in {"array_int_maximum", "array_int_minimum"}, kind \in {"minimize", "maximize"},
     f \in {X(3), Scaled(2, X(3))}}

Everything == Puzzles \cup
  Comparisons \cup Linear \cup Booleans \cup Arithmetic \cup Membership \cup Counting
  \cup Orders \cup Graphs2 \cup Scheduling \cup Mixed \cup BeyondTheClamp \cup Products
  \cup Extrema \cup OffTheClamp

(* The objective is a maximum, and another constraint keeps it off the     *)
(* value the arguments give it.                                            *)
KeptOffTheMaximum ==
  {For(Model(<<1, 1, 0>>, <<3, 2, 4>>,
     <<C("array_int_maximum", <<X(3), XS(2)>>), Rel(C("compare", <<X(1), K(2)>>), "eq"),
       Rel(C("compare", <<X(3), K(i)>>), "ne")>>),
       Goal("minimize", X(3))) : i \in {1, 2, 3}}

(* An all-different of equal constants: no model with it has a solution.   *)
ConstantsClash ==
  {Model(<<1, 1>>, <<2, 2>>, <<C("all_different", <<KS(<<1, i>>)>>), Ne(X(1), X(2))>>) : i \in {1, 2}}
=============================================================================
