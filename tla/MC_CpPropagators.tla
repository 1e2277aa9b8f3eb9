-------------------------- MODULE MC_CpPropagators --------------------------
(* Instances of CpPropagators: lists hold at most 4 values, words have 9   *)
(* bits.  Every kind of constraint meets listed domains, intervals, fixed  *)
(* operands and constants, alone or with a second constraint.              *)
EXTENDS CpProofs

CONSTANTS vx, vy, vz
MCVars == {vx, vy, vz}

Dom(a, b, c) == [v \in MCVars |-> CASE v = vx -> a [] v = vy -> b [] v = vz -> c]
SixStates == [s \in 0 .. 5 |-> <<1, 2, 0, 2, 3, 5>>[s + 1]]     \* 4 -> 3 -> cycle 0 1 2; 5 alone
Problem(cons, D) == [cons |-> cons, dom |-> D, next |-> SixStates]

LinC(coef, rel, rhs) == [kind |-> "lin", var |-> <<vx, vy, vz>>, coef |-> coef, rel |-> rel, rhs |-> rhs]
AllDiffC(term) == [kind |-> "alldiff", term |-> term]
Ternary(kind, a, b, c) == [kind |-> kind, a |-> a, b |-> b, c |-> c]
DivModC(kind, a, k, c) == [kind |-> kind, a |-> a, k |-> k, c |-> c]
AbsC(a, c) == [kind |-> "abs", a |-> a, c |-> c]
PowC(a, e, c) == [kind |-> "pow", a |-> a, e |-> e, c |-> c]
ElemC(arr, offset) == [kind |-> "elem", index |-> vx, y |-> vy, arr |-> arr, offset |-> offset]
SetInC(t, S) == [kind |-> "setin", x |-> t, set |-> S]
MinMaxC(ismax, a, b, m) == [kind |-> "minmax", ismax |-> ismax, a |-> a, b |-> b, m |-> m]
ReifC(rel, rhs) == [kind |-> "reif", r |-> vz, var |-> <<vx, vy>>, coef |-> <<1, -1>>, rel |-> rel, rhs |-> rhs]
ClauseC(pos, neg) == [kind |-> "clause", pos |-> pos, neg |-> neg]
AndC(out, ins) == [kind |-> "and", out |-> out, ins |-> ins]
OrbitC(kind, s, t, cap) == [kind |-> kind, s |-> s, y |-> t, cap |-> cap]
OnCycleC(s) == [kind |-> "oncycle", s |-> s]

(* Domains: lists, one of them with a hole, and intervals of 5 or 6.       *)
Ints == {-2 .. 1, {1, 3}, 0 .. 4, {2}}
Naturals_ == {0 .. 3, {1, 3}, 1 .. 6}
Bits == {{0, 1}, {1}}
Wide == {0 .. 5, {0, 3, 4}, 2 .. 4}
All(D1, D2, D3) == {Dom(a, b, c) : a \in D1, b \in D2, c \in D3}

Given(conses, doms) == {Problem(c, D) : c \in conses, D \in doms}

Companions == {<< >>, <<AllDiffC(<<vx, vy, vz>>)>>, <<LinC(<<1, 1, -1>>, "le", 1)>>}
With(cons) == {<<c>> \o e : c \in cons, e \in Companions}

Arithmetic ==
  Given(With({LinC(<<1, 2, -1>>, rel, 2) : rel \in {"eq", "ne", "le", "ge", "lt", "gt"}}
             \union {AllDiffC(<<vx, vy, vz, 1>>), AbsC(vx, vy), AbsC(vx, 2),
                     SetInC(vx, {-1, 1, 4}), MinMaxC(TRUE, vx, vy, vz), MinMaxC(FALSE, vx, vy, vz),
                     MinMaxC(TRUE, vx, 1, vz), DivModC("div", vx, -2, vy), DivModC("mod", vx, 2, vy)}),
        All(Ints, Ints, Ints))

Products_ ==
  Given(With({Ternary("times", vx, vy, vz), Ternary("times", vx, vx, vz), Ternary("times", vx, vy, 6),
              Ternary("times", 2, vy, vz), Ternary("times", vy, vy, 4), PowC(vx, 2, vy), PowC(vx, 3, vz)})
          \union {<<Ternary("times", vx, vx, vz), Ternary("times", vz, vy, 4)>>},
        All(Naturals_, Naturals_, Naturals_))
  \union Given({<<Ternary("times", vx, vy, vz)>>}, All({-2 .. 1}, {-2 .. 1, {-1, 3}}, {{-4, -1, 2, 3}, {2, 4}}))

Arrays == Given(With({ElemC(<<vy, vz, 3, vz>>, 1), ElemC(<<4, 1, vz, 0>>, 0)}), All(Naturals_, Naturals_, Naturals_))

Booleans ==
  Given({<<ReifC(rel, 1)>> : rel \in {"eq", "ne", "le", "ge", "lt", "gt"}}, All(Ints, Ints, Bits))
  \union Given({<<ClauseC(<<vx, vy>>, <<vz>>), AndC(vz, <<vx, vy>>)>>, <<AndC(vz, <<vx, 1, vy>>), ClauseC(<<vx>>, <<vz, vy>>)>>},
               All(Bits, Bits, Bits \union {{0}}))

Orbits ==
  Given({<<OrbitC(kind, vx, vy, 2)>> \o e :
           kind \in {"orbit", "transient", "cycle", "capped"},
           e \in {<< >>, <<OnCycleC(vz)>>, <<OrbitC("orbit", vz, vy, 0)>>, <<LinC(<<1, 1, 1>>, "le", 6)>>}},
        All(Wide, {0 .. 5, {1, 3}, {4}}, Wide))

(* The values 0 to 3 taken from the interval 0 .. 4 leave it without list:  *)
(* a leaf when vx came before them, a crash when its turn comes after.     *)
ShrunkInterval ==
  Given({<<AllDiffC(<<vx, 0, 1, 2, 3>>)>>, <<AllDiffC(<<0, 1, 2, 3, vx>>)>>}, All({0 .. 4}, {{2}}, {{2}}))

(* A variable declared without bounds is the interval of all words.        *)
Undeclared ==
  Given({<<SetInC(vx, {-1, 1, 4})>>, <<ElemC(<<vy, vz, 3>>, 1)>>, <<MinMaxC(TRUE, vy, vz, vx)>>,
         <<DivModC("div", vx, 2, vy)>>, <<Ternary("times", vy, vz, vx)>>},
        All({-256 .. 255}, {0 .. 3, {2}}, {{0, 3}}))

Benign == Undeclared \union Arithmetic \union Products_ \union Arrays \union Booleans \union Orbits \union ShrunkInterval

(* The square of a variable that may be negative: vx = 0, vy = 0 solves it. *)
EvenPower == Given({<<PowC(vx, 2, vy)>>}, All({-3 .. 3}, {0 .. 4}, {{2}}))

(* Two products that share a factor: vx = 1, vy = 6, vz = 4 solves them.   *)
TwoProducts ==
  Given({<<Ternary("times", vx, vy, 6), Ternary("times", vx, vz, 4)>>}, All({1 .. 6}, {1 .. 6}, {{4, 5}}))

(* The hypothesis of PropagatorsKeepSolutions: all but 103 of the 4300     *)
(* benign problems are tame, with every kind of constraint among them and  *)
(* with products that start the Diophantine step.  The 103 have products   *)
(* of negative numbers or with more divisors than the arrays are sure to   *)
(* hold.  The problems above, which lose solutions, are not tame.  Every   *)
(* tame one of these is decidable, the hypothesis of FixpointIsDecided.    *)
Kinds == {c.kind : c \in UNION {Range(m.cons) : m \in Benign}}
TameOnes == {m \in Benign : Tame(m)}
FixedProduct(m, c) == c.kind = "times" /\ DeclaredVals(m, c.c) \in {{n} : n \in 1 .. 6}
ASSUME TameAssumption ==
  /\ Cardinality(Kinds) = 18
  /\ Cardinality(Benign \ TameOnes) = 103
  /\ Kinds = {c.kind : c \in UNION {Range(m.cons) : m \in TameOnes}}
  /\ \E m \in TameOnes : \E c \in Range(m.cons) : FixedProduct(m, c)
  /\ \A m \in EvenPower \union TwoProducts : ~Tame(m)
  /\ \A m \in TameOnes : Decidable(m)
=============================================================================
