----------------------------- MODULE RowHandlers -----------------------------
(***************************************************************************)
(* handle_constraint of src/src/fzn.c, first half: the rows it writes for  *)
(* comparisons, linear relations, Boolean and integer arithmetic and set   *)
(* membership.  Each operator takes a builder and a constraint and returns *)
(* the builder afterwards.                                                 *)
(*                                                                         *)
(* A constraint has a family p, a relation rel, a mode ("", "reif" or      *)
(* "imp"), a flag for float arguments and arguments a: forms, sequences of *)
(* forms, or integer sets.  As in FlatZinc an argument form is a constant  *)
(* or a variable.                                                          *)
(***************************************************************************)
EXTENDS LinearRows

(* Coefficients times variables, minus the right-hand side.                *)
LinForm(c) ==
  Minus(Total([i \in DOMAIN c.a[1] |-> Product(c.a[1][i], c.a[2][i])]), c.a[3])
Coefficients(c) == \A i \in DOMAIN c.a[1] : IsConst(c.a[1][i])
Difference(c) == Minus(c.a[1], c.a[2])

Open(c) == c.float /\ c.rel \in {"lt", "gt", "ne"}      \* not a closed set

lin_constraint(b, c) ==
  IF ~Coefficients(c) \/ Open(c) THEN Declined(b) ELSE Impose(b, LinForm(c), c.rel)

lin_ne(b, c) == IF Coefficients(c) /\ ~Open(c) THEN NotZero(b, LinForm(c)) ELSE Declined(b)

compare_constraint(b, c) == IF Open(c) THEN Declined(b) ELSE Impose(b, Difference(c), c.rel)

(* r <-> (f rel 0), or r -> (f rel 0), for a constant or a variable r.     *)
Gated(b, f, r, c) ==
  IF IsConst(r) THEN
    IF r \notin {K(0), K(1)} THEN Declined(b)
    ELSE IF c.mode = "imp" /\ r = K(0) THEN b
    ELSE add_int_relation_constant(b, f, c.rel, r = K(1))
  ELSE IF ~lin_unit_var(r) THEN Declined(b)
  ELSE IF c.mode = "imp" THEN Implied(b, f, VarOf(r), c.rel)
  ELSE Reified(b, f, VarOf(r), c.rel)

compare_reif(b, c) == Gated(b, Difference(c), c.a[3], c)
lin_reif(b, c) == IF Coefficients(c) THEN Gated(b, LinForm(c), c.a[4], c) ELSE Declined(b)

----------------------------------------------------------------------------
(* Boolean constraints.                                                    *)

bool_not(b, c) == b_put(b, {Equal(Plus(c.a[1], c.a[2]), K(1))})

Literal(b, f) ==
  IF IsConst(f) THEN f \in {K(0), K(1)} ELSE lin_unit_var(f) /\ IsBit(b, VarOf(f))

bool_gate(b, c) ==
  LET u == c.a[1]
      v == c.a[2]
      r == c.a[3]
  IN IF \E i \in 1 .. 3 : ~Literal(b, c.a[i]) THEN Declined(b)
     ELSE b_put(b, CASE c.p = "bool_and" -> And(r, u, v)
                     [] c.p = "bool_or" ->
                          {AtLeast(r, u), AtLeast(r, v), AtMost(r, Plus(u, v))}
                     [] c.p = "bool_xor" ->
                          {AtMost(r, Plus(u, v)), AtLeast(Plus(r, v), u), AtLeast(Plus(r, u), v),
                           AtMost(Plus(r, Plus(u, v)), K(2))})

Truth(f) == IF IsConst(f) THEN K(IF f = K(0) THEN 0 ELSE 1) ELSE f
ConstOrUnit(fs) == \A i \in DOMAIN fs : IsConst(fs[i]) \/ lin_unit_var(fs[i])
Truths(fs) == Total([i \in DOMAIN fs |-> Truth(fs[i])])

(* t counts the literals that hold; the clause is t >= 1.                  *)
bool_clause(b, c) ==
  LET pos == c.a[1]
      neg == c.a[2]
      literals == Len(pos) + Len(neg)
      t == Minus(Plus(Truths(pos), K(Len(neg))), Truths(neg))
  IN IF ~ConstOrUnit(pos) \/ ~ConstOrUnit(neg) \/ (c.mode = "reif" /\ IsConst(c.a[3]))
     THEN Declined(b)
     ELSE IF c.mode # "reif" THEN b_put(b, {AtLeast(t, K(1))})
     ELSE b_put(b, {AtMost(c.a[3], t), AtLeast(Scaled(Max({literals, 1}), c.a[3]), t)})

(* array_bool_and and array_bool_or.  The number of variables counts a     *)
(* repeated one twice, their sum does not.                                 *)
array_bool(b, c) ==
  LET fs == c.a[1]
      r == c.a[2]
      and == c.p = "array_bool_and"
      decided == \E i \in DOMAIN fs : IsConst(fs[i]) /\ (Truth(fs[i]) = K(0)) = and
      units == SelectSeq(fs, lin_unit_var)
      sum == Bits({VarOf(units[i]) : i \in DOMAIN units} \ DOMAIN r.coef)
  IN IF IsConst(r) \/ ~ConstOrUnit(fs) THEN Declined(b)
     ELSE IF decided \/ units = << >>
     THEN b_put(b, {Equal(r, K(IF decided # and THEN 1 ELSE 0))})
     ELSE IF and
     THEN b_put(b, {AtMost(r, units[i]) : i \in DOMAIN units}
                   \cup {AtLeast(Plus(r, K(Len(units) - 1)), sum)})
     ELSE b_put(b, {AtLeast(r, units[i]) : i \in DOMAIN units} \cup {AtMost(r, sum)})

(* Their sum is odd: with three or more, 2k + 1 for a fresh k.             *)
array_bool_xor(b, c) ==
  LET n == Len(c.a[1])
      sum == Total(c.a[1])
      k == X(Top(b) + 1)
  IN IF n <= 2 THEN b_put(b, {Equal(sum, K(1))})
     ELSE b_put(b_newvar(b, 0, (n - 1) \div 2), {Equal(sum, Plus(Scaled(2, k), K(1)))})

----------------------------------------------------------------------------
(* Arithmetic.                                                             *)

plus_minus(b, c) ==
  b_put(b, {Equal(c.a[3], IF c.p = "int_minus" THEN Minus(c.a[1], c.a[2])
                                               ELSE Plus(c.a[1], c.a[2]))})
int_neg(b, c) == b_put(b, {Equal(Plus(c.a[1], c.a[2]), K(0))})
same_value(b, c) == b_put(b, {Equal(c.a[1], c.a[2])})

(* c = a / k; the row is multiplied by k here.                             *)
float_div(b, c) ==
  IF ~IsConst(c.a[2]) \/ c.a[2] = K(0) THEN Declined(b)
  ELSE b_put(b, {Equal(Product(c.a[2], c.a[3]), c.a[1])})

times_bounded(b, v) == b.lo[v] >= -EXACT /\ b.hi[v] <= EXACT
times_decomposable(b, v) == times_bounded(b, v) /\ b.hi[v] - b.lo[v] <= EXACT

BitLength(n) == CHOOSE k \in 0 .. n : 2^k > n /\ \A j \in 0 .. k - 1 : 2^j <= n

(* vc = vm * vd: vd - dlo in binary, and w[j] = vm * (bit j of it) between *)
(* the four McCormick rows.                                                *)
encode_product(b, vm, vd, vc) ==
  LET dlo == b.lo[vd]
      mlo == b.lo[vm]
      mhi == b.hi[vm]
      n == BitLength(b.hi[vd] - dlo)
      bit(j) == Top(b) + j
      w(j) == Top(b) + n + j
      b2 == FoldLeft(LAMBDA s, j : b_newvar(s, Min({0, mlo}), Max({0, mhi})),
                     NewBits(b, n), [j \in 1 .. n |-> j])
  IN IF ~times_decomposable(b, vd) \/ ~times_bounded(b, vm) THEN Declined(b)
     ELSE b_put(b2,
       {Equal(X(vc), Plus(Scaled(dlo, X(vm)), Weighted([v \in {w(j) : j \in 1 .. n} |->
                                                          2^(v - w(1))])))}
       \cup (IF n = 0 THEN {}
             ELSE {Equal(X(vd), Plus(K(dlo), Weighted([v \in {bit(j) : j \in 1 .. n} |->
                                                         2^(v - bit(1))])))})
       \cup UNION {
         {AtLeast(Plus(X(w(j)), K(mhi)), Plus(X(vm), Scaled(mhi, X(bit(j))))),
          AtMost(Plus(X(w(j)), K(mlo)), Plus(X(vm), Scaled(mlo, X(bit(j))))),
          AtMost(X(w(j)), Scaled(mhi, X(bit(j)))),
          AtLeast(X(w(j)), Scaled(mlo, X(bit(j))))} : j \in 1 .. n})

(* Of two decomposable factors the one with the smaller range is split.    *)
Split(b, u, v) ==
  \/ times_decomposable(b, u) /\ ~times_decomposable(b, v)
  \/ times_decomposable(b, u) /\ b.hi[u] - b.lo[u] <= b.hi[v] - b.lo[v]

Flagged(b, v) == v \notin b.nolo /\ v \notin b.nohi
Boolean(b, f) == lin_unit_var(f) /\ Flagged(b, VarOf(f)) /\ IsBit(b, VarOf(f))

int_times(b, c) ==
  LET u == c.a[1]
      v == c.a[2]
      r == c.a[3]
      m == Materialized(b, <<u, v, r>>)
  IN IF IsConst(u) /\ (IsConst(v) \/ ~IsConst(r)) THEN b_put(b, {Equal(r, Product(u, v))})
     ELSE IF IsConst(v) /\ ~IsConst(r) THEN b_put(b, {Equal(r, Product(v, u))})
     ELSE IF Boolean(b, u) /\ Boolean(b, v) /\ lin_unit_var(r) THEN b_put(b, And(r, u, v))
     ELSE IF ~m.b.handled THEN m.b
     ELSE IF Split(m.b, m.v[1], m.v[2]) THEN encode_product(m.b, m.v[2], m.v[1], m.v[3])
     ELSE encode_product(m.b, m.v[1], m.v[2], m.v[3])

Abs(i) == IF i < 0 THEN -i ELSE i
Quotient(i, k) == IF (i < 0) = (k < 0) THEN Abs(i) \div Abs(k) ELSE -(Abs(i) \div Abs(k))
Remainder(i, k) == i - k * Quotient(i, k)

(* a = k*q + rem, |rem| < |k|, and rem has the sign of a.                  *)
DivideByConstant(b, c) ==
  LET a == c.a[1]
      k == IntOf(c.a[2])
      R == Abs(k) - 1
      div == c.p = "int_div"
      ends == {Low(b, a), High(b, a)}
      qlo == Min({(e * (IF k < 0 THEN -1 ELSE 1)) \div (One * Abs(k)) : e \in ends}) - 1
      qhi == -Min({(-e * (IF k < 0 THEN -1 ELSE 1)) \div (One * Abs(k)) : e \in ends}) + 1
      fresh == X(Top(b) + 1)
      b1 == IF div THEN b_newvar(b, -R, R) ELSE b_newvar(b, qlo, qhi)
      q == IF div THEN c.a[3] ELSE fresh
      rem == IF div THEN fresh ELSE c.a[3]
      nonneg == Reify(b1, a, "ge")
  IN b_put(nonneg.b, {Equal(a, Plus(Scaled(k, q), rem)),
                      AtLeast(Plus(rem, K(R)), Scaled(R, X(nonneg.v))),
                      AtMost(rem, Scaled(R, X(nonneg.v)))})

(* The same for a variable divisor: a = vb*q + r, vb # 0, |r| < |vb|.      *)
encode_divmod_var(b, va, vb, vc, div) ==
  LET U == Max({Abs(b.lo[vb]), Abs(b.hi[vb])})
      maxa == Max({Abs(b.lo[va]), Abs(b.hi[va])})
      minabs == IF b.lo[vb] <= 0 /\ b.hi[vb] >= 0 THEN 1
                ELSE Min({Abs(b.lo[vb]), Abs(b.hi[vb])})
      qmax == -((-maxa) \div minabs) + 1
      p == U * qmax
      b1 == IF div THEN b_newvar(b, 1 - U, U - 1) ELSE b_newvar(b, -qmax, qmax)
      q == IF div THEN vc ELSE Top(b1)
      r == IF div THEN Top(b1) ELSE vc
      prod == Top(b1) + 1
      b2 == NotZero(encode_product(b_newvar(b1, -p, p), q, vb, prod), X(vb))
      ab == Top(b2) + 1
      pb == Reify(b_newvar(b2, 0, U), X(vb), "gt")
      na == Reify(pb.b, X(va), "ge")
      rp == Reify(na.b, X(r), "gt")
      rn == Reify(rp.b, X(r), "lt")
  IN IF ~times_decomposable(b, vb) \/ ~times_bounded(b, va) \/ U > EXACT \div 2
        \/ maxa > EXACT \div 2 \/ p > EXACT \/ ~times_bounded(b1, q)
     THEN Declined(b)
     ELSE b_put(rn.b,
       {Equal(X(va), Plus(X(prod), X(r))),
        AtLeast(X(ab), X(vb)), AtLeast(Plus(X(ab), X(vb)), K(0)),
        AtMost(Plus(X(ab), Scaled(2 * U, X(pb.v))), Plus(X(vb), K(2 * U))),
        AtMost(Plus(X(ab), X(vb)), Scaled(2 * U, X(pb.v))),
        AtMost(Plus(X(r), K(1)), X(ab)), AtMost(K(1), Plus(X(ab), X(r))),
        AtLeast(X(na.v), X(rp.v)), NoneOrOne(Plus(X(na.v), X(rn.v)))})

int_div_mod(b, c) ==
  LET m == Materialized(b, c.a)
  IN IF IsInt(c.a[2]) /\ c.a[2] # K(0) /\ Magnitude(b, c.a[2]) <= EXACT * One
     THEN IF IsInt(c.a[1]) /\ Magnitude(b, c.a[1]) <= EXACT * One
          THEN LET i == IntOf(c.a[1])
                   k == IntOf(c.a[2])
               IN b_put(b, {Equal(c.a[3],
                                  K(IF c.p = "int_div" THEN Quotient(i, k) ELSE Remainder(i, k)))})
          ELSE DivideByConstant(b, c)
     ELSE IF ~m.b.handled THEN m.b
     ELSE encode_divmod_var(m.b, m.v[1], m.v[2], m.v[3], c.p = "int_div")

(* A constant exponent, and a constant base or one selector per base.      *)
int_pow(b, c) ==
  LET x == c.a[1]
      e == IntOf(c.a[2])
      v == VarOf(x)
      lo == IF IsConst(x) THEN IntOf(x) ELSE b.lo[v]
      hi == IF IsConst(x) THEN IntOf(x) ELSE b.hi[v]
      bases == [i \in 1 .. hi - lo + 1 |-> lo + i - 1]
      s == Selected(b, <<x>>, [i \in DOMAIN bases |-> K(bases[i])])
      powers == [i \in DOMAIN bases |-> bases[i]^e]
      exact == \A i \in DOMAIN bases : Abs(powers[i]) <= EXACT
  IN IF ~IsInt(c.a[2]) \/ e < 0 THEN Declined(b)
     ELSE IF e = 0 THEN b_put(b, {Equal(c.a[3], K(1))})
     ELSE IF e = 1 THEN b_put(b, {Equal(c.a[3], x)})
     ELSE IF ~IsInt(x) /\ (IsConst(x) \/ ~Flagged(b, v)) THEN Declined(b)
     ELSE IF hi - lo \notin 0 .. SELECTORS - 1 \/ ~exact THEN Declined(b)
     ELSE IF lo = hi THEN b_put(b, {Equal(c.a[3], K(powers[1]))})
     ELSE b_put(s.b, {Equal(c.a[3], Chosen(s.z, 1, powers)), OneOf(OfRow(s.z, 1))})

int_abs(b, c) ==
  LET m == Materialized(b, <<c.a[1], c.a[2]>>)
      x == X(m.v[1])
      y == X(m.v[2])
      lo == m.b.lo[m.v[1]]
      hi == m.b.hi[m.v[1]]
      s == X(Top(m.b) + 1)                \* x is negative
  IN IF ~m.b.handled THEN m.b
     ELSE IF lo >= 0 THEN b_put(m.b, {Equal(y, x)})
     ELSE IF hi <= 0 THEN b_put(m.b, {Equal(Plus(x, y), K(0))})
     ELSE b_put(NewBits(m.b, 1),
            {AtLeast(y, x), AtLeast(Plus(x, y), K(0)),
             AtMost(y, Plus(x, Scaled(-2 * lo, s))),
             AtMost(Plus(Plus(x, y), Scaled(2 * hi, s)), K(2 * hi))})

int_max_min(b, c) ==
  LET m == Materialized(b, c.a)
      x == X(m.v[1])
      y == X(m.v[2])
      r == X(m.v[3])
      s == X(Top(m.b) + 1)                \* y is the one
      M == 2 * Max({1} \cup {Abs(i) : i \in {m.b.lo[m.v[1]], m.b.hi[m.v[1]],
                                             m.b.lo[m.v[2]], m.b.hi[m.v[2]]}})
  IN IF ~m.b.handled THEN m.b
     ELSE IF c.p = "int_max"
     THEN b_put(NewBits(m.b, 1), {AtLeast(r, x), AtLeast(r, y), AtMost(r, Plus(x, Scaled(M, s))),
                                  AtMost(Plus(r, Scaled(M, s)), Plus(y, K(M)))})
     ELSE b_put(NewBits(m.b, 1), {AtMost(r, x), AtMost(r, y), AtLeast(Plus(r, Scaled(M, s)), x),
                                  AtLeast(Plus(r, K(M)), Plus(y, Scaled(M, s)))})

----------------------------------------------------------------------------
(* Membership.  A set is a range or an enumeration without repetitions.    *)

fz_parse_int_set(s) == s.range \/ Cardinality(s.vals) <= SELECTORS
Members(s) == IF s.range THEN s.lo .. s.hi ELSE s.vals
Values(s) == Ascending(Members(s))

(* Each side of the box that s narrows, or that was the bridge's clamp,    *)
(* is a bound of s from now on.                                            *)
Narrowed(b, v, lo, hi) ==
  LET cutlo == v \in b.nolo \/ b.lo[v] < lo
      cuthi == v \in b.nohi \/ b.hi[v] > hi
  IN [b EXCEPT !.lo[v] = IF cutlo THEN lo ELSE @, !.hi[v] = IF cuthi THEN hi ELSE @,
               !.nolo = @ \ {v}, !.nohi = @ \ {v}]

set_in(b, c) ==
  LET s == c.a[2]
      m == lin_materialize(b, c.a[1])
      n == Narrowed(m.b, m.v, s.lo, s.hi)
      i == CHOOSE i \in s.vals : TRUE
      t == Table(m.b, 1, Cardinality(s.vals))
  IN IF ~fz_parse_int_set(s) THEN Declined(b)
     ELSE IF IsConst(c.a[1]) THEN
       IF Magnitude(b, c.a[1]) > EXACT * One THEN Declined(b)
       ELSE IF IsInt(c.a[1]) /\ IntOf(c.a[1]) \in Members(s) THEN b
       ELSE b_put(b, {IMPOSSIBLE})
     ELSE IF Members(s) = {} THEN b_put(m.b, {IMPOSSIBLE})
     ELSE IF s.range THEN IF n.lo[m.v] > n.hi[m.v] THEN b_put(n, {IMPOSSIBLE}) ELSE n
     ELSE IF Cardinality(s.vals) = 1 THEN
       IF (m.v \notin m.b.nolo /\ m.b.lo[m.v] > i) \/ (m.v \notin m.b.nohi /\ m.b.hi[m.v] < i)
       THEN b_put(m.b, {IMPOSSIBLE})
       ELSE Narrowed(m.b, m.v, i, i)
     ELSE b_put(t.b, {Equal(X(m.v), Chosen(t.z, 1, Values(s))), OneOf(OfRow(t.z, 1))})

set_in_reif(b, c) ==
  LET s == c.a[2]
      r == c.a[3]
      from == Reify(b, Minus(c.a[1], K(s.lo)), "ge")
      upto == Reify(from.b, Minus(c.a[1], K(s.hi)), "le")
      t == Selected(b, <<c.a[1]>>, [i \in DOMAIN Values(s) |-> K(Values(s)[i])])
  IN IF ~fz_parse_int_set(s) \/ ~lin_unit_var(r) THEN Declined(b)
     ELSE IF Members(s) = {} THEN b_put(b, {Equal(r, K(0))})
     ELSE IF s.range THEN b_put(upto.b, And(r, X(from.v), X(upto.v)))
     ELSE b_put(t.b, {Equal(r, OfRow(t.z, 1)), NoneOrOne(OfRow(t.z, 1))})

(* With reification only r -> (a <= x <= b) is written.                    *)
float_in(b, c) ==
  LET from == Minus(c.a[1], c.a[2])
      upto == Minus(c.a[1], c.a[3])
      r == c.a[4]
      M(f) == Max({Magnitude(b, f), One})
      Gate(f) == Form([v \in DOMAIN r.coef |-> M(f)], 0)
  IN IF c.mode # "reif" THEN b_put(b, {LinRow(">", from, 0), LinRow("<", upto, 0)})
     ELSE IF ~lin_unit_var(r) THEN Declined(b)
     ELSE b_put(b, {LinRow(">", Minus(from, Gate(from)), -M(from)),
                    LinRow("<", Plus(upto, Gate(upto)), M(upto))})
=============================================================================
