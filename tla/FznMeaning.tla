----------------------------- MODULE FznMeaning -----------------------------
(***************************************************************************)
(* What the constraints of a FlatZinc model mean, by the MiniZinc standard *)
(* library: the reference the rows of GlobalRows are compared with.        *)
(* Nothing here looks at bounds, rows or fresh variables.                  *)
(***************************************************************************)
EXTENDS GlobalRows

Value(f, x) == f.const + MapThenSumSet(LAMBDA v : f.coef[v] * x[v], DOMAIN f.coef)

Count(s, v) == Cardinality({i \in DOMAIN s : s[i] = v})
Distinct(s) == \A i, k \in DOMAIN s : s[i] = s[k] => i = k
Cycle(s, first) ==              \* the nodes reached from the first, in n steps
  LET go[k \in 0 .. Len(s)] == IF k = 0 THEN first ELSE s[go[k - 1]]
  IN {go[k] : k \in 0 .. Len(s) - 1}
Largest(s, max) == IF max THEN Max(Range(s)) ELSE Min(Range(s))

Lexicographic(s, t, strict) ==
  \/ \E i \in DOMAIN s \cap DOMAIN t : s[i] < t[i] /\ \A k \in 1 .. i - 1 : s[k] = t[k]
  \/ /\ IF strict THEN Len(s) < Len(t) ELSE Len(s) <= Len(t)
     /\ \A k \in DOMAIN s \cap DOMAIN t : s[k] = t[k]

(* Of two intervals one ends before the other starts.                      *)
Apart(s, d, t, e) == s + d <= t \/ t + e <= s

(* The constraint without its gate; F(i) is the value of argument i, S(i)  *)
(* the values of an array, N(i) and T(i) the same counted in integers.     *)
Relation(c, x) ==
  LET F(i) == Value(c.a[i], x)
      S(i) == [k \in DOMAIN c.a[i] |-> Value(c.a[i][k], x)]
      N(i) == F(i) \div One
      T(i) == [k \in DOMAIN c.a[i] |-> S(i)[k] \div One]
      Total3 == MapThenSumSet(LAMBDA k : T(1)[k] * S(2)[k], DOMAIN c.a[1]) - F(3)
      Load(k) == MapThenSumSet(LAMBDA i : IF T(2)[i] = c.a[4] + k - 1 THEN S(3)[i] ELSE 0,
                               DOMAIN c.a[2])
      Successors == [k \in DOMAIN c.a[1] |-> T(1)[k] - c.a[2] + 1]
      Moved == {k \in DOMAIN c.a[1] : Successors[k] # k}
      Running(t) == MapThenSumSet(LAMBDA i : IF T(1)[i] <= t /\ t < T(1)[i] + T(2)[i]
                                             THEN S(3)[i] ELSE 0, DOMAIN c.a[1])
  IN CASE c.p = "lin" -> Related(c.rel, Total3)
       [] c.p = "compare" -> Related(c.rel, F(1) - F(2))
       [] c.p = "bool_not" -> F(1) = One - F(2)
       [] c.p = "bool_and" -> F(3) = Min({F(1), F(2)})
       [] c.p = "bool_or" -> F(3) = Max({F(1), F(2)})
       [] c.p = "bool_xor" -> F(3) = IF F(1) = F(2) THEN 0 ELSE One
       [] c.p = "bool_clause" -> One \in Range(S(1)) \/ 0 \in Range(S(2))
       [] c.p = "array_bool_and" -> (F(2) = One) = (0 \notin Range(S(1)))
       [] c.p = "array_bool_or" -> (F(2) = One) = (One \in Range(S(1)))
       [] c.p = "array_bool_xor" -> Count(S(1), One) % 2 = 1
       [] c.p = "int_plus" -> F(3) = F(1) + F(2)
       [] c.p = "int_minus" -> F(3) = F(1) - F(2)
       [] c.p = "int_neg" -> F(2) = -F(1)
       [] c.p = "same" -> F(1) = F(2)
       [] c.p = "float_div" -> F(2) # 0 /\ F(3) * F(2) = F(1) * One
       [] c.p = "int_times" -> F(3) * One = F(1) * F(2)
       [] c.p = "int_div" -> N(2) # 0 /\ N(3) = Quotient(N(1), N(2))
       [] c.p = "int_mod" -> N(2) # 0 /\ N(3) = Remainder(N(1), N(2))
       [] c.p = "int_pow" -> N(3) = IF N(2) = 0 THEN 1 ELSE N(1)^N(2)
       [] c.p = "int_abs" -> F(2) = Max({F(1), -F(1)})
       [] c.p = "int_max" -> F(3) = Max({F(1), F(2)})
       [] c.p = "int_min" -> F(3) = Min({F(1), F(2)})
       [] c.p = "set_in" -> F(1) % One = 0 /\ N(1) \in Members(c.a[2])
       [] c.p = "float_in" -> F(2) <= F(1) /\ F(1) <= F(3)
       [] c.p = "all_different" -> Distinct(S(1))
       [] c.p = "alldifferent_except" -> Distinct(SelectSeq(S(1), LAMBDA v : v # 0))
       [] c.p = "all_equal" -> Cardinality(Range(S(1))) <= 1
       [] c.p = "increasing" -> \A k \in 1 .. Len(c.a[1]) - 1 : Related(c.rel, S(1)[k] - S(1)[k + 1])
       [] c.p = "element" -> LET k == N(1) - c.a[4] + 1
                             IN k \in DOMAIN c.a[2] /\ F(3) = S(2)[k]
       [] c.p = "array_int_maximum" -> F(1) = Largest(S(2), TRUE)
       [] c.p = "array_int_minimum" -> F(1) = Largest(S(2), FALSE)
       [] c.p \in {"table_int", "table"} ->
            \E r \in 1 .. Len(c.a[2]) \div Len(c.a[1]) : \A k \in DOMAIN c.a[1] :
              S(1)[k] = S(2)[(r - 1) * Len(c.a[1]) + k]
       [] c.p = "member" -> F(2) \in Range(S(1))
       [] c.p = "count" -> Related(c.rel, Count(S(1), F(2)) - N(3))
       [] c.p = "among" -> N(1) = Cardinality({k \in DOMAIN c.a[2] : T(2)[k] \in Members(c.a[3])})
       [] c.p = "global_cardinality" ->
            /\ \A k \in DOMAIN c.a[2] : LET n == Count(S(1), S(2)[k]) * One
                 IN IF Len(c.a) = 3 THEN n = S(3)[k] ELSE S(3)[k] <= n /\ n <= S(4)[k]
            /\ c.mode = "closed" => Range(S(1)) \subseteq Range(S(2))
       [] c.p = "nvalue" -> N(1) = Cardinality(Range(S(2)))
       [] c.p = "bin_packing" -> \A i \in DOMAIN c.a[2] : Load(T(2)[i] - c.a[4] + 1) <= F(1)
       [] c.p = "bin_packing_capa" ->
            \A i \in DOMAIN c.a[2] : LET k == T(2)[i] - c.a[4] + 1
                                     IN k \in DOMAIN c.a[1] /\ Load(k) <= S(1)[k]
       [] c.p = "bin_packing_load" ->
            /\ \A i \in DOMAIN c.a[2] : T(2)[i] - c.a[4] + 1 \in DOMAIN c.a[1]
            /\ \A k \in DOMAIN c.a[1] : S(1)[k] = Load(k)
       [] c.p = "sliding_sum" ->
            \A i \in 1 .. Len(c.a[4]) - N(3) + 1 :
              LET w == MapThenSumSet(LAMBDA k : S(4)[k], i .. i + N(3) - 1) IN F(1) <= w /\ w <= F(2)
       [] c.p = "lex" -> Lexicographic(S(1), S(2), c.rel = "lt")
       [] c.p = "circuit" -> /\ Range(Successors) \subseteq DOMAIN Successors
                             /\ Distinct(Successors)
                             /\ c.a[1] # << >> => Cycle(Successors, 1) = DOMAIN Successors
       [] c.p = "subcircuit" -> /\ Range(Successors) \subseteq DOMAIN Successors
                                /\ Distinct(Successors)
                                /\ \A k \in Moved : Cycle(Successors, k) = Moved
       [] c.p = "inverse" ->
            LET f == [k \in DOMAIN c.a[1] |-> T(1)[k] - c.a[4] + 1]
                g == [k \in DOMAIN c.a[2] |-> T(2)[k] - c.a[3] + 1]
            IN /\ Range(f) \subseteq DOMAIN g /\ Range(g) \subseteq DOMAIN f
               /\ \A k \in DOMAIN f : g[f[k]] = k
               /\ \A k \in DOMAIN g : f[g[k]] = k
       [] c.p = "disjunctive" ->
            \A p \in Before(Len(c.a[1])) : T(2)[p[1]] = 0 \/ T(2)[p[2]] = 0 \/
              Apart(T(1)[p[1]], T(2)[p[1]], T(1)[p[2]], T(2)[p[2]])
       [] c.p = "diffn" ->
            \A p \in Before(Len(c.a[1])) :
              \/ \E k \in {3, 4}, i \in {p[1], p[2]} : T(k)[i] = 0
              \/ Apart(T(1)[p[1]], T(3)[p[1]], T(1)[p[2]], T(3)[p[2]])
              \/ Apart(T(2)[p[1]], T(4)[p[1]], T(2)[p[2]], T(4)[p[2]])
       [] c.p = "cumulative" -> \A i \in DOMAIN c.a[1] : T(2)[i] > 0 => Running(T(1)[i]) <= F(4)

Gates == {"reif", "imp"}

(* The last argument of a gated constraint is its 0/1 form.                *)
Holds(c, x) ==
  IF c.mode \notin Gates THEN Relation(c, x)
  ELSE LET r == Value(c.a[Len(c.a)], x) = One
       IN IF c.mode = "imp" THEN r => Relation(c, x) ELSE r = Relation(c, x)
=============================================================================
