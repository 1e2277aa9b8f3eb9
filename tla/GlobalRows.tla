----------------------------- MODULE GlobalRows -----------------------------
(***************************************************************************)
(* handle_constraint of src/src/fzn.c, second half: the rows of the global *)
(* constraints.  Most of them reify x = value for every variable and every *)
(* value and then count; a few bound a difference with a big M of its own. *)
(***************************************************************************)
EXTENDS RowHandlers

Consts(fs) == \A i \in DOMAIN fs : IsConst(fs[i])
Ints(fs) == [i \in DOMAIN fs |-> IntOf(fs[i])]
Forms(ints) == [i \in DOMAIN ints |-> K(ints[i])]

(* The values some forms can take, from the least to the greatest.         *)
Lowest(b, fs) == Min({Low(b, fs[i]) : i \in DOMAIN fs}) \div One
Highest(b, fs) == Max({High(b, fs[i]) : i \in DOMAIN fs}) \div One
Span(b, fs) == Numbers(Lowest(b, fs), Highest(b, fs))
TooWide(b, fs) == Len(Span(b, fs)) \notin 1 .. SELECTORS

all_different(b, c) ==
  LET xs == c.a[1]
      span == Span(b, xs)
      t == Table(b, Len(xs), Len(span))
  IN IF Len(xs) <= 1 THEN b
     ELSE IF TooWide(b, xs) THEN Declined(b)
     ELSE b_put(t.b, UNION {{OneOf(OfRow(t.z, i)), Equal(xs[i], Chosen(t.z, i, span))} :
                              i \in DOMAIN xs}
                     \cup {NoneOrOne(OfColumn(t.z, k)) : k \in DOMAIN span})

(* Both alldifferent_except_0(x) and alldifferent_except(x, S): 0 is the   *)
(* one value that may be repeated, and a second argument is not read.      *)
alldifferent_except(b, c) ==
  LET xs == c.a[1]
      nonzero == SelectSeq(Span(b, xs), LAMBDA v : v # 0)
      s == Selected(b, xs, Forms(nonzero))
  IN IF Len(xs) <= 1 THEN b
     ELSE IF TooWide(b, xs) THEN Declined(b)
     ELSE b_put(s.b, {NoneOrOne(OfColumn(s.z, k)) : k \in DOMAIN nonzero})

all_equal(b, c) ==
  b_put(b, {Equal(c.a[1][i], c.a[1][i + 1]) : i \in 1 .. Len(c.a[1]) - 1})

(* Neighbours in order; the strict ones differ by 1.                       *)
increasing(b, c) ==
  LET step(i) == Minus(c.a[1][i], c.a[1][i + 1])
      row(f) == CASE c.rel = "le" -> LinRow("<", f, 0) [] c.rel = "lt" -> LinRow("<", f, -One)
                  [] c.rel = "ge" -> LinRow(">", f, 0) [] c.rel = "gt" -> LinRow(">", f, One)
  IN IF Open(c) THEN Declined(b)
     ELSE b_put(b, {row(step(i)) : i \in 1 .. Len(c.a[1]) - 1})

----------------------------------------------------------------------------
(* Selections: element, extrema, tables.                                   *)

(* value = arr[index]; with an offset the first index is offset, else 1 or *)
(* (nonshifted) 0.                                                         *)
element(b, c) ==
  LET index == c.a[1]
      arr == c.a[2]
      value == c.a[3]
      offset == c.a[4]
      at == IntOf(index) - offset + 1
      t == Table(b, 1, Len(arr))
      M(i) == Magnitude(b, Minus(value, arr[i]))
      Gate(i) == Form(t.z[<<1, i>>] :> M(i), 0)
  IN IF Len(arr) \notin 1 .. SELECTORS THEN Declined(b)
     ELSE IF IsConst(index)
     THEN b_put(b, {IF at \in DOMAIN arr THEN Equal(value, arr[at]) ELSE IMPOSSIBLE})
     ELSE IF ~lin_unit_var(index) THEN Declined(b)
     ELSE b_put(t.b,
       {OneOf(OfRow(t.z, 1)),
        Equal(index, Chosen(t.z, 1, Numbers(offset, offset + Len(arr) - 1)))}
       \cup IF Consts(arr) THEN {Equal(value, Chosen(t.z, 1, Ints(arr)))}
            ELSE UNION {{LinRow("<", Plus(Minus(value, arr[i]), Gate(i)), M(i)),
                         LinRow(">", Minus(Minus(value, arr[i]), Gate(i)), -M(i))} :
                          i \in DOMAIN arr})

(* The result's box shrinks to what the arguments allow (its flags stay).  *)
Tightened(b, f, lo, hi) ==
  IF ~lin_unit_var(f) THEN b
  ELSE [b EXCEPT !.lo[VarOf(f)] = Max({@, Floor(lo)}), !.hi[VarOf(f)] = Min({@, Floor(hi)})]

(* array_int_maximum and array_int_minimum.  When the result is the whole  *)
(* objective, to be minimized or maximized, the comparisons alone are      *)
(* written (objective_forces).                                             *)
objective_forces(objective, c) ==
  LET m == c.a[1]
  IN /\ lin_unit_var(m) /\ DOMAIN objective.form.coef = DOMAIN m.coef
     /\ objective.form.coef[VarOf(m)] > 0
     /\ objective.kind = IF c.p = "array_int_maximum" THEN "minimize" ELSE "maximize"

array_extremum(b, objective, c) ==
  LET m == c.a[1]
      xs == c.a[2]
      max == c.p = "array_int_maximum"
      lows == {Low(b, xs[i]) : i \in DOMAIN xs}
      highs == {High(b, xs[i]) : i \in DOMAIN xs}
      b1 == IF max THEN Tightened(b, m, Max(lows), Max(highs))
                   ELSE Tightened(b, m, Min(lows), Min(highs))
      t == Table(b1, 1, Len(xs))
      M(i) == Max({0, IF max THEN High(b1, m) - Low(b, xs[i]) ELSE High(b, xs[i]) - Low(b1, m)})
      Gate(i) == Form(t.z[<<1, i>>] :> M(i), 0)
      bounds == {IF max THEN AtLeast(m, xs[i]) ELSE AtMost(m, xs[i]) : i \in DOMAIN xs}
      reached == {IF max THEN LinRow("<", Plus(Minus(m, xs[i]), Gate(i)), M(i))
                         ELSE LinRow(">", Minus(Minus(m, xs[i]), Gate(i)), -M(i)) : i \in DOMAIN xs}
  IN IF Len(xs) \notin 1 .. SELECTORS THEN Declined(b)
     ELSE IF objective_forces(objective, c) THEN b_put(b1, bounds)
     ELSE b_put(t.b, {OneOf(OfRow(t.z, 1))} \cup bounds \cup reached)

Column(tuples, k, n) == [r \in 1 .. Len(tuples) \div n |-> tuples[(r - 1) * n + k]]

(* table_int: the tuple is one of the rows of a matrix.                    *)
table_int(b, c) ==
  LET xs == c.a[1]
      n == Len(xs)
      t == Table(b, 1, Len(c.a[2]) \div n)
  IN IF n = 0 \/ Len(c.a[2]) % n # 0 \/ Len(c.a[2]) \div n > SELECTORS
        \/ \E k \in DOMAIN c.a[2] : ~IsInt(c.a[2][k])
     THEN Declined(b)
     ELSE IF c.a[2] = << >> THEN b_put(b, {IMPOSSIBLE})
     ELSE b_put(t.b, {OneOf(OfRow(t.z, 1))}
                     \cup {Equal(xs[k], Chosen(t.z, 1, Column(Ints(c.a[2]), k, n))) : k \in 1 .. n})

(* table, table_bool: the same with a big M for every column.              *)
table(b, c) ==
  LET xs == c.a[1]
      n == Len(xs)
      column(k) == Column(Ints(c.a[2]), k, n)
      t == Table(b, 1, Len(c.a[2]) \div n)
      entries(k) == {column(k)[r] : r \in DOMAIN column(k)}
      M(k) == Max({1, Max(entries(k)) - b.lo[VarOf(xs[k])], b.hi[VarOf(xs[k])] - Min(entries(k))})
  IN IF n = 0 \/ Len(c.a[2]) % n # 0 THEN Declined(b)
     ELSE IF c.a[2] = << >> THEN b_put(b, {IMPOSSIBLE})
     ELSE IF \E k \in 1 .. n : \/ IsConst(xs[k]) \/ ~Flagged(b, VarOf(xs[k]))
                               \/ b.lo[VarOf(xs[k])] > b.hi[VarOf(xs[k])]
     THEN Declined(b)
     ELSE b_put(t.b, {OneOf(OfRow(t.z, 1))} \cup UNION
       {{AtMost(Plus(xs[p[1]], Scaled(M(p[1]), X(t.z[<<1, p[2]>>]))),
                K(column(p[1])[p[2]] + M(p[1]))),
         AtLeast(Minus(xs[p[1]], Scaled(M(p[1]), X(t.z[<<1, p[2]>>]))),
                 K(column(p[1])[p[2]] - M(p[1])))} :
          p \in (1 .. n) \X (1 .. Len(c.a[2]) \div n)})

member(b, c) ==
  LET xs == c.a[1]
      s == Selected(b, xs, <<c.a[2]>>)
      t == Table(b, Len(xs), 1)
      d(i) == Minus(c.a[2], xs[i])
      M(i) == Max({One, Magnitude(b, d(i))})
      Gate(i) == Form(t.z[<<i, 1>>] :> M(i), 0)
  IN IF xs = << >> THEN b_put(b, {IMPOSSIBLE})
     ELSE IF Len(xs) > SELECTORS THEN Declined(b)
     ELSE IF ~c.float THEN b_put(s.b, {AtLeast(OfColumn(s.z, 1), K(1))})
     ELSE b_put(t.b, {AtLeast(OfColumn(t.z, 1), K(1))} \cup UNION
                     {{LinRow("<", Plus(d(i), Gate(i)), M(i)),
                       LinRow(">", Minus(d(i), Gate(i)), -M(i))} : i \in DOMAIN xs})

----------------------------------------------------------------------------
(* Counting.                                                               *)

(* How many of the forms equal a value; strict relations step by 1.        *)
count(b, c) ==
  LET s == Selected(b, c.a[1], <<c.a[2]>>)
      d == Minus(Bits({s.z[p] : p \in DOMAIN s.z}), c.a[3])
  IN CASE c.rel = "lt" -> b_put(s.b, {LinRow("<", d, -One)})
       [] c.rel = "gt" -> b_put(s.b, {LinRow(">", d, One)})
       [] c.rel \in {"eq", "le", "ge", "ne"} -> Impose(s.b, d, c.rel)

(* How many take values in a set; the constants among them are counted     *)
(* here, not in rows.                                                      *)
among(b, c) ==
  LET S == c.a[3]
      fixed == SelectSeq(c.a[2], IsConst)
      xs == SelectSeq(c.a[2], LAMBDA f : ~IsConst(f))
      found == Cardinality({i \in DOMAIN fixed : IntOf(fixed[i]) \in Members(S)})
      in == Table(b, Len(xs), 1)
      s == Selected(in.b, xs, Forms(Values(S)))
  IN IF Cardinality(Members(S)) * Len(c.a[2]) > SELECTORS THEN Declined(b)
     ELSE IF Members(S) = {} THEN b_put(b, {Equal(c.a[1], K(0))})
     ELSE IF \E i \in DOMAIN fixed : ~IsInt(fixed[i]) THEN Declined(b)
     ELSE b_put(s.b, {Equal(c.a[1], Plus(OfColumn(in.z, 1), K(found)))}
                     \cup {Equal(OfRow(in.z, i), OfRow(s.z, i)) : i \in DOMAIN xs})

(* Counts of the cover values, equal to forms or between two of them; with *)
(* mode "closed" no other value is allowed.                                *)
global_cardinality(b, c) ==
  LET cover == c.a[2]
      s == Selected(b, c.a[1], cover)
      n(k) == OfColumn(s.z, k)
  IN IF Len(c.a[1]) * Len(cover) > SELECTORS THEN Declined(b)
     ELSE b_put(s.b,
       {IF c.mode = "closed" THEN OneOf(OfRow(s.z, i)) ELSE NoneOrOne(OfRow(s.z, i)) :
          i \in DOMAIN c.a[1]}
       \cup IF Len(c.a) = 3 THEN {Equal(n(k), c.a[3][k]) : k \in DOMAIN cover}
            ELSE UNION {{AtLeast(n(k), c.a[3][k]), AtMost(n(k), c.a[4][k])} : k \in DOMAIN cover})

nvalue(b, c) ==
  LET xs == c.a[2]
      span == Span(b, xs)
      s == Selected(b, xs, Forms(span))
      used == Table(s.b, 1, Len(span))
      u(k) == X(used.z[<<1, k>>])
  IN IF xs = << >> THEN b_put(b, {Equal(c.a[1], K(0))})
     ELSE IF TooWide(b, xs) THEN Declined(b)
     ELSE b_put(used.b, {Equal(OfRow(used.z, 1), c.a[1])}
                        \cup {AtMost(X(s.z[p]), u(p[2])) : p \in DOMAIN s.z}
                        \cup {AtMost(u(k), OfColumn(s.z, k)) : k \in DOMAIN span})

(* Bins are numbered from c.a[4]; the number of bins is that of the loads  *)
(* or capacities, or for one capacity what the boxes of the bins allow.    *)
bin_packing(b, c) ==
  LET bins == c.a[2]
      weight == Ints(c.a[3])
      first == c.a[4]
      highest == Max({0} \cup {b.hi[VarOf(bins[i])] : i \in {j \in DOMAIN bins :
                                 lin_unit_var(bins[j]) /\ VarOf(bins[j]) \notin b.nohi}})
      m == IF c.p # "bin_packing" THEN Len(c.a[1])
           ELSE IF highest - first + 1 < 1 THEN Len(bins) ELSE highest - first + 1
      s == Selected(b, bins, Forms(Numbers(first, first + m - 1)))
      load(k) == Total([i \in DOMAIN bins |-> Scaled(weight[i], X(s.z[<<i, k>>]))])
  IN IF Len(bins) * m > SELECTORS \/ ~Consts(c.a[3]) THEN Declined(b)
     ELSE b_put(s.b, {OneOf(OfRow(s.z, i)) : i \in DOMAIN bins}
                     \cup {CASE c.p = "bin_packing_load" -> Equal(c.a[1][k], load(k))
                             [] c.p = "bin_packing_capa" -> AtMost(load(k), c.a[1][k])
                             [] c.p = "bin_packing" -> AtMost(load(k), c.a[1]) : k \in 1 .. m})

(* Every window of a given length sums to between two forms.               *)
sliding_sum(b, c) ==
  LET vs == c.a[4]
      n == IntOf(c.a[3])
      window(i) == Total(SubSeq(vs, i, i + n - 1))
  IN IF ~IsConst(c.a[3]) \/ n \notin 1 .. Len(vs) THEN Declined(b)
     ELSE b_put(b, UNION {{AtLeast(window(i), c.a[1]), AtMost(window(i), c.a[2])} :
                            i \in 1 .. Len(vs) - n + 1})

(* x is lexicographically before y: the first position where they differ   *)
(* is one with x < y, or (allow_eq) there is none.                         *)
lex(b, c) ==
  LET xs == c.a[1]
      ys == c.a[2]
      n == Min({Len(xs), Len(ys)})
      allow_eq == IF c.rel = "lt" THEN Len(xs) < Len(ys) ELSE Len(xs) <= Len(ys)
      Next2(s, i) ==
        LET e == Reify(s.b, Minus(xs[i], ys[i]), "eq")
            l == Reify(e.b, Minus(xs[i], ys[i]), "lt")
            p == Top(l.b) + 1
        IN IF i = 1 THEN [b |-> l.b, p_eq |-> e.v, diff |-> {l.v}]
           ELSE [b |-> b_put(NewBits(l.b, 2), And(X(p), X(s.p_eq), X(e.v))
                                              \cup And(X(p + 1), X(s.p_eq), X(l.v))),
                 p_eq |-> p, diff |-> s.diff \cup {p + 1}]
      all == FoldLeft(Next2, [b |-> b], [i \in 1 .. n |-> i])
  IN IF n = 0 THEN IF allow_eq THEN b ELSE b_put(b, {IMPOSSIBLE})
     ELSE IF n > SELECTORS THEN Declined(b)
     ELSE b_put(all.b, {OneOf(Bits(all.diff \cup IF allow_eq THEN {all.p_eq} ELSE {}))})

----------------------------------------------------------------------------
(* Successors.                                                             *)

Assignment(z, n) == UNION {{OneOf(OfRow(z, i)), OneOf(OfColumn(z, i))} : i \in 1 .. n}

(* x[i] is the successor of i, numbered from an offset; every arc but the  *)
(* one into the first node goes to a later place in the order.             *)
circuit(b, c) ==
  LET xs == c.a[1]
      offset == c.a[2]
      n == Len(xs)
      arcs == {p \in (1 .. n) \X (1 .. n) : p[1] # p[2]}
      z == [p \in arcs |-> Top(b) + (p[1] - 1) * (n - 1) + p[2] - IF p[2] > p[1] THEN 1 ELSE 0]
      ord(i) == X(Top(b) + n * (n - 1) + i - 1)
      placed == FoldLeft(LAMBDA s, i : b_newvar(s, 1, n - 1), NewBits(b, n * (n - 1)),
                         [i \in 1 .. n - 1 |-> i])
  IN IF n = 0 THEN b
     ELSE IF n * n > SELECTORS THEN Declined(b)
     ELSE IF n = 1 THEN b_put(b, {Equal(xs[1], K(offset))})
     ELSE b_put(placed,
       Assignment(z, n)
       \cup {Equal(xs[i], Chosen(z, i, Numbers(offset, offset + n - 1))) : i \in 1 .. n}
       \cup {AtMost(Plus(ord(p[1]), Scaled(n - 1, X(z[p]))), Plus(ord(p[2]), K(n - 2))) :
               p \in {q \in arcs : q[1] # 1 /\ q[2] # 1}})

(* The same among the nodes that are not their own successors; one of them *)
(* is the anchor g, into which an arc may go back.                         *)
subcircuit(b, c) ==
  LET xs == c.a[1]
      n == Len(xs)
      s == Selected(b, xs, Forms(Numbers(c.a[2], c.a[2] + n - 1)))
      in_c(i) == X(Top(s.b) + i)
      g(i) == X(Top(s.b) + n + i)
      ord(i) == X(Top(s.b) + 2 * n + i)
      ranked == FoldLeft(LAMBDA r, i : b_newvar(r, 0, n), NewBits(s.b, 2 * n), [i \in 1 .. n |-> i])
      anchors == Total([i \in 1 .. n |-> g(i)])
  IN IF n <= 1 THEN b
     ELSE IF n * n > SELECTORS THEN Declined(b)
     ELSE b_put(ranked,
       Assignment(s.z, n) \cup {NoneOrOne(anchors)}
       \cup UNION {{OneOf(Plus(in_c(i), X(s.z[<<i, i>>]))), AtMost(g(i), in_c(i)),
                    AtMost(in_c(i), anchors),
                    AtMost(Plus(ord(i), Scaled(n, g(i))), K(n + 1))} : i \in 1 .. n}
       \cup {AtMost(Plus(ord(p[1]), Scaled(n, X(s.z[p]))),
                    Plus(Plus(ord(p[2]), Scaled(n, g(p[2]))), K(n - 1))) :
               p \in {q \in DOMAIN s.z : q[1] # q[2]}})

inverse(b, c) ==
  LET f == c.a[1]
      inv == c.a[2]
      n == Len(f)
      t == Table(b, n, n)
      transposed == [p \in DOMAIN t.z |-> t.z[<<p[2], p[1]>>]]
      from(offset) == Numbers(offset, offset + n - 1)
  IN IF Len(inv) # n \/ n * n > SELECTORS THEN Declined(b)
     ELSE b_put(t.b, Assignment(t.z, n) \cup UNION
                     {{Equal(f[i], Chosen(t.z, i, from(c.a[4]))),
                       Equal(inv[i], Chosen(transposed, i, from(c.a[3])))} : i \in 1 .. n})

----------------------------------------------------------------------------
(* Scheduling and packing.                                                 *)

Before(n) == {p \in (1 .. n) \X (1 .. n) : p[1] < p[2]}

(* Of two tasks one ends before the other starts.                          *)
disjunctive(b, c) ==
  LET s == c.a[1]
      d == Ints(c.a[2])
      late(i, j) == Minus(Plus(s[i], K(d[i])), s[j])         \* > 0: i ends after j starts
      tasks == {p \in Before(Len(s)) : d[p[1]] > 0 /\ d[p[2]] > 0}
      hopeless == {p \in tasks : Low(b, late(p[1], p[2])) > 0 /\ Low(b, late(p[2], p[1])) > 0}
      pairs == Listed(tasks \ hopeless)
      M(f) == Magnitude(b, f) + One
      Gate(q, f) == Form((Top(b) + q) :> M(f), 0)
  IN IF Len(s) > SELECTORS \/ ~Consts(c.a[2]) THEN Declined(b)
     ELSE b_put(NewBits(b, Len(pairs)),
       (IF hopeless = {} THEN {} ELSE {IMPOSSIBLE}) \cup UNION
       {LET f == late(pairs[q][1], pairs[q][2])
            r == late(pairs[q][2], pairs[q][1])
        IN {LinRow("<", Plus(f, Gate(q, f)), M(f)), LinRow("<", Minus(r, Gate(q, r)), 0)} :
          q \in DOMAIN pairs})

(* Of two rectangles one ends before the other starts, in x or in y.       *)
diffn(b, c) ==
  LET n == Len(c.a[1])
      size(k) == Ints(c.a[k + 2])
      pairs == Listed({p \in Before(n) :
                           \A k \in {1, 2} : size(k)[p[1]] > 0 /\ size(k)[p[2]] > 0})
      t == Table(b, Len(pairs), 4)
      apart(q, k, i, j, bit) ==     \* in dimension k, i ends before j starts
        LET d == Minus(c.a[k][i], c.a[k][j])
            M == Magnitude(b, d) + One * (size(k)[i] + size(k)[j] + 1)
        IN LinRow("<", Plus(d, Form(t.z[<<q, bit>>] :> M, 0)), M - One * size(k)[i])
  IN IF n > SELECTORS \/ (n > 1 /\ ~(Consts(c.a[3]) /\ Consts(c.a[4]))) THEN Declined(b)
     ELSE b_put(t.b, UNION
       {{AtLeast(OfRow(t.z, q), K(1)),
         apart(q, 1, pairs[q][1], pairs[q][2], 1), apart(q, 1, pairs[q][2], pairs[q][1], 2),
         apart(q, 2, pairs[q][1], pairs[q][2], 3), apart(q, 2, pairs[q][2], pairs[q][1], 4)} :
          q \in DOMAIN pairs})

(* One selector for each start of each task; at every time the tasks that  *)
(* run need at most what there is.                                         *)
cumulative(b, c) ==
  LET s == c.a[1]
      d == Ints(c.a[2])
      r == Ints(c.a[3])
      busy == {i \in DOMAIN s : d[i] > 0 /\ r[i] > 0}
      lo(i) == Floor(Low(b, s[i]))
      hi(i) == Ceiling(High(b, s[i]))
      starts == Listed({<<i, k>> \in busy \X (Min({lo(i) : i \in busy}) .. Max({hi(i) : i \in busy})) :
                            k \in lo(i) .. hi(i)})
      Sum(P, w) == Weighted([v \in {Top(b) + q : q \in P} |-> w[starts[v - Top(b)]]])
      at(i) == {q \in DOMAIN starts : starts[q][1] = i}
      runs(t) == {q \in DOMAIN starts : starts[q][2] \in t - d[starts[q][1]] + 1 .. t}
      needs == [p \in Range(starts) |-> r[p[1]]]
      begins == [p \in Range(starts) |-> p[2]]
      once == [p \in Range(starts) |-> 1]
      times == Min({lo(i) : i \in busy}) .. Max({Floor(High(b, s[i])) + d[i] : i \in busy}) - 1
  IN IF s = << >> THEN b
     ELSE IF \/ ~IsInt(c.a[4]) \/ c.a[4].const < 0
             \/ \E i \in DOMAIN s : \E f \in {c.a[2][i], c.a[3][i]} : ~IsInt(f) \/ f.const < 0
     THEN Declined(b)
     ELSE IF busy = {} THEN b
     ELSE IF Len(starts) > SELECTORS THEN Declined(b)
     ELSE b_put(NewBits(b, Len(starts)),
       UNION {{Equal(Sum(at(i), once), K(1)), Equal(s[i], Sum(at(i), begins))} : i \in busy}
       \cup {AtMost(Sum(runs(t), needs), c.a[4]) : t \in times})
=============================================================================
