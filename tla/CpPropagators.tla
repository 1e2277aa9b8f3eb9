---------------------------- MODULE CpPropagators ----------------------------
(***************************************************************************)
(* The propagators of src/src/fz_cp.inc and the fixpoint loop that runs    *)
(* them (cp_propagate), from the declared domains and again after each     *)
(* assignment of the search.  The contract at the head of that file is     *)
(* that they remove only values that no solution can use.                  *)
(*                                                                         *)
(* A term is a variable or an integer; a domain is a set of values, kept   *)
(* as a list of them (listed) or as an interval when it is longer than     *)
(* CP_MAXVALS.  Linear sums are exact 128-bit integers that the code cuts  *)
(* to a word when it turns them into bounds (Wrap); a double converted to  *)
(* a word it does not fit becomes the smallest word (ToWord).  A failed    *)
(* propagator leaves the domains Dead, one that reads the list of a        *)
(* variable that has none leaves them Crashed.                             *)
(***************************************************************************)
EXTENDS OrbitFacts

CONSTANTS
  Vars,              \* the variables of the engine
  Problems,          \* the models it may be given (see ProblemsAssumption)
  CP_MAXVALS,        \* longest domain kept as a list
  DIVISORS,          \* room for the divisors of a product (1024 in the code)
  MaxWord            \* INT64_MAX

MinWord == -MaxWord - 1

ASSUME ProblemsAssumption ==
  \A m \in Problems : /\ m.dom \in [Vars -> (SUBSET (MinWord .. MaxWord)) \ {{}}]
                      /\ IsFiniteSet(DOMAIN m.next)
                      /\ DOMAIN m.next = 0 .. Cardinality(DOMAIN m.next) - 1
                      /\ m.next \in [DOMAIN m.next -> DOMAIN m.next]
ASSUME LimitsAssumption ==
  /\ IsFiniteSet(Vars) /\ CP_MAXVALS \in Nat \ {0} /\ DIVISORS \in Nat \ {0}
  /\ MaxWord \in Nat \ {0}

VARIABLES
  problem,   \* declared domains, constraints, the table of the orbit kinds
  root,      \* the values each variable had when cp_propagate was called
  dom,       \* the domains (CP.bounded, lo, hi, vals)
  at,        \* the constraint whose propagator is next
  changed,   \* CP.mutations moved in this pass
  facts,     \* the memo of the functional-graph facts (FZOrbit)
  verdict    \* "chain", "running", "fixpoint", "unsat" or "crash"

vars == <<problem, root, dom, at, changed, facts, verdict>>

----------------------------------------------------------------------------
(* Words.                                                                  *)

Wrap(x) == ((x - MinWord) % (MaxWord - MinWord + 1)) + MinWord
ToWord(x) == IF x \in MinWord .. MaxWord THEN x ELSE MinWord

floord(a, b) == IF b > 0 THEN a \div b ELSE (-a) \div (-b)
ceild(a, b) == -floord(-a, b)
Abs(x) == IF x < 0 THEN -x ELSE x
Divides(b, a) == a % Abs(b) = 0
Quotient(a, b) ==       \* C's a / b and a % b
  IF (a < 0) = (b < 0) THEN Abs(a) \div Abs(b) ELSE -(Abs(a) \div Abs(b))
Remainder(a, b) == a - b * Quotient(a, b)
Smaller(x, y) == IF x < y THEN x ELSE y
Larger(x, y) == IF x < y THEN y ELSE x

----------------------------------------------------------------------------
(* Domains.                                                                *)

Domain(listed, vals) == [listed |-> listed, vals |-> vals]
Declared(S) == Domain(Cardinality(S) <= CP_MAXVALS, S)
Dead == [v \in Vars |-> Domain(TRUE, {})]
Crashed == [v \in Vars |-> Domain(FALSE, {})]
Failed(d) == \E v \in Vars : d[v].vals = {}

isc(t) == t \notin Vars
Values(d, t) == IF isc(t) THEN {t} ELSE d[t].vals
cp_dmin(d, t) == Min(Values(d, t))
cp_dmax(d, t) == Max(Values(d, t))
cp_fixed(d, t) == Cardinality(Values(d, t)) = 1
Listed(d, t) == ~isc(t) /\ d[t].listed
Unreadable(d, t) == ~isc(t) /\ cp_fixed(d, t) /\ ~d[t].listed

(* cp_intersect; of a constant, the check the callers make in its place.   *)
cp_intersect(d, t, lo, hi) ==
  LET keep == {x \in Values(d, t) : lo <= x /\ x <= hi}
  IN IF keep = {} \/ Failed(d) THEN Dead
     ELSE IF isc(t) THEN d
     ELSE [d EXCEPT ![t] = Domain(@.listed \/ Cardinality(keep) <= CP_MAXVALS, keep)]

cp_set_vals(d, v, S) ==
  IF Failed(d) \/ S \intersect d[v].vals = {} THEN Dead
  ELSE [d EXCEPT ![v] = Domain(TRUE, S \intersect @.vals)]

(* Of an interval only an end is removed, and it stays an interval.        *)
cp_remove_val(d, v, x) ==
  IF ~d[v].listed /\ x \notin {cp_dmin(d, v), cp_dmax(d, v)} THEN d
  ELSE IF d[v].vals = {x} THEN Dead
  ELSE [d EXCEPT ![v].vals = @ \ {x}]

cp_assign(d, v, x) == [d EXCEPT ![v] = Domain(TRUE, {x})]
cp_equate(d, t, x) == cp_intersect(d, t, x, x)

----------------------------------------------------------------------------
(* Linear constraints: the sum of coef[i] * var[i], rel, rhs.              *)

Least(d, c, i) == c.coef[i] * (IF c.coef[i] > 0 THEN cp_dmin(d, c.var[i]) ELSE cp_dmax(d, c.var[i]))
Most(d, c, i) == c.coef[i] * (IF c.coef[i] > 0 THEN cp_dmax(d, c.var[i]) ELSE cp_dmin(d, c.var[i]))
Others(c, k) == DOMAIN c.var \ {k}
FreeTerms(d, c) == {i \in DOMAIN c.var : c.coef[i] # 0 /\ ~cp_fixed(d, c.var[i])}
FixedSum(d, c) == MapThenSumSet(LAMBDA i : Least(d, c, i), {i \in DOMAIN c.var : cp_fixed(d, c.var[i])})

Holds(rel, sum, rhs) ==
  CASE rel = "eq" -> sum = rhs
    [] rel = "ne" -> sum # rhs
    [] rel = "le" -> sum <= rhs
    [] rel = "ge" -> sum >= rhs
    [] rel = "lt" -> sum < rhs
    [] rel = "gt" -> sum > rhs

LinDisequality(d, c) ==
  IF Cardinality(FreeTerms(d, c)) # 1 THEN d
  ELSE LET k == CHOOSE i \in FreeTerms(d, c) : TRUE
           need == c.rhs - FixedSum(d, c)
       IN IF Divides(c.coef[k], need)
          THEN cp_remove_val(d, c.var[k], Wrap(Quotient(need, c.coef[k])))
          ELSE d

(* The bounds that the other terms leave for term k.                       *)
LinBounds(d, c, k) ==
  LET v == c.var[k]
      a == c.coef[k]
      most == (IF c.rel = "lt" THEN c.rhs - 1 ELSE c.rhs)
                - MapThenSumSet(LAMBDA i : Least(d, c, i), Others(c, k))
      least == (IF c.rel = "gt" THEN c.rhs + 1 ELSE c.rhs)
                - MapThenSumSet(LAMBDA i : Most(d, c, i), Others(c, k))
      above == c.rel \notin {"ge", "gt"}     \* a * v is at most most
      below == c.rel \notin {"le", "lt"}     \* a * v is at least least
      lo == IF a > 0 /\ below THEN Wrap(ceild(least, a))
            ELSE IF a < 0 /\ above THEN Wrap(ceild(most, a)) ELSE cp_dmin(d, v)
      hi == IF a > 0 /\ above THEN Wrap(floord(most, a))
            ELSE IF a < 0 /\ below THEN Wrap(floord(least, a)) ELSE cp_dmax(d, v)
  IN IF a = 0 \/ cp_fixed(d, v) THEN d ELSE cp_intersect(d, v, lo, hi)

cp_prop_lin(d, c) ==
  IF FreeTerms(d, c) = {} THEN IF Holds(c.rel, FixedSum(d, c), c.rhs) THEN d ELSE Dead
  ELSE IF c.rel = "ne" THEN LinDisequality(d, c)
  ELSE FoldLeft(LAMBDA e, k : IF Failed(e) THEN e ELSE LinBounds(e, c, k),
                d, [k \in DOMAIN c.var |-> k])

----------------------------------------------------------------------------
(* all_different(term[1], ..., term[n]).                                   *)

RemoveElsewhere(d, c, i) ==     \* the value of the fixed term i
  FoldLeft(LAMBDA e, j : IF Failed(e) \/ j = i \/ isc(c.term[j]) THEN e
                         ELSE cp_remove_val(e, c.term[j], cp_dmin(d, c.term[i])),
           d, [j \in DOMAIN c.term |-> j])

Singletons(d, c) ==
  FoldLeft(LAMBDA e, i : IF Failed(e) \/ ~cp_fixed(e, c.term[i]) THEN e
                         ELSE IF Unreadable(e, c.term[i]) THEN Crashed
                         ELSE RemoveElsewhere(e, c, i),
           d, [i \in DOMAIN c.term |-> i])

MatchedTerms(d, c) == {i \in DOMAIN c.term : Listed(d, c.term[i]) /\ ~cp_fixed(d, c.term[i])}

Options(d, c) == [i \in MatchedTerms(d, c) |-> d[c.term[i]].vals]

(* cp_aug: a matching that gives every term an option of its own.          *)
Matches(options) ==
  \E f \in [DOMAIN options -> UNION {options[i] : i \in DOMAIN options}] :
     /\ \A i \in DOMAIN options : f[i] \in options[i]
     /\ \A i, j \in DOMAIN options : i # j => f[i] # f[j]

Supported(d, c, i, x) == Matches([Options(d, c) EXCEPT ![i] = {x}])

Prune_FeasibleOnly(d, c) == IF Failed(d) \/ Matches(Options(d, c)) THEN d ELSE Dead
Prune_ForcesUnique(d, c) ==     \* a value of one domain only is taken to be needed
  LET Unique(v) == {x \in d[v].vals :
        \E i \in MatchedTerms(d, c) : c.term[i] = v /\
          \A j \in MatchedTerms(d, c) \ {i} : x \notin d[c.term[j]].vals}
  IN [v \in Vars |-> IF Unique(v) = {} THEN d[v] ELSE Domain(TRUE, {Min(Unique(v))})]
Prune(d, c) ==      \* the values of no complete matching
  IF Failed(d) THEN d
  ELSE IF ~Matches(Options(d, c)) THEN Dead
  ELSE [v \in Vars |-> [d[v] EXCEPT !.vals =
          {x \in @ : \A i \in MatchedTerms(d, c) : c.term[i] = v => Supported(d, c, i, x)}]]

PruneRound(d, c) ==
  LET e == Prune(d, c) IN IF e = d THEN d ELSE Singletons(e, c)

cp_prop_alldiff(d, c) ==    \* until a round prunes nothing
  FoldLeft(LAMBDA e, t : PruneRound(e, c), Singletons(d, c), c.term)

----------------------------------------------------------------------------
(* c = a * b.                                                              *)

Small(n) == {k \in 1 .. Abs(n) : k * k <= Abs(n) /\ Divides(k, n)}

(* cp_divisors lists k, -k, n/k, -n/k for k = 1, 2, ... while there is     *)
(* room for them.                                                          *)
cp_divisors(n, room) ==
  LET Place(e) ==
        LET k == Smaller(Abs(e), Abs(n) \div Abs(e))
        IN 4 * Cardinality({j \in Small(n) : j < k})
             + (IF Abs(e) = k THEN 0 ELSE 2) + (IF e > 0 THEN 1 ELSE 2)
      listed == UNION {{k, -k, Abs(n) \div k, -(Abs(n) \div k)} : k \in Small(n)}
  IN {e \in listed : Place(e) <= room}

TimesByConstant(d, a, b, c) ==      \* a is an integer, b is not fixed
  IF a = 0 THEN cp_equate(d, c, 0)
  ELSE IF isc(c) THEN IF Divides(a, c) THEN cp_equate(d, b, Quotient(c, a)) ELSE Dead
  ELSE LET e == IF Listed(d, b) /\ Listed(d, c)
                THEN cp_set_vals(d, b, {Quotient(z, a) : z \in {y \in d[c].vals : Divides(a, y)}})
                ELSE cp_intersect(d, b, Wrap(ceild(cp_dmin(d, c), a)), Wrap(floord(cp_dmax(d, c), a)))
           one == Wrap(a * cp_dmin(e, b))
           other == Wrap(a * cp_dmax(e, b))
       IN IF Failed(e) THEN Dead
          ELSE cp_intersect(e, c, IF a > 0 THEN one ELSE other, IF a > 0 THEN other ELSE one)

TimesOfVariables(d, a, b, c) ==
  LET corners == {x * y : x \in {cp_dmin(d, a), cp_dmax(d, a)}, y \in {cp_dmin(d, b), cp_dmax(d, b)}}
  IN IF corners \subseteq MinWord .. MaxWord THEN cp_intersect(d, c, Min(corners), Max(corners)) ELSE d

cp_prop_times(d, r) ==
  LET av == cp_dmin(d, r.a)
      bv == cp_dmin(d, r.b)
      cv == cp_dmin(d, r.c)
      divisors == cp_divisors(cv, DIVISORS)
      Fixed(t) == cp_fixed(d, t)
  IN CASE Fixed(r.a) /\ Fixed(r.b) ->
            IF av * bv \in MinWord .. MaxWord THEN cp_equate(d, r.c, av * bv) ELSE Dead
       [] Fixed(r.a) /\ ~Fixed(r.b) -> TimesByConstant(d, av, r.b, r.c)
       [] ~Fixed(r.a) /\ Fixed(r.b) -> TimesByConstant(d, bv, r.a, r.c)
       [] ~Fixed(r.a) /\ ~Fixed(r.b) /\ ~Fixed(r.c) -> TimesOfVariables(d, r.a, r.b, r.c)
       [] ~Fixed(r.a) /\ ~Fixed(r.b) /\ Fixed(r.c) ->
            IF cv = 0 THEN d
            ELSE IF r.a = r.b THEN cp_set_vals(d, r.a, {q \in -Abs(cv) .. Abs(cv) : q * q = cv})
            ELSE cp_set_vals(cp_set_vals(d, r.a, divisors), r.b, divisors)

----------------------------------------------------------------------------
(* c = a / k and c = a % k, rounded towards zero; c = |a|; c = a ^ e.      *)

cp_prop_divmod(d, r) ==
  LET Op(a) == IF r.kind = "div" THEN Quotient(a, r.k) ELSE Remainder(a, r.k)
      e == cp_set_vals(d, r.a, {x \in d[r.a].vals : Op(x) \in d[r.c].vals})
  IN IF r.k = 0 THEN Dead
     ELSE IF cp_fixed(d, r.a) THEN cp_equate(d, r.c, Op(cp_dmin(d, r.a)))
     ELSE IF Listed(d, r.a) /\ Listed(d, r.c) THEN cp_set_vals(e, r.c, {Op(x) : x \in e[r.a].vals})
     ELSE d

cp_prop_abs(d, r) ==
  LET c == cp_dmin(d, r.c)
      m == ToWord(Larger(Abs(cp_dmin(d, r.a)), Abs(cp_dmax(d, r.a))))
  IN IF cp_fixed(d, r.a) THEN cp_equate(d, r.c, Abs(cp_dmin(d, r.a)))
     ELSE IF cp_fixed(d, r.c) THEN IF c < 0 THEN Dead ELSE cp_set_vals(d, r.a, {c, -c})
     ELSE cp_intersect(cp_intersect(d, r.c, 0, m), r.a, Wrap(-m), m)

PowOf(b, e) == LET p[i \in 0 .. e] == IF i = 0 THEN 1 ELSE b * p[i - 1] IN p[e]

cp_prop_pow(d, r) ==
  LET lo == PowOf(cp_dmin(d, r.a), r.e)
      hi == PowOf(cp_dmax(d, r.a), r.e)
      c == cp_dmin(d, r.c)
  IN CASE r.e = 0 -> cp_equate(d, r.c, 1)
       [] r.e > 0 /\ cp_fixed(d, r.a) ->
            IF lo \in MinWord .. MaxWord THEN cp_equate(d, r.c, lo)
            ELSE IF cp_fixed(d, r.c) \/ Listed(d, r.c) THEN Dead ELSE d
       [] r.e > 0 /\ ~cp_fixed(d, r.a) /\ cp_fixed(d, r.c) ->
            IF r.e = 1 THEN cp_equate(d, r.a, c)
            ELSE IF r.e % 2 = 0 /\ c < 0 THEN Dead
            ELSE IF Listed(d, r.a)
                 THEN cp_set_vals(d, r.a, {b \in d[r.a].vals : PowOf(b, r.e) = c}) ELSE d
       [] r.e > 0 /\ ~cp_fixed(d, r.a) /\ ~cp_fixed(d, r.c) ->
            cp_intersect(d, r.c, ToWord(Smaller(lo, hi)), ToWord(Larger(lo, hi)))

----------------------------------------------------------------------------
(* y = arr[index - offset]; x in set; m = min or max of a and b.           *)

EquateTerms(d, e, y) ==     \* an entry that is not fixed and the result
  LET lo == Larger(cp_dmin(d, e), cp_dmin(d, y))
      hi == Smaller(cp_dmax(d, e), cp_dmax(d, y))
      both == cp_intersect(cp_intersect(d, e, lo, hi), y, lo, hi)
  IN IF isc(y) THEN cp_equate(d, e, y)
     ELSE IF e = y THEN d
     ELSE IF Failed(both) THEN Dead
     ELSE IF cp_fixed(both, e) /\ cp_fixed(both, y) /\ Values(both, e) # Values(both, y) THEN Dead
     ELSE both

cp_prop_elem(d, r) ==
  LET Entry(i) == r.arr[i - r.offset + 1]
      last == r.offset + Len(r.arr) - 1
      i == cp_dmin(d, r.index)
      e == IF cp_fixed(d, r.y) /\ Listed(d, r.index)
           THEN cp_set_vals(d, r.index,
                  {j \in d[r.index].vals \intersect (r.offset .. last) :
                     Values(d, r.y) \subseteq Values(d, Entry(j))})
           ELSE d
  IN IF ~cp_fixed(d, r.index) THEN cp_intersect(e, r.index, r.offset, last)
     ELSE IF i \notin r.offset .. last THEN Dead
     ELSE IF cp_fixed(d, Entry(i)) THEN cp_equate(d, r.y, cp_dmin(d, Entry(i)))
     ELSE EquateTerms(d, Entry(i), r.y)

cp_prop_setin(d, r) ==
  IF isc(r.x) THEN IF r.x \in r.set THEN d ELSE Dead
  ELSE IF Listed(d, r.x) THEN cp_set_vals(d, r.x, r.set)
  ELSE cp_intersect(d, r.x, Min(r.set), Max(r.set))

Within(d, t, lo, hi) ==
  IF Values(d, t) \subseteq lo .. hi THEN d ELSE cp_intersect(d, t, lo, hi)

MaxBoundedBy(d, a, b, m) ==     \* max(a, b) = m, m fixed
  LET CanReach(t) == cp_dmax(d, t) >= m
      capped == Within(Within(d, a, cp_dmin(d, a), m), b, cp_dmin(d, b), m)
  IN IF ~CanReach(a) /\ ~CanReach(b) THEN Dead
     ELSE IF ~CanReach(a) THEN cp_equate(capped, b, m)
     ELSE IF ~CanReach(b) THEN cp_equate(capped, a, m)
     ELSE capped

MinBoundedBy(d, a, b, m) ==     \* min(a, b) = m, m fixed
  LET CanReach(t) == cp_dmin(d, t) <= m
      capped == Within(Within(d, a, m, cp_dmax(d, a)), b, m, cp_dmax(d, b))
  IN IF ~CanReach(a) /\ ~CanReach(b) THEN Dead
     ELSE IF ~CanReach(a) THEN cp_equate(capped, b, m)
     ELSE IF ~CanReach(b) THEN cp_equate(capped, a, m)
     ELSE capped

cp_prop_minmax(d, r) ==
  LET Best(x, y) == IF r.ismax THEN Larger(x, y) ELSE Smaller(x, y)
      lo == Best(cp_dmin(d, r.a), cp_dmin(d, r.b))
      hi == Best(cp_dmax(d, r.a), cp_dmax(d, r.b))
  IN IF (isc(r.a) /\ isc(r.b)) \/ ~cp_fixed(d, r.m) THEN cp_intersect(d, r.m, lo, hi)
     ELSE IF r.ismax THEN MaxBoundedBy(d, r.a, r.b, cp_dmin(d, r.m))
     ELSE MinBoundedBy(d, r.a, r.b, cp_dmin(d, r.m))

----------------------------------------------------------------------------
(* Booleans: r <-> linear, at least one of pos or not one of neg,          *)
(* out <-> conjunction of ins.                                             *)

Negation(rel) == [eq |-> "ne", ne |-> "eq", le |-> "gt", gt |-> "le", ge |-> "lt", lt |-> "ge"][rel]

cp_prop_reif(d, c) ==
  IF isc(c.r) THEN d
  ELSE IF cp_fixed(d, c.r)
  THEN cp_prop_lin(d, IF Values(d, c.r) = {1} THEN c ELSE [c EXCEPT !.rel = Negation(@)])
  ELSE IF \A i \in DOMAIN c.var : cp_fixed(d, c.var[i])
  THEN cp_assign(d, c.r, IF Holds(c.rel, FixedSum(d, c), c.rhs) THEN 1 ELSE 0)
  ELSE d

cp_prop_clause(d, c) ==
  LET satisfied == \/ \E i \in DOMAIN c.pos : Values(d, c.pos[i]) = {1}
                   \/ \E i \in DOMAIN c.neg : Values(d, c.neg[i]) = {0}
      Open(lits) == {i \in DOMAIN lits : ~cp_fixed(d, lits[i])}
      open == Cardinality(Open(c.pos)) + Cardinality(Open(c.neg))
  IN IF satisfied \/ open > 1 THEN d
     ELSE IF open = 0 THEN Dead
     ELSE IF Open(c.pos) # {} THEN cp_assign(d, c.pos[CHOOSE i \in Open(c.pos) : TRUE], 1)
     ELSE cp_assign(d, c.neg[CHOOSE i \in Open(c.neg) : TRUE], 0)

AllInputs(d, ins, lo, hi) ==
  FoldLeft(LAMBDA e, t : IF Failed(e) THEN e ELSE cp_intersect(e, t, lo, hi), d, ins)

cp_prop_and(d, c) ==
  LET out == cp_intersect(d, c.out, 0, 1)
      ins == AllInputs(out, c.ins, 0, 1)
      Open == {i \in DOMAIN c.ins : ~cp_fixed(ins, c.ins[i])}
  IN IF Failed(out) THEN Dead
     ELSE IF Values(out, c.out) = {1} THEN AllInputs(out, c.ins, 1, 1)
     ELSE IF Failed(ins) THEN Dead
     ELSE IF \E i \in DOMAIN c.ins : Values(ins, c.ins[i]) = {0} THEN cp_equate(ins, c.out, 0)
     ELSE IF Open = {} THEN cp_equate(ins, c.out, 1)
     ELSE IF Values(ins, c.out) = {0} /\ Cardinality(Open) = 1
     THEN cp_equate(ins, c.ins[CHOOSE i \in Open : TRUE], 0)
     ELSE ins

----------------------------------------------------------------------------
(* orbit_len, orbit_transient, orbit_cycle_len, orbit_len_capped and       *)
(* on_cycle over the table next.                                           *)

States == Cardinality(DOMAIN problem.next)

FactRange(c) ==
  CASE c.kind = "transient" -> <<0, States - 1>>
    [] c.kind = "capped" -> <<1, Smaller(c.cap, States)>>
    [] c.kind \in {"orbit", "cycle"} -> <<1, States>>

OrbitDomains(d, c) ==       \* what the propagator starts from
  LET start == cp_intersect(d, c.s, 0, States - 1)
  IN IF c.kind = "oncycle" THEN start
     ELSE cp_intersect(start, c.y, FactRange(c)[1], FactRange(c)[2])

Asked(d, c) ==              \* the states whose facts it asks for
  IF ~Failed(d) /\ (cp_fixed(d, c.s) \/ Listed(d, c.s)) THEN Values(d, c.s) ELSE {}

cp_prop_orbit_gen(d, c, memo) ==
  LET fact(s) == fg_fact(memo, s, c.kind, c.cap)
      keep == {s \in Values(d, c.s) : fact(s) \in cp_dmin(d, c.y) .. cp_dmax(d, c.y)}
      attained == {fact(s) : s \in keep}
  IN IF Failed(d) THEN Dead
     ELSE IF cp_fixed(d, c.s) THEN cp_equate(d, c.y, fact(cp_dmin(d, c.s)))
     ELSE IF ~Listed(d, c.s) THEN d
     ELSE IF keep = {} THEN Dead
     ELSE cp_intersect(cp_set_vals(d, c.s, keep), c.y, Min(attained), Max(attained))

cp_prop_oncycle(d, c, memo) ==
  LET keep == {s \in Values(d, c.s) : memo[s].tr = 0}
  IN IF Failed(d) THEN Dead
     ELSE IF cp_fixed(d, c.s) THEN IF keep = {} THEN Dead ELSE d
     ELSE IF ~Listed(d, c.s) THEN d ELSE cp_set_vals(d, c.s, keep)

----------------------------------------------------------------------------
(* cp_bound_diophantine: once, before the search, the variables of every   *)
(* product connected to one that equals a constant are restricted to the   *)
(* divisors of that constant.                                              *)

Products == {problem.cons[i] : i \in {j \in DOMAIN problem.cons : problem.cons[j].kind = "times"}}
VarsOf(r) == {r.a, r.b, r.c} \intersect Vars
FirstProduct ==     \* position of the first product with a fixed nonzero result
  LET P == {i \in DOMAIN problem.cons :
              /\ problem.cons[i].kind = "times"
              /\ cp_fixed(dom, problem.cons[i].c)
              /\ cp_dmin(dom, problem.cons[i].c) # 0}
  IN IF P = {} THEN 0 ELSE Min(P)

Chain(C) ==         \* the variables connected to a product equal to C
  LET seed == UNION {VarsOf(r) : r \in {q \in Products : Values(dom, q.c) = {C}}}
      close[k \in 0 .. Cardinality(Vars)] ==
        IF k = 0 THEN seed
        ELSE close[k - 1] \union UNION {VarsOf(r) : r \in {q \in Products : VarsOf(q) \intersect close[k - 1] # {}}}
  IN close[Cardinality(Vars)]

cp_bound_diophantine ==
  IF FirstProduct = 0 THEN dom
  ELSE LET C == cp_dmin(dom, problem.cons[FirstProduct].c)
       IN FoldSet(LAMBDA v, d : cp_set_vals(d, v, cp_divisors(C, 2 * DIVISORS)), dom, Chain(C))

----------------------------------------------------------------------------
(* cp_propagate.                                                           *)

Init ==
  /\ problem \in Problems
  /\ root = problem.dom
  /\ dom = [v \in Vars |-> Declared(problem.dom[v])]
  /\ at = 1
  /\ changed = FALSE
  /\ facts = << >>
  /\ verdict = "chain"

Verdict(d, otherwise) ==
  IF d = Crashed THEN "crash" ELSE IF Failed(d) THEN "unsat" ELSE otherwise

BoundChain ==
  /\ verdict = "chain"
  /\ dom' = cp_bound_diophantine
  /\ verdict' = Verdict(dom', "running")
  /\ UNCHANGED <<problem, root, at, changed, facts>>

constraint == problem.cons[at]

(* A term whose list the propagator reads when it finds it fixed.          *)
ReadFirst(c) ==
  CASE c.kind \in {"lin", "reif"} -> Range(c.var)
    [] c.kind \in {"times", "div", "mod", "abs", "pow"} -> {c.a, c.c}
    [] c.kind = "elem" -> {c.index, c.y}
    [] c.kind = "minmax" -> {c.m}
    [] OTHER -> {}

(* CP.mutations counts every write of a domain but the removal of an end   *)
(* of an interval.                                                         *)
Removes(d, c) ==
  \/ c.kind = "alldiff"
  \/ c.kind = "lin" /\ c.rel = "ne"
  \/ c.kind = "reif" /\ c.rel = "ne" /\ Values(d, c.r) = {1}
  \/ c.kind = "reif" /\ c.rel = "eq" /\ Values(d, c.r) = {0}
Mutates_CountsRewrites(d, e, c) ==      \* cp_set_vals counts also what it leaves as it was
  d # e \/ c.kind \in {"div", "mod", "setin", "oncycle"}
Mutates(d, e, c) == \E v \in Vars : d[v] # e[v] /\ (e[v].listed \/ ~Removes(d, c))

Run(kinds, new) ==      \* one turn of the loop over the constraints
  /\ verdict = "running" /\ at \in DOMAIN problem.cons
  /\ constraint.kind \in kinds
  /\ \E d \in {IF \E t \in ReadFirst(constraint) : Unreadable(dom, t) THEN Crashed ELSE new} :
       /\ dom' = d
       /\ changed' = (changed \/ Mutates(dom, d, constraint))
       /\ verdict' = Verdict(d, "running")
  /\ at' = at + 1
  /\ UNCHANGED <<problem, root>>

Plain(kind, new) == Run({kind}, new) /\ UNCHANGED facts

Lin == Plain("lin", cp_prop_lin(dom, constraint))
AllDiff == Plain("alldiff", cp_prop_alldiff(dom, constraint))
Times == Plain("times", cp_prop_times(dom, constraint))
Div == Plain("div", cp_prop_divmod(dom, constraint))
Mod == Plain("mod", cp_prop_divmod(dom, constraint))
AbsVal == Plain("abs", cp_prop_abs(dom, constraint))
Elem == Plain("elem", cp_prop_elem(dom, constraint))
SetIn == Plain("setin", cp_prop_setin(dom, constraint))
Pow == Plain("pow", cp_prop_pow(dom, constraint))
Reif == Plain("reif", cp_prop_reif(dom, constraint))
Clause == Plain("clause", cp_prop_clause(dom, constraint))
MinMax == Plain("minmax", cp_prop_minmax(dom, constraint))
And == Plain("and", cp_prop_and(dom, constraint))

OrbitLike ==
  LET start == OrbitDomains(dom, constraint)
  IN /\ verdict = "running" /\ at \in DOMAIN problem.cons
     /\ constraint.kind \in {"orbit", "transient", "cycle", "capped", "oncycle"}
     /\ facts' = Learn(facts, problem.next, Asked(start, constraint))
     /\ \/ Run({"orbit", "transient", "cycle", "capped"}, cp_prop_orbit_gen(start, constraint, facts'))
        \/ Run({"oncycle"}, cp_prop_oncycle(start, constraint, facts'))

NextPass ==
  /\ verdict = "running" /\ at \notin DOMAIN problem.cons
  /\ IF changed THEN at' = 1 /\ UNCHANGED verdict ELSE verdict' = "fixpoint" /\ UNCHANGED at
  /\ changed' = FALSE
  /\ UNCHANGED <<problem, root, dom, facts>>

(* The search: some variable that is not fixed and has a list takes one of  *)
(* its values.                                                             *)
Branch ==
  /\ verdict = "fixpoint"
  /\ \E v \in Vars : \E x \in dom[v].vals :
       /\ dom[v].listed /\ ~cp_fixed(dom, v)
       /\ dom' = cp_assign(dom, v, x)
       /\ root' = [u \in Vars |-> dom'[u].vals]
  /\ at' = 1
  /\ verdict' = "running"
  /\ UNCHANGED <<problem, changed, facts>>

Propagate ==
  \/ BoundChain \/ NextPass
  \/ Lin \/ AllDiff \/ Times \/ Div \/ Mod \/ AbsVal \/ Elem \/ SetIn \/ Pow
  \/ Reif \/ Clause \/ MinMax \/ And \/ OrbitLike

Next == Propagate \/ Branch
Spec == Init /\ [][Next]_vars

(* Weak fairness of Propagate, which is enabled exactly while there is     *)
(* Work: the program does not stop in the middle of cp_propagate.          *)
Work == verdict \in {"chain", "running"}
FairSpec == Spec /\ ([]<>~Work \/ []<><<Work>>_vars)

----------------------------------------------------------------------------
(* What a solution is (cp_verify).                                         *)

Satisfies(p, c, next) ==
  LET Val(t) == IF isc(t) THEN t ELSE p[t]
      sum == MapThenSumSet(LAMBDA i : c.coef[i] * p[c.var[i]], DOMAIN c.var)
      truth == TrueFact(next, Val(c.s))
      inside == Val(c.s) \in DOMAIN next
  IN CASE c.kind = "lin" -> Holds(c.rel, sum, c.rhs)
       [] c.kind = "alldiff" -> \A i, j \in DOMAIN c.term : i # j => Val(c.term[i]) # Val(c.term[j])
       [] c.kind = "times" -> Val(c.c) = Val(c.a) * Val(c.b)
       [] c.kind = "div" -> Val(c.c) = Quotient(Val(c.a), c.k)
       [] c.kind = "mod" -> Val(c.c) = Remainder(Val(c.a), c.k)
       [] c.kind = "abs" -> Val(c.c) = Abs(Val(c.a))
       [] c.kind = "pow" -> Val(c.c) = PowOf(Val(c.a), c.e)
       [] c.kind = "elem" -> /\ Val(c.index) - c.offset + 1 \in DOMAIN c.arr
                             /\ Val(c.y) = Val(c.arr[Val(c.index) - c.offset + 1])
       [] c.kind = "setin" -> Val(c.x) \in c.set
       [] c.kind = "minmax" -> Val(c.m) = IF c.ismax THEN Larger(Val(c.a), Val(c.b))
                                          ELSE Smaller(Val(c.a), Val(c.b))
       [] c.kind = "reif" -> Val(c.r) = (IF Holds(c.rel, sum, c.rhs) THEN 1 ELSE 0)
       [] c.kind = "clause" -> \/ \E i \in DOMAIN c.pos : Val(c.pos[i]) = 1
                               \/ \E i \in DOMAIN c.neg : Val(c.neg[i]) = 0
       [] c.kind = "and" -> Val(c.out) = (IF \A i \in DOMAIN c.ins : Val(c.ins[i]) = 1 THEN 1 ELSE 0)
       [] c.kind = "oncycle" -> inside /\ truth.tr = 0
       [] c.kind = "orbit" -> inside /\ Val(c.y) = truth.orb
       [] c.kind = "transient" -> inside /\ Val(c.y) = truth.tr
       [] c.kind = "cycle" -> inside /\ Val(c.y) = truth.cl
       [] c.kind = "capped" -> inside /\ Val(c.y) = Smaller(truth.orb, c.cap)

Points(box) ==      \* the functions p with p[v] \in box[v]
  LET over[S \in SUBSET Vars] ==
        IF S = {} THEN {<< >>}
        ELSE LET v == CHOOSE u \in S : TRUE
             IN {[u \in S |-> IF u = v THEN a ELSE p[u]] : p \in over[S \ {v}], a \in box[v]}
  IN over[Vars]
cp_verify(p) == \A i \in DOMAIN problem.cons : Satisfies(p, problem.cons[i], problem.next)
Solutions(box) == {p \in Points(box) : cp_verify(p)}

----------------------------------------------------------------------------

(* Every domain is a set of words, a list when it is short, and the loop   *)
(* stands at one of the constraints.                                       *)
TypeOK ==
  /\ root \in [Vars -> SUBSET (MinWord .. MaxWord)]
  /\ \A v \in Vars : dom[v].vals \subseteq MinWord .. MaxWord /\ dom[v].listed \in BOOLEAN
  /\ at \in 1 .. Len(problem.cons) + 1
  /\ changed \in BOOLEAN
  /\ DOMAIN facts \subseteq DOMAIN problem.next
  /\ verdict \in {"chain", "running", "fixpoint", "unsat", "crash"}

(* The contract of fz_cp.inc:15-20: whatever the propagators have done     *)
(* since cp_propagate was called, no solution in the domains it was given  *)
(* has lost a value; so "unsat" means that there was none.                 *)
KeepsSolutions ==
  verdict # "crash" =>
    \A p \in Solutions(root) : \A v \in Vars : p[v] \in dom[v].vals

(* At a fixpoint every value left to a listed variable of an all_different *)
(* is part of an assignment of different values to all its listed          *)
(* variables (cp_prop_alldiff: "maximum-matching arc consistency").        *)
AllDiffIsConsistent ==
  verdict = "fixpoint" =>
    \A k \in DOMAIN problem.cons :
      LET c == problem.cons[k]
          L == {i \in DOMAIN c.term : Listed(dom, c.term[i])}
      IN c.kind = "alldiff" =>
           \A i \in L : \A x \in dom[c.term[i]].vals :
             \E f \in [L -> UNION {dom[c.term[j]].vals : j \in L}] :
                /\ f[i] = x
                /\ \A j \in L : f[j] \in dom[c.term[j]].vals
                /\ \A j, l \in L : j # l => f[j] # f[l]

(* At a fixpoint with every variable fixed there is nothing left for the   *)
(* search to reject: the propagators together decide every constraint.     *)
(* Of a variable fixed without a list that is not asked: the removal that  *)
(* fixed it was not counted, and cp_verify is what rejects such a leaf.    *)
(* And each all_different is then as consistent as cp_prop_alldiff says.   *)
Assigned(d) == \A v \in Vars : cp_fixed(d, v) /\ ~Unreadable(d, v)
Leaf(d) == [v \in Vars |-> cp_dmin(d, v)]
FixpointDecides ==
  /\ verdict = "fixpoint" /\ Assigned(dom) => cp_verify(Leaf(dom))
  /\ AllDiffIsConsistent

(* The memo, filled in any order by any constraint on any branch, holds    *)
(* only true facts of the table ("PROVEN functional-graph facts").         *)
FactsExact ==
  \A s \in DOMAIN facts : facts[s] = TrueFact(problem.next, s)

(* Every call of cp_propagate returns: a pass that writes nothing ends it, *)
(* and only a real write starts another.                                   *)
PropagationEnds == Work ~> ~Work
=============================================================================
