------------------------------ MODULE FxArith ------------------------------
(***************************************************************************)
(* The rational arithmetic of src/src/fx_core.inc, which is compiled at    *)
(* two widths: a narrow core with a type twice as wide at hand, and a wide *)
(* core without one.  A number is a fraction of two machine words.  What   *)
(* does not fit is Lost (the sticky overflow flag, which abandons the      *)
(* solve).  Negating the lowest word is not checked: the build leaves it   *)
(* as it is, and "wrapped" remembers that this has happened on the way to  *)
(* a number.                                                               *)
(***************************************************************************)
EXTENDS Integers

CONSTANT Width                    \* bits of the narrow word: 64 in the code

ASSUME WidthAssumption == Width \in 3..7

Cores == {"narrow", "wide"}
Bits(k) == IF k = "narrow" THEN Width ELSE 2 * Width
Lowest(k) == -(2 ^ (Bits(k) - 1))
Highest(k) == 2 ^ (Bits(k) - 1) - 1
Fits(k, x) == Lowest(k) <= x /\ x <= Highest(k)
Magnitude(x) == IF x < 0 THEN -x ELSE x

Fraction(n, d) == [num |-> n, den |-> d, wrapped |-> FALSE]
Zero == Fraction(0, 1)
One == Fraction(1, 1)
Lost == Fraction(0, 0)

----------------------------------------------------------------------------
gcd[u \in Nat, v \in Nat] == IF v = 0 THEN u ELSE gcd[v, u % v]

(* -x on a word: the lowest word has no negative.                          *)
Negated(k, x) == IF x = Lowest(k) THEN x ELSE -x

(* A denominator is kept positive by negating both words.                  *)
Upright(k, n, d) == IF d < 0 THEN Fraction(Negated(k, n), Negated(k, d)) ELSE Fraction(n, d)

(* Division of both words by a common divisor, which is itself the lowest  *)
(* word when both are.                                                     *)
Cancelled(k, r, g) == IF g > Highest(k) THEN One ELSE Fraction(r.num \div g, r.den \div g)
Reduced(k, r) == Cancelled(k, r, gcd[Magnitude(r.num), Magnitude(r.den)])

mk(k, n, d) ==
  IF n = 0 THEN Zero ELSE IF d = 0 THEN Lost ELSE Reduced(k, Upright(k, n, d))

(* The same of two words without a common divisor.                         *)
mk_reduced(k, n, d) ==
  IF n = 0 THEN Zero ELSE IF d = 0 THEN Lost ELSE Upright(k, n, d)

(* Reduce in the double width, then narrow.                                *)
fix_wide_Truncated(n, d) ==                       \* the bits that do not fit are cut off
  LET g == gcd[Magnitude(n), Magnitude(d)]
      Word(x) == ((x + 2 ^ (Width - 1)) % (2 ^ Width)) - 2 ^ (Width - 1)
  IN IF n = 0 THEN Zero ELSE Fraction(Word(n \div g), Word(d \div g))

fix_wide(n, d) ==
  LET Narrow(r) == IF Fits("narrow", r.num) /\ r.den <= Highest("narrow") THEN r ELSE Lost
  IN IF n = 0 THEN Zero ELSE IF d = 0 THEN Lost
     ELSE Narrow(Reduced("wide", IF d < 0 THEN Fraction(-n, -d) ELSE Fraction(n, d)))

(* An operation on a lost number is lost; a wrapped one stays wrapped.     *)
Taint(a, b, r) ==
  IF a.den = 0 \/ b.den = 0 \/ r.den = 0 THEN Lost
  ELSE [r EXCEPT !.wrapped = a.wrapped \/ b.wrapped]

neg(k, a) ==
  [a EXCEPT !.num = Negated(k, @), !.wrapped = @ \/ a.num = Lowest(k)]

----------------------------------------------------------------------------
(* On both widths the products are tried as they are; then the narrow core *)
(* reduces them in the wider word, and the wide one first cancels what it  *)
(* can: common factors of the denominators, or crosswise.                  *)
AddCancelled(a, b, g) ==
  LET t1 == a.num * (b.den \div g)
      t2 == b.num * (a.den \div g)
      d == (a.den \div g) * b.den
  IN IF \A x \in {t1, t2, t1 + t2, d} : Fits("wide", x) THEN mk("wide", t1 + t2, d) ELSE Lost

add(k, a, b) ==
  LET t1 == a.num * b.den
      t2 == b.num * a.den
      d == a.den * b.den
  IN Taint(a, b,
       IF \A x \in {t1, t2, t1 + t2, d} : Fits(k, x) THEN mk(k, t1 + t2, d)
       ELSE IF k = "narrow" THEN fix_wide(t1 + t2, d)
       ELSE AddCancelled(a, b, gcd[Magnitude(a.den), Magnitude(b.den)]))

sub(k, a, b) == add(k, a, neg(k, b))

MulCancelled(a, b, g1, g2) ==
  LET n == (a.num \div g1) * (b.num \div g2)
      d == (a.den \div g2) * (b.den \div g1)
  IN IF Fits("wide", n) /\ Fits("wide", d) THEN mk_reduced("wide", n, d) ELSE Lost

mul(k, a, b) ==
  LET n == a.num * b.num
      d == a.den * b.den
  IN Taint(a, b,
       IF Fits(k, n) /\ Fits(k, d) THEN mk(k, n, d)
       ELSE IF k = "narrow" THEN fix_wide(n, d)
       ELSE MulCancelled(a, b, gcd[Magnitude(a.num), Magnitude(b.den)], gcd[Magnitude(b.num), Magnitude(a.den)]))

div(k, a, b) ==
  LET inverse == [Upright(k, b.den, b.num) EXCEPT !.wrapped = b.wrapped \/ b.num = Lowest(k)]
  IN IF b.num = 0 THEN Lost ELSE mul(k, a, inverse)

(* The sign of a - b: -1, 0 or 1; or "lost", when neither the products nor *)
(* the difference fit.                                                     *)
Unknown == 2
Sign(x) == IF x < 0 THEN -1 ELSE IF x > 0 THEN 1 ELSE 0

SignOf(r) == IF r.den = 0 THEN Unknown ELSE Sign(r.num)

cmp(k, a, b) ==
  IF a.den = 0 \/ b.den = 0 THEN Unknown
  ELSE IF k = "narrow" \/ (Fits(k, a.num * b.den) /\ Fits(k, b.num * a.den))
  THEN Sign(a.num * b.den - b.num * a.den)
  ELSE SignOf(sub(k, a, b))

----------------------------------------------------------------------------
(* The public number is a pair of narrow words; a zero-filled one is zero. *)
of_fx(v) == IF v.den = 0 THEN Zero ELSE v

(* Narrowing back.  The lowest word is refused.                            *)
to_fx(r) ==
  IF r.den # 0 /\ Magnitude(r.num) <= Highest("narrow") /\ r.den <= Highest("narrow")
  THEN r ELSE Lost
=============================================================================
