-------------------------------- MODULE BigM --------------------------------
(***************************************************************************)
(* The big-M rows by which src/src/fzn.c ties a 0/1 variable r to a        *)
(* relation of a linear form d to zero, and those that say d # 0.          *)
(*                                                                         *)
(* The rows are written with the bounds L and U of d over the boxes of its *)
(* variables, the least positive value P and the greatest negative value N *)
(* that d can take (int_lattice_steps), and two more 0/1 variables, pos    *)
(* and neg, that select the side of zero d is on.  A row says that         *)
(* d * [d] + r * [r] + pos * [pos] + neg * [neg] is at most, at least or   *)
(* equal to its right-hand side.                                           *)
(***************************************************************************)
EXTENDS Integers

Row(d, r, pos, neg, rel, rhs) ==
  [d |-> d, r |-> r, pos |-> pos, neg |-> neg, rel |-> rel, rhs |-> rhs]

Compare(a, rel, b) == CASE rel = "<" -> a <= b [] rel = ">" -> a >= b [] rel = "=" -> a = b

(* The row at a value of the form and of the three 0/1 variables.          *)
Met(row, d, r, pos, neg) ==
  Compare(row.d * d + row.r * r + row.pos * pos + row.neg * neg, row.rel, row.rhs)

Relations == {"eq", "le", "lt", "ge", "gt", "ne"}

(* What a relation says of the form.                                       *)
Related(which, d) ==
  CASE which = "eq" -> d = 0  [] which = "ne" -> d # 0
    [] which = "le" -> d <= 0 [] which = "lt" -> d < 0
    [] which = "ge" -> d >= 0 [] which = "gt" -> d > 0

(* pos = 1 puts d at P or above, neg = 1 at N or below.                    *)
Sides(L, U, P, N) == {Row(1, 0, L - P, 0, ">", L), Row(1, 0, 0, U - N, "<", U)}

add_int_ne(L, U, P, N) == {Row(0, 0, 1, 1, "=", 1)} \cup Sides(L, U, P, N)

(* r if and only if the relation holds.                                    *)
add_int_reif(which, L, U, P, N) ==
  CASE which = "eq" -> {Row(0, 1, 1, 1, "=", 1), Row(1, U, 0, 0, "<", U),
                        Row(1, L, 0, 0, ">", L)} \cup Sides(L, U, P, N)
    [] which = "le" -> {Row(1, U, 0, 0, "<", U), Row(1, P - L, 0, 0, ">", P)}
    [] which = "lt" -> {Row(1, U - N, 0, 0, "<", U), Row(1, -L, 0, 0, ">", 0)}
    [] which = "ge" -> {Row(1, L, 0, 0, ">", L), Row(1, N - U, 0, 0, "<", N)}
    [] which = "gt" -> {Row(1, L - P, 0, 0, ">", L), Row(1, -U, 0, 0, "<", 0)}
    [] which = "ne" -> {Row(0, -1, 1, 1, "=", 0), Row(1, -U, 0, 0, "<", 0),
                        Row(1, -L, 0, 0, ">", 0)} \cup Sides(L, U, P, N)

(* The relation holds whenever r does.                                     *)
add_int_imp(which, L, U, P, N) ==
  CASE which = "eq" -> {Row(1, U, 0, 0, "<", U), Row(1, L, 0, 0, ">", L)}
    [] which = "le" -> {Row(1, U, 0, 0, "<", U)}
    [] which = "lt" -> {Row(1, U - N, 0, 0, "<", U)}
    [] which = "ge" -> {Row(1, L, 0, 0, ">", L)}
    [] which = "gt" -> {Row(1, L - P, 0, 0, ">", L)}
    [] which = "ne" -> {Row(0, -1, 1, 1, "=", 0)} \cup Sides(L, U, P, N)

=============================================================================
