------------------------------- MODULE FloatScore -------------------------------
(***************************************************************************)
(* Scores as Python holds them: IEEE doubles that come from hundredths.    *)
(* [h, r] stands for (h + r / 2^56) / 100: the hundredths that were meant  *)
(* and a small integer for what rounding made of them, so that the sums of *)
(* heuristic.py:89-109 and the comparisons of matcher.py:50-73 are exact.  *)
(* Good for scores from 0.10 to 1.99, whose doubles are multiples of 2^-56. *)
(***************************************************************************)
EXTENDS Integers

AtLeast(x, y) == x.h > y.h \/ (x.h = y.h /\ x.r >= y.r)

(* The distance between neighbouring doubles at x, in units of 2^-56.      *)
Spacing(x) ==
  IF AtLeast(x, [h |-> 100, r |-> 0]) THEN 16
  ELSE IF AtLeast(x, [h |-> 50, r |-> 0]) THEN 8
  ELSE IF AtLeast(x, [h |-> 25, r |-> 0]) THEN 4
  ELSE IF 2 * x.h >= 25 THEN 2 ELSE 1

(* To the nearest double, to the even one of two that are as near.         *)
RoundEven(x) ==
  LET M == 100 * Spacing(x)
      pow28 == 268435456 % (2 * M)
      t == (x.h * ((pow28 * pow28) % (2 * M)) + x.r) % (2 * M)
      rest == t % M
      down == 2 * rest < M \/ (2 * rest = M /\ t < M)
  IN  [h |-> x.h, r |-> IF down THEN x.r - rest ELSE x.r + M - rest]

Literal(h) == RoundEven([h |-> h, r |-> 0])     \* the literal 0.hh of the source

Plus(x, y) == RoundEven([h |-> x.h + y.h, r |-> x.r + y.r])

Least(x, y) == IF AtLeast(x, y) THEN y ELSE x   \* min()
=============================================================================
