---------------------------- MODULE ExactDecimal ----------------------------
(***************************************************************************)
(* Exact decimals (src/decision/decimal.ts): a coefficient and a scale,    *)
(* kept without trailing zeros, so that a pair and the canonical string    *)
(* toCanonical prints and parse reads determine each other.  The limits on *)
(* digits (38 in a parsed literal, 80 in a result) are beyond the numbers  *)
(* TLC computes with and are left out.                                     *)
(***************************************************************************)
EXTENDS Integers

Magnitude(n) == IF n < 0 THEN -n ELSE n

(* BigInt division truncates: the sign is taken off and put back. *)
roundHalfEven(numerator, denominator) ==
    LET signed == IF denominator < 0 THEN -numerator ELSE numerator
        quotient == Magnitude(signed) \div Magnitude(denominator)
        doubled == 2 * (Magnitude(signed) - quotient * Magnitude(denominator))
        rounded == IF \/ doubled < Magnitude(denominator)
                      \/ doubled = Magnitude(denominator) /\ quotient % 2 = 0
                   THEN quotient ELSE quotient + 1
    IN  IF signed < 0 THEN -rounded ELSE rounded

power10(exponent) == 10 ^ exponent

create(coefficient, scale) ==
    LET zeros == CHOOSE k \in 0 .. scale :
                    /\ coefficient % power10(k) = 0
                    /\ \A j \in (k + 1) .. scale : coefficient % power10(j) # 0
    IN  [c |-> IF coefficient < 0 THEN -((-coefficient) \div power10(zeros))
               ELSE coefficient \div power10(zeros),
         s |-> scale - zeros]

fromInteger(n) == create(n, 0)

add(a, b) ==
    LET scale == IF a.s > b.s THEN a.s ELSE b.s
    IN  create(a.c * power10(scale - a.s) + b.c * power10(scale - b.s), scale)

negate(a) == [a EXCEPT !.c = -@]

subtract(a, b) == add(a, negate(b))

multiply(a, b) == create(a.c * b.c, a.s + b.s)

divide(a, b, outputScale) ==
    LET exponent == outputScale + b.s - a.s
    IN  create(IF exponent >= 0
               THEN roundHalfEven(a.c * power10(exponent), b.c)
               ELSE roundHalfEven(a.c, b.c * power10(-exponent)),
               outputScale)

round(a, outputScale) ==
    IF outputScale >= a.s THEN a
    ELSE create(roundHalfEven(a.c, power10(a.s - outputScale)), outputScale)

compare(a, b) ==
    LET difference == subtract(a, b).c
    IN  IF difference < 0 THEN -1 ELSE IF difference > 0 THEN 1 ELSE 0

-----------------------------------------------------------------------------
(* The rounding a decimal assessment promises: the nearest multiple of the *)
(* denominator, and of two that are equally near the one with an even      *)
(* quotient.                                                               *)
NearestEven(numerator, denominator, result) ==
    LET off == Magnitude(result * denominator - numerator)
    IN  /\ 2 * off <= Magnitude(denominator)
        /\ 2 * off = Magnitude(denominator) => result % 2 = 0
=============================================================================
