------------------------------- MODULE Money -------------------------------
(***************************************************************************)
(* The arithmetic of domain/money.ts. Amounts are integers in minor units. *)
(* A Decimal is exact here: a fraction [num, den] with den > 0, which the  *)
(* code holds to 28 digits. A rate is the monthly fraction.                *)
(***************************************************************************)
EXTENDS Integers, Functions

\* toDecimalPlaces(0, ROUND_HALF_UP) of a fraction that is not negative.
HalfUp(n, d) == n \div d + IF 2 * (n % d) >= d THEN 1 ELSE 0

\* 1 - (1 + r)^-n as a fraction: (grown - flat) / grown.
Power(base, n)    == FoldFunction(LAMBDA x, y : x * y, 1, [i \in 1 .. n |-> base])
Grown(rate, term) == Power(rate.den + rate.num, term)
Flat(rate, term)  == Power(rate.den, term)

(***************************************************************************)
(* One instalment of a principal is principal * Unit.num / Unit.den before *)
(* rounding. Both directions use it, so they cannot drift apart. A rate of *)
(* zero repays in equal parts.                                             *)
(***************************************************************************)
Unit(rate, term) ==
    IF rate.num = 0
    THEN [num |-> 1, den |-> term]
    ELSE [num |-> rate.num * Grown(rate, term),
          den |-> rate.den * (Grown(rate, term) - Flat(rate, term))]

AnnuityPayment(principal, unit) == HalfUp(principal * unit.num, unit.den)

\* Mutant: the steps are rounded half up.
MaxPrincipalHalfUp(most, unit, rounding) ==
    IF most.num <= 0
    THEN 0
    ELSE HalfUp(most.num * unit.den, most.den * unit.num * rounding) * rounding

\* The largest multiple of rounding whose exact instalment is at most most.
MaxPrincipal(most, unit, rounding) ==
    IF most.num <= 0
    THEN 0
    ELSE ((most.num * unit.den) \div (most.den * unit.num * rounding)) * rounding

\* In ten-thousandths, half up: the resolution of the column numeric(6, 4).
DebtToIncome(obligations, payment, income) ==
    HalfUp(10000 * (obligations + payment), income)

WithinLimit(dti, limit) == dti * limit.den <= 10000 * limit.num
=============================================================================
