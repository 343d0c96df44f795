----------------------------- MODULE Calendar -----------------------------
(***************************************************************************)
(* The dates of domain/engine.ts, in UTC. A date is a record of a year, a  *)
(* month and a day of the month.                                           *)
(***************************************************************************)
EXTENDS Integers, Functions

Date(y, m, d) == [year |-> y, month |-> m, day |-> d]

Leap(y) == (y % 4 = 0 /\ y % 100 # 0) \/ y % 400 = 0

DaysIn(y, m) ==
    CASE m = 2                 -> IF Leap(y) THEN 29 ELSE 28
      [] m \in {4, 6, 9, 11}   -> 30
      [] OTHER                 -> 31

\* The number of a date, counted in days.
DayOf(date) ==
    LET past == date.year - 1
    IN  365 * past + past \div 4 - past \div 100 + past \div 400
          + SumFunction([m \in 1 .. date.month - 1 |-> DaysIn(date.year, m)]) + date.day

\* a is before b.
Earlier(a, b) ==
    \/ a.year < b.year
    \/ a.year = b.year /\ a.month < b.month
    \/ a.year = b.year /\ a.month = b.month /\ a.day < b.day

\* Mutant: the day of the month is not compared.
AgeAtByMonth(born, at) ==
    (at.year - born.year) - (IF at.month < born.month THEN 1 ELSE 0)

\* Whole years completed: a birthday tomorrow is not a year today.
AgeAt(born, at) ==
    (at.year - born.year)
      - (IF \/ at.month < born.month
            \/ at.month = born.month /\ at.day < born.day
         THEN 1 ELSE 0)

(***************************************************************************)
(* setUTCMonth keeps the day of the month, and runs over into the month    *)
(* after when the target month is too short: a month after 31 January is 2 *)
(* or 3 March. The months of the code's terms never overrun by two.        *)
(***************************************************************************)
AddMonths(from, months) ==
    LET count == from.month - 1 + months
        y     == from.year + count \div 12
        m     == (count % 12) + 1
    IN  IF from.day <= DaysIn(y, m)
        THEN Date(y, m, from.day)
        ELSE Date(y, m + 1, from.day - DaysIn(y, m))
=============================================================================
