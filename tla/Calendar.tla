------------------------------ MODULE Calendar ------------------------------
(***************************************************************************)
(* The months of src/src/analysis/periods.ts and what the cache covers of  *)
(* them.  A date is the number its digits write, 2026-08-01 as 20260801,   *)
(* and a month 2026-08 as 202608: they compare as the strings do.          *)
(***************************************************************************)
EXTENDS Integers, Sequences

NoDate == 0    \* `undefined`

Year(month) == month \div 100
MonthOf(date) == date \div 100

LastDay(month) ==
  CASE month % 100 \in {4, 6, 9, 11} -> 30
    [] month % 100 = 2 ->
         IF Year(month) % 4 = 0 /\ (Year(month) % 100 # 0 \/ Year(month) % 400 = 0)
         THEN 29 ELSE 28
    [] OTHER -> 31

\* monthBounds
FirstOf(month) == 100 * month + 1
LastOf(month) == 100 * month + LastDay(month)

IsMonth(month) == month \in Nat /\ month % 100 \in 1 .. 12
IsDate(date) == /\ date \in Nat /\ IsMonth(MonthOf(date))
                /\ FirstOf(MonthOf(date)) <= date /\ date <= LastOf(MonthOf(date))

\* The index goes up to 12 and starts again with the next year.
M_NextMonth(month) == IF month % 100 = 11 THEN 100 * (Year(month) + 1) + 1
                      ELSE month + 1
NextMonth(month) == IF month % 100 = 12 THEN 100 * (Year(month) + 1) + 1
                    ELSE month + 1

\* The months touched by a range, in order; none when it is reversed.
MonthsBetween(from, to) ==
  LET upTo[month \in Nat] == IF month >= MonthOf(to) THEN <<month>>
                             ELSE <<month>> \o upTo[NextMonth(month)]
  IN IF from > to THEN <<>> ELSE upTo[MonthOf(from)]

\* First day of the month eleven months before the one asOf is in.
DefaultFrom(asOf) ==
  LET index == 12 * Year(MonthOf(asOf)) + (MonthOf(asOf) % 100) - 12
  IN FirstOf(100 * (index \div 12) + (index % 12) + 1)

\* Days since a fixed one; years are counted from March, so that a leap day is
\* the last of its year.
DayNumber(date) ==
  LET m == MonthOf(date) % 100
      y == Year(MonthOf(date)) - (IF m <= 2 THEN 1 ELSE 0)
  IN 365 * y + (y \div 4) - (y \div 100) + (y \div 400)
       + (153 * ((m + 9) % 12) + 2) \div 5 + (date % 100)

DaysBetween(earlier, later) == DayNumber(later) - DayNumber(earlier)

(***************************************************************************)
(* Coverage: what there is against what was asked for.  earliest and       *)
(* latest are the dates of the history cached, at or before asOf.          *)
(***************************************************************************)
Coverage(from, to, earliest, latest, asOf) ==
  [from |-> earliest, to |-> latest,
   shortfalls |->
     IF earliest = NoDate THEN {"cache-is-empty"}
     ELSE {s \in {"cache-starts-after-requested-from",
                  "cache-ends-before-requested-to",
                  "requested-range-extends-beyond-as-of"} :
             \/ s = "cache-starts-after-requested-from" /\ earliest > from
             \/ s = "cache-ends-before-requested-to" /\ latest < to
             \/ s = "requested-range-extends-beyond-as-of" /\ to > asOf}]

\* Why the figures of a month may not describe all of it.
IncompleteReasons(month, covered, asOf) ==
  {r \in {"month-starts-before-cache-coverage", "month-ends-after-cache-coverage",
          "month-not-finished"} :
     \/ r = "month-starts-before-cache-coverage"
          /\ (covered.from = NoDate \/ FirstOf(month) < covered.from)
     \/ r = "month-ends-after-cache-coverage"
          /\ (covered.from = NoDate \/ LastOf(month) > covered.to)
     \/ r = "month-not-finished"
          /\ covered.from # NoDate /\ LastOf(month) > asOf}
=============================================================================
