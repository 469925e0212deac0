----------------------------- MODULE Recurring -----------------------------
(***************************************************************************)
(* Recurring charges and the changes of their amounts: the pure functions  *)
(* of src/src/analysis/recurring.ts.  A name is a record: spelling is what *)
(* upstream sent, trimmed, and key what it is in lower case, "" when there *)
(* is no text.                                                             *)
(***************************************************************************)
EXTENDS Spending

\* minDays and maxDays of each cadence.
CadenceRanges == [weekly |-> <<5, 9>>, monthly |-> <<25, 35>>,
                  quarterly |-> <<85, 95>>, annual |-> <<350, 380>>]

\* The k-th of the values in ascending order.
Ordered(values, k) ==
  CHOOSE v \in ToSet(values) :
    /\ Cardinality({i \in DOMAIN values : values[i] < v}) < k
    /\ k <= Cardinality({i \in DOMAIN values : values[i] <= v})

\* Twice the median, which is a whole number or a half.
M_TwiceMedian(values) ==
  LET middle == Len(values) \div 2
  IN IF Len(values) % 2 = 0 THEN Ordered(values, middle) + Ordered(values, middle + 1)
     ELSE 2 * Ordered(values, middle)
TwiceMedian(values) ==
  LET middle == Len(values) \div 2
  IN IF Len(values) % 2 = 0 THEN Ordered(values, middle) + Ordered(values, middle + 1)
     ELSE 2 * Ordered(values, middle + 1)

\* The cadence the dates are spaced by, "none" when there is none.
CadenceOf(dates) ==
  LET gaps == [i \in 1 .. Len(dates) - 1 |-> DaysBetween(dates[i], dates[i + 1])]
      fits(c) == /\ 2 * CadenceRanges[c][1] <= TwiceMedian(gaps)
                 /\ TwiceMedian(gaps) <= 2 * CadenceRanges[c][2]
  IN IF gaps = <<>> \/ \A c \in DOMAIN CadenceRanges : ~fits(c) THEN "none"
     ELSE CHOOSE c \in DOMAIN CadenceRanges : fits(c)

\* The first of the three names that has any text; key "" for no merchant.
NoName == [key |-> "", spelling |-> ""]
MerchantOf(row) ==
  LET named == Kept(row.names, {name \in ToSet(row.names) : name.key # ""})
  IN IF named = <<>> THEN NoName ELSE Head(named)

\* Where the run of one amount that ends at last begins.
M_RunStart(rows, last) ==
  LET back[i \in 1 .. last] ==
        IF i > 2 /\ AmountCentsOf(rows[i - 1]) = AmountCentsOf(rows[last])
        THEN back[i - 1] ELSE i
  IN back[last]
RunStart(rows, last) ==
  LET back[i \in 1 .. last] ==
        IF i > 1 /\ AmountCentsOf(rows[i - 1]) = AmountCentsOf(rows[last])
        THEN back[i - 1] ELSE i
  IN back[last]

\* The trailing run of one amount and the run before it, <<>> when the whole
\* history has one amount.
TrailingRuns(rows) ==
  LET after == RunStart(rows, Len(rows))
      before == RunStart(rows, after - 1)
  IN IF after = 1 THEN [before |-> <<>>, after |-> rows]
     ELSE [before |-> SubSeq(rows, before, after - 1),
           after |-> SubSeq(rows, after, Len(rows))]

Magnitude(cents) == IF cents < 0 THEN -cents ELSE cents

(***************************************************************************)
(* What is said of one merchant: nothing ("few"), "irregular", "steady",   *)
(* "variable", or "changed" with both runs and the change of the cost.     *)
(***************************************************************************)
Verdict(rows, input) ==
  LET occurrences == Reverse(NewestFirst(ToSet(rows)))
      cadence == CadenceOf([i \in DOMAIN occurrences |-> occurrences[i].date])
      runs == TrailingRuns(occurrences)
      change == Magnitude(AmountCentsOf(Head(runs.after)))
                  - Magnitude(AmountCentsOf(Head(runs.before)))
      said(verdict) == [verdict |-> verdict, rows |-> TraceFigure(occurrences).ids]
  IN IF Len(rows) < Max({input.minOccurrences, 2}) THEN said("few")
     ELSE IF cadence = "none" THEN said("irregular")
     ELSE IF runs.before = <<>> THEN said("steady")
     ELSE IF Len(runs.before) < Max({input.minEstablishedRun, 1}) THEN said("variable")
     ELSE IF Magnitude(change) < Max({input.minChangeCents, 1}) THEN said("steady")
     ELSE [verdict |-> "changed", rows |-> TraceFigure(occurrences).ids,
           cadence |-> cadence, change |-> change,
           before |-> TraceFigure(runs.before), after |-> TraceFigure(runs.after)]

(***************************************************************************)
(* recurringChargeChanges: outflows only, grouped by merchant.             *)
(***************************************************************************)
ChargesOf(rows, key) ==
  Kept(Outflows(rows), {row \in ToSet(rows) : MerchantOf(row).key = key})

RecurringChargeChanges(input) ==
  LET prepared == Prepare(input)
      keys == {MerchantOf(row).key : row \in ToSet(Outflows(prepared.spending))} \ {""}
  IN [merchants |-> [key \in keys |-> Verdict(ChargesOf(prepared.spending, key), input)],
      unnamed |-> TraceFigure(ChargesOf(prepared.spending, "")).ids,
      exclusions |-> prepared.exclusions,
      shortfalls |-> prepared.coverage.shortfalls]
=============================================================================
