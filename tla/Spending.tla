------------------------------ MODULE Spending ------------------------------
(***************************************************************************)
(* What counts as spending and the two reports made of it: the pure        *)
(* functions of src/src/transfers.ts, src/src/analysis/classify.ts and     *)
(* src/src/analysis/spending.ts, on rows as DatabaseContext returns them.  *)
(*                                                                         *)
(* A row is a record                                                       *)
(*   id        a number, compared as the ids are                           *)
(*   date      transactionDate, NoDate for none                            *)
(*   amount    amountCents, NoAmount for none                              *)
(*   coa       coa.type        category  coa.id, both "" for none          *)
(*   link      transfer.id, NoId for none                                  *)
(*   type      "INVESTMENT" or another         split  it has split lines   *)
(*   names     renamedPayee, payee, mlInferredPayee (Recurring)            *)
(*   account   accountId      memo             deleted  isDeleted          *)
(* and an input a record with rows (a sequence), known (a set of rows),    *)
(* from, to, asOf, earliest and latest.                                    *)
(***************************************************************************)
EXTENDS Calendar, SequencesExt

CONSTANTS NoAmount, NoId    \* `undefined`

\* isTransferShaped
TransferShaped(row) == row.coa = "ACCOUNT"

\* A pair is accepted when the link is reciprocal: A names B and B names A.
Paired(row, known) ==
  /\ row.link # NoId
  /\ \E other \in known : other.id = row.link /\ other.link = row.id

ClassifyTransfer(row, known) ==
  IF ~TransferShaped(row) THEN "spending"
  ELSE IF Paired(row, known) THEN "transfer" ELSE "unmatched-transfer"

\* The precedence is fixed and total.
ClassifySpending(row, known, asOf) ==
  IF row.date = NoDate THEN "undated"
  ELSE IF row.date > asOf THEN "projected"
  ELSE IF ClassifyTransfer(row, known) # "spending" THEN ClassifyTransfer(row, known)
  ELSE IF row.coa = "BALANCE_ADJUSTMENT" THEN "balance-adjustment"
  ELSE IF row.type = "INVESTMENT" THEN "investment"
  ELSE "spending"

AmountCentsOf(row) == IF row.amount = NoAmount THEN 0 ELSE row.amount

\* A total and the rows it is the total of, in the order they were read.
NoFigure == [total |-> 0, ids |-> <<>>]
AddTo(figure, row) == [total |-> figure.total + AmountCentsOf(row),
                       ids |-> Append(figure.ids, row.id)]
TraceFigure(rows) == FoldLeft(AddTo, NoFigure, rows)

\* groups with row in the group of the given key, the only keys of it being
\* those that occurred.
Grouped(groups, key, row) ==
  [k \in DOMAIN groups \union {key} |->
     IF k # key THEN groups[k]
     ELSE AddTo(IF k \in DOMAIN groups THEN groups[k] ELSE NoFigure, row)]
NoGroups == [k \in {} |-> NoFigure]

\* Rows by date and, on one day, by id.
Newer(r, s) == r.date > s.date \/ (r.date = s.date /\ r.id > s.id)
NewestFirst(rows) ==
  [i \in 1 .. Cardinality(rows) |->
     CHOOSE row \in rows : Cardinality({r \in rows : Newer(r, row)}) = i - 1]

\* The rows that a filter keeps.
Keep(kept, row, wanted) == IF row \in wanted THEN Append(kept, row) ELSE kept
Kept(rows, wanted) == FoldLeft(LAMBDA kept, row : Keep(kept, row, wanted), <<>>, rows)

(***************************************************************************)
(* partitionSpending: the loop over the rows, which keeps the rows that    *)
(* count and a line per kind of exclusion that occurred.                   *)
(***************************************************************************)
NoParts == [spending |-> <<>>, exclusions |-> NoGroups]
Classified(parts, row, known, asOf) ==
  LET kind == ClassifySpending(row, known, asOf)
  IN IF kind = "spending"
     THEN [parts EXCEPT !.spending = Append(@, row)]
     ELSE [parts EXCEPT !.exclusions = Grouped(@, kind, row)]
PartitionSpending(rows, known, asOf) ==
  FoldLeft(LAMBDA parts, row : Classified(parts, row, known, asOf), NoParts, rows)

\* prepare: undated rows pass the range filter, to be reported.
InRange(row, from, to) == row.date = NoDate \/ (from <= row.date /\ row.date <= to)

Prepare(input) ==
  LET rows == Kept(input.rows, {row \in ToSet(input.rows) : InRange(row, input.from, input.to)})
      parts == PartitionSpending(rows, input.known, input.asOf)
  IN [spending |-> parts.spending,
      exclusions |-> parts.exclusions,
      coverage |-> Coverage(input.from, input.to, input.earliest,
                            input.latest, input.asOf),
      months |-> MonthsBetween(input.from, input.to)]

InMonth(rows, month) == Kept(rows, {row \in ToSet(rows) : MonthOf(row.date) = month})

\* A split has its categories on its lines and a bucket of its own here.
BucketOf(row) ==
  IF row.split THEN "split"
  ELSE IF row.coa # "CATEGORY" \/ row.category \in {"", "0"} THEN "uncategorized"
  ELSE row.category
ByCategory(rows) == FoldLeft(LAMBDA groups, row : Grouped(groups, BucketOf(row), row), NoGroups, rows)

\* spendingByCategoryByMonth
SpendingByCategoryByMonth(input) ==
  LET prepared == Prepare(input)
      breakdown(month) ==
        LET rows == InMonth(prepared.spending, month)
        IN [month |-> month,
            reasons |-> IncompleteReasons(month, prepared.coverage, input.asOf),
            total |-> TraceFigure(rows),
            categories |-> ByCategory(rows)]
  IN [months |-> [i \in DOMAIN prepared.months |-> breakdown(prepared.months[i])],
      exclusions |-> prepared.exclusions,
      shortfalls |-> prepared.coverage.shortfalls,
      splits |-> {row.id : row \in {r \in ToSet(prepared.spending) : r.split}}]

\* Rounded half away from zero.
Quotient(total, count) ==
  LET magnitude == (2 * (IF total < 0 THEN -total ELSE total) + count) \div (2 * count)
  IN IF total < 0 THEN -magnitude ELSE magnitude

Outflows(rows) == Kept(rows, {row \in ToSet(rows) : AmountCentsOf(row) < 0})
Inflows(rows) == Kept(rows, {row \in ToSet(rows) : AmountCentsOf(row) > 0})

\* monthlyBurn; the average is over the complete months, if there are any.
MonthlyBurn(input) ==
  LET prepared == Prepare(input)
      burn(month) ==
        LET rows == InMonth(prepared.spending, month)
        IN [month |-> month,
            reasons |-> IncompleteReasons(month, prepared.coverage, input.asOf),
            outflow |-> TraceFigure(Outflows(rows)),
            inflow |-> TraceFigure(Inflows(rows)),
            total |-> TraceFigure(rows)]
      months == [i \in DOMAIN prepared.months |-> burn(prepared.months[i])]
      complete == Kept(months, {m \in ToSet(months) : m.reasons = {}})
      outflow == FoldLeft(LAMBDA sum, m : sum + m.outflow.total, 0, complete)
  IN [months |-> months,
      average |-> IF complete = <<>> THEN NoAmount
                  ELSE Quotient(outflow, Len(complete)),
      used |-> {m.month : m \in ToSet(complete)},
      exclusions |-> prepared.exclusions,
      shortfalls |-> prepared.coverage.shortfalls]
=============================================================================
