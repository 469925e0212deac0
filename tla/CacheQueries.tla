---------------------------- MODULE CacheQueries ----------------------------
(***************************************************************************)
(* The reads of src/src/db/database.ts on the transactions table, each one *)
(* statement on one snapshot.  A cache is a set of rows (Spending) with    *)
(* distinct ids; the columns a query filters on are those of the row.      *)
(***************************************************************************)
EXTENDS Recurring

CONSTANT NoFilter    \* an `undefined` bound of a query

(***************************************************************************)
(* Cursors.  A cursor is an offset in base64; anything else is offset 0.   *)
(***************************************************************************)
DecodeCursor(cursor) == IF cursor \in Nat THEN cursor ELSE 0

ClampedLimit(limit) == Min({Max({limit, 1}), 200})

Uncategorized(row) == row.coa \in {"", "UNCATEGORIZED"} \/ row.category = "0"

\* One of the three names or the memo contains the text searched for; a blank
\* text is no condition.
Mentions(row, term) ==
  term \in {"", row.memo} \/ \E i \in DOMAIN row.names : row.names[i].key = term

InAccount(row, account) == account = NoFilter \/ row.account = account

\* The conditions of queryTransactions; a NULL column meets no bound.
Matches(row, q) ==
  /\ InAccount(row, q.account)
  /\ q.dateFrom # NoFilter => row.date # NoDate /\ row.date >= q.dateFrom
  /\ q.dateTo # NoFilter => row.date # NoDate /\ row.date <= q.dateTo
  /\ q.minAmount # NoFilter => row.amount # NoAmount /\ row.amount >= q.minAmount
  /\ q.maxAmount # NoFilter => row.amount # NoAmount /\ row.amount <= q.maxAmount
  /\ q.includeDeleted \/ ~row.deleted
  /\ q.tool = "uncategorized" => Uncategorized(row)
  /\ q.tool = "search" => Mentions(row, q.term)

Matching(cache, q) == {row \in cache : Matches(row, q)}

\* ORDER BY txn_on DESC, id DESC; NULL is less than any date.
Listing(cache, q) == NewestFirst(Matching(cache, q))

\* LIMIT limit + 1 OFFSET offset: the row too many says there is another page.
M_PageOf(rows, offset, limit) ==
  [items |-> SubSeq(rows, offset + 1, Min({offset + limit, Len(rows)})),
   nextCursor |-> IF Len(rows) > offset + limit THEN offset + limit + 1 ELSE NoFilter]
PageOf(rows, offset, limit) ==
  [items |-> SubSeq(rows, offset + 1, Min({offset + limit, Len(rows)})),
   nextCursor |-> IF Len(rows) > offset + limit THEN offset + limit ELSE NoFilter]

QueryTransactions(cache, q, cursor) ==
  PageOf(Listing(cache, q), DecodeCursor(cursor), ClampedLimit(q.limit))

\* A deleted row is found by its id like any other.
TransactionsByIds(cache, ids) == {row \in cache : row.id \in ids}

\* ORDER BY txn_on ASC, id ASC, without pages.
TransactionsInRange(cache, from, to, account) ==
  Reverse(NewestFirst({row \in cache : /\ ~row.deleted /\ row.date # NoDate
                                       /\ from <= row.date /\ row.date <= to
                                       /\ InAccount(row, account)}))

\* MIN and MAX of txn_on over what has happened by asOf.
TransactionCoverage(cache, asOf) ==
  LET dates == {row.date : row \in {r \in cache : /\ ~r.deleted /\ r.date # NoDate
                                                  /\ r.date <= asOf}}
  IN IF dates = {} THEN <<NoDate, NoDate>> ELSE <<Min(dates), Max(dates)>>
=============================================================================
