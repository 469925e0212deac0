----------------------------- MODULE MCToolCalls -----------------------------
(***************************************************************************)
(* ToolCalls on small worlds: two months around a new year, a list of four *)
(* rows walked one or two at a time, every monthly history of five charges *)
(* with three amounts, and some with other gaps between the charges.       *)
(***************************************************************************)
EXTENDS ToolCalls

Name(text) == [key |-> text, spelling |-> text]
Row(id, date, amount) ==
  [id |-> id, date |-> date, amount |-> amount, coa |-> "CATEGORY", category |-> "food",
   link |-> NoId, type |-> "BANK", split |-> FALSE,
   names |-> <<NoName, Name("acme"), Name("other")>>, memo |-> "",
   account |-> "checking", deleted |-> FALSE]
Leg(id, date, amount, link, account) ==
  [Row(id, date, amount) EXCEPT !.coa = "ACCOUNT", !.link = link, !.account = account]

ASOF == 20270120
Analysis(tool, refresh, from, to, account) ==
  [tool |-> tool, refresh |-> refresh, from |-> from, to |-> to, asOf |-> ASOF,
   account |-> account, minOccurrences |-> 3, minChangeCents |-> 1, minEstablishedRun |-> 2]
List(tool, refresh, limit) ==
  [tool |-> tool, refresh |-> refresh, limit |-> limit, account |-> NoFilter,
   dateFrom |-> 20261201, dateTo |-> 20270131, minAmount |-> NoFilter, maxAmount |-> NoFilter,
   includeDeleted |-> FALSE, term |-> "acme"]
Get(id, refreshOnMiss) ==
  [tool |-> "get", refresh |-> FALSE, id |-> id, refreshOnMiss |-> refreshOnMiss]

Processes == {<<"writer", TRUE>>, <<"reader", TRUE>>, <<"reader", FALSE>>}
WorldsOf(upstream, caches, calls, processes) ==
  {[upstream |-> upstream, cache |-> c, calls |-> calls, role |-> p[1], channel |-> p[2]] :
     c \in caches, p \in processes}

(***************************************************************************)
(* December 2026 and January 2027, one row of each kind.                   *)
(***************************************************************************)
Anchor == Row(1, 20261130, -100)
Out == Leg(2, 20261231, -300, 3, "checking")
Back == Leg(3, 20270102, 300, 2, "savings")
Food == Row(4, 20261210, -50)
Split == [Row(5, 20270105, -70) EXCEPT !.coa = "", !.category = "", !.split = TRUE]
Projected == Row(6, 20270125, -20)
Late == [Row(7, 20261220, -11) EXCEPT !.category = "home"]
Pay == [Row(8, 20261215, 500) EXCEPT !.category = "salary"]
Holding == [Row(9, 20261216, -40) EXCEPT !.type = "INVESTMENT"]
Adjusted == [Row(10, 20261217, 1) EXCEPT !.coa = "BALANCE_ADJUSTMENT"]
Unpaired == Leg(11, 20270103, -9, 99, "checking")
Upstream1 == {Anchor, Out, Back, Food, Split, Projected, Late, Pay, Holding, Adjusted, Unpaired}

Caches1 ==
  {Upstream1,
   Upstream1 \ {Anchor, Food},        \* the beginning is missing
   (Upstream1 \ {Food, Back}) \union
     {[Food EXCEPT !.amount = -60], [Back EXCEPT !.deleted = TRUE]}}

\* Too little to reach over December: its end is missing, or all of it.
Upstream4 == {Anchor, Food, Projected, Late, Split}
Caches4 == {{Anchor, Food, Projected}, {}}

Calls1 ==
  {Analysis("burn", FALSE, 20261201, 20270131, NoFilter),
   Analysis("burn", TRUE, 20261215, 20270115, NoFilter),
   Analysis("categories", TRUE, 20261201, 20261231, "checking"),
   Analysis("categories", FALSE, NoFilter, NoFilter, NoFilter),
   Analysis("recurring", FALSE, 20261201, 20270131, NoFilter)}

World1 == WorldsOf(Upstream1, Caches1, Calls1, Processes)
            \union WorldsOf(Upstream4, Caches4, Calls1, {<<"writer", TRUE>>})

(***************************************************************************)
(* Lists of up to four rows.  One row has moved to another date, one is    *)
(* new, one is deleted.                                                    *)
(***************************************************************************)
Rows2 == {Row(1, 20261210, -1), Row(2, 20261210, -2), Row(3, 20261215, -3)}
Upstream2 == {Row(1, 20261210, -4), Row(2, 20261220, -2),
              [Row(3, 20261215, -3) EXCEPT !.deleted = TRUE],
              [Row(4, 20261212, NoAmount) EXCEPT !.category = "0"]}
Calls2 == {List("list", TRUE, 1), List("search", FALSE, 2), List("list", FALSE, 1),
           [List("list", FALSE, 500) EXCEPT !.includeDeleted = TRUE, !.minAmount = -3,
                                            !.maxAmount = -1],
           List("uncategorized", FALSE, 0), Get(4, TRUE), Get(4, FALSE), Get(5, TRUE)}
World2 == WorldsOf(Upstream2, {Rows2, {}}, Calls2, Processes)

(***************************************************************************)
(* Histories of charges: monthly, at irregular dates, of two merchants.    *)
(***************************************************************************)
Months == <<20260815, 20260915, 20261015, 20261115, 20261215>>
Weeks == <<20261029, 20261103, 20261108, 20261113, 20261118>>     \* five days apart
Mostly == <<20260801, 20260806, 20260831, 20260925, 20261115>>    \* half of them monthly, or more
Scattered == <<20260801, 20260813, 20260825, 20261106, 20261118>>
Charges(dates, amounts) == {Row(i, dates[i], -amounts[i]) : i \in 1 .. 5}
Histories ==
  {Charges(Months, amounts) : amounts \in [1 .. 5 -> 1 .. 3]}
    \union {Charges(<<20260815, 20260816, 20261015, 20261016, 20261215>>, <<1, 1, 1, 2, 2>>),
            Charges(Weeks, <<2, 2, 1, 1, 1>>), Charges(Mostly, <<2, 2, 1, 1, 1>>),
            Charges(Mostly, <<2, 2, 1, 1, 1>>) \ {Row(5, Mostly[5], -1)},
            Charges(Scattered, <<2, 2, 1, 1, 1>>),
            {IF row.id = 3 THEN [row EXCEPT !.names = <<Name("zed"), Name("acme"), NoName>>]
             ELSE IF row.id = 4 THEN [row EXCEPT !.names = <<NoName, NoName, NoName>>]
             ELSE row : row \in Charges(Months, <<1, 1, 1, 2, 2>>)}}
Calls3 ==
  {[Analysis("recurring", FALSE, NoFilter, NoFilter, NoFilter) EXCEPT
      !.minEstablishedRun = run, !.minChangeCents = change,
      !.minOccurrences = 2 * run + 1] : run, change \in 1 .. 2}
World3 == UNION {WorldsOf(h, {h}, Calls3, {<<"writer", TRUE>>}) : h \in Histories}

AllWorlds == World1 \union World2 \union World3
=============================================================================
