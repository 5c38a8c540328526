----------------------------- MODULE WsPeriods -----------------------------
(***************************************************************************)
(* The look-back windows of Wealthsimple's export: what the page offers    *)
(* (frontend/ws.js) and which window the server makes of the date it gets  *)
(* (export_period.py).  A day is [y, m, d].                                *)
(***************************************************************************)
EXTENDS Integers

Periods == {3, 6, 12}

MonthLength(y, m) ==
  CASE m = 2              -> IF y % 4 = 0 /\ (y % 100 # 0 \/ y % 400 = 0) THEN 29 ELSE 28
    [] m \in {4, 6, 9, 11} -> 30
    [] OTHER               -> 31

Date(y, m, d) == [y |-> y, m |-> m, d |-> d]
Number(day)   == (day.y * 100 + day.m) * 100 + day.d

\* The month n before that of day, as numbers of a year and a month.
MonthBack(day, n) ==
  LET index == day.m - 1 - n IN Date(day.y + index \div 12, (index % 12) + 1, day.d)

\* Mutant of SubtractMonths: the day is kept where the month has no such day.
KeepDay(day, n) == MonthBack(day, n)

SubtractMonths(day, n) ==
  LET b == MonthBack(day, n) IN [b EXCEPT !.d = IF b.d <= MonthLength(b.y, b.m) THEN b.d ELSE MonthLength(b.y, b.m)]

\* select_export_period: the shortest window that reaches since.
SelectExportPeriod(since, today) ==
  LET Reaching == {p \in Periods : Number(SubtractMonths(today, p)) <= Number(since)}
  IN IF Reaching = {} THEN 12 ELSE CHOOSE p \in Reaching : \A q \in Reaching : p <= q

-----------------------------------------------------------------------------
(* The page.                                                               *)

Tomorrow(day) ==
  IF day.d < MonthLength(day.y, day.m) THEN [day EXCEPT !.d = @ + 1]
  ELSE IF day.m < 12 THEN Date(day.y, day.m + 1, 1) ELSE Date(day.y + 1, 1, 1)

Yesterday(day) ==
  LET b == MonthBack(day, 1)
  IN IF day.d > 1 THEN [day EXCEPT !.d = @ - 1] ELSE [b EXCEPT !.d = MonthLength(b.y, b.m)]

\* Date.setMonth: a day that the month does not have runs into the next one.
SetMonthBack(day, n) ==
  LET b    == MonthBack(day, n)
      over == b.d - MonthLength(b.y, b.m)
  IN IF over <= 0 THEN b ELSE [Tomorrow([b EXCEPT !.d = MonthLength(b.y, b.m)]) EXCEPT !.d = over]

\* Date.toISOString: the day in UTC of an hour of a day of the page's zone.
Shifts == {"none", "evening in the west", "morning in the east"}
UtcDay(day, shift) ==
  CASE shift = "none" -> day
    [] shift = "evening in the west" -> Tomorrow(day)
    [] shift = "morning in the east" -> Yesterday(day)

Option(today, n, shift) == UtcDay(SetMonthBack(today, n), shift)

-----------------------------------------------------------------------------
\* A day that the calendar has.
IsDate(day) == day \in [y : Int, m : 1 .. 12, d : 1 .. 31] /\ day.d <= MonthLength(day.y, day.m)

\* Reference: since is no more than n months before today, month ends being alike.
Within(since, today, n) ==
  LET apart == (today.y - since.y) * 12 + today.m - since.m
  IN apart < n \/ (apart = n /\ (since.d >= today.d \/ since.d = MonthLength(since.y, since.m)))
=============================================================================
