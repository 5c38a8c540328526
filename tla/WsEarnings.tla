----------------------------- MODULE WsEarnings -----------------------------
(***************************************************************************)
(* The daily earnings of an account, from the points of its value graph    *)
(* (account_earnings.py).  Amounts are in tenths of a cent, lines in       *)
(* cents; a moment is half a day.  GraphQL errors, a response of another   *)
(* shape and CSV columns that do not enter the sums are left out.          *)
(***************************************************************************)
EXTENDS Integers, Sequences

\* Decimal.quantize: half a cent goes to the even one.
Cents(v) ==
  LET q == v \div 10
      r == v % 10
  IN IF r < 5 \/ (r = 5 /\ q % 2 = 0) THEN q ELSE q + 1

Day(point) == point.at \div 2

\* parse_graph_points: a point lacking an amount is dropped.
ParsePoints(raw) == [i \in {i \in DOMAIN raw : raw[i].complete} |-> raw[i]]

\* daily_closes: the last point of a day; of two at a moment, the later listed.
DailyCloses(points) ==
  LET Last(d) ==
        CHOOSE i \in DOMAIN points :
          /\ Day(points[i]) = d
          /\ \A j \in DOMAIN points :
               Day(points[j]) = d => points[j].at < points[i].at \/ (points[j].at = points[i].at /\ j <= i)
  IN [d \in {Day(points[i]) : i \in DOMAIN points} |->
        [value |-> points[Last(d)].value, deposits |-> points[Last(d)].deposits, reported |-> TRUE]]

First(closes) == CHOOSE d \in DOMAIN closes : \A o \in DOMAIN closes : d <= o
Final(closes) == CHOOSE d \in DOMAIN closes : \A o \in DOMAIN closes : o <= d

\* fill_missing_days: never past the last day reported.
FillMissingDays(closes) ==
  LET filled[d \in First(closes) .. Final(closes)] ==
        IF d \in DOMAIN closes THEN closes[d] ELSE [filled[d - 1] EXCEPT !.reported = FALSE]
  IN filled

Deposited(current, previous) == Cents(current.deposits - previous.deposits)

\* Mutant of Earned: the earnings are rounded by themselves.
EarnedRounded(current, previous) ==
  Cents((current.value - previous.value) - (current.deposits - previous.deposits))

Earned(current, previous) == Cents(current.value - previous.value) - Deposited(current, previous)

Line(day, entry_type, amount, reported) ==
  [day |-> day, entry_type |-> entry_type, amount |-> amount, reported |-> reported]

\* build_earnings_rows: a half that came to nothing has no line.
BuildEarningsRows(filled) ==
  {l \in UNION {{Line(d, "deposit", Deposited(filled[d], filled[d - 1]), filled[d].reported),
                 Line(d, "earning", Earned(filled[d], filled[d - 1]), filled[d].reported)}
                : d \in DOMAIN filled \ {First(filled)}} : l.amount # 0}

FilterRows(lines, since, until) == {l \in lines : since <= l.day /\ l.day <= until}

DailyEarnings(raw, since, until) ==
  FilterRows(BuildEarningsRows(FillMissingDays(DailyCloses(ParsePoints(raw)))), since, until)
=============================================================================
