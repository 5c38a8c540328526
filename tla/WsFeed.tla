------------------------------- MODULE WsFeed -------------------------------
(***************************************************************************)
(* Reading the activity feed: the collapsed header of a row is a title and *)
(* a subtitle, and which of them names the type depends on the row         *)
(* (parse_row_header and build_activity_row of wealthsimple.py); what was  *)
(* read becomes lines (normalize_financial_data.py).  An amount is a set   *)
(* of at most one.  Fields that only an expanded row has are left out: no  *)
(* row is expanded.                                                        *)
(***************************************************************************)
EXTENDS Integers, Sequences, FiniteSets, FiniteSetsExt

\* A field that is not there.
NoText == ""

BuyTypes      == {"Limit buy", "Market buy", "Fractional buy"}
SellTypes     == {"Limit sell", "Market sell", "Fractional sell"}
TransferTypes ==
  {"Interac e-Transfer", "Electronic funds transfer", "Direct deposit", "Transfer", "Withdrawal", "Recurring deposit"}
\* INTERNAL_ACCOUNTS; "Chequing" stands for the name it has there.
Internal      == {"Chequing", "TFSA", "Non-registered (Managed)", NoText}

Dropped == [dropped |-> TRUE]

\* A field of the subtitle: a leg of a transfer, or plain text.
Field(leg, text) == [leg |-> leg, text |-> text]
Fields(row, leg) == {i \in DOMAIN row.subtitle : row.subtitle[i].leg = leg}
Leg(row, leg)    == IF Fields(row, leg) = {} THEN NoText ELSE row.subtitle[Max(Fields(row, leg))].text

ParseRowHeader(row, known) ==
  LET plain  == Fields(row, NoText)
      first  == row.subtitle[Min(plain)].text
      second == IF Cardinality(plain) > 1 /\ first \notin known THEN first ELSE NoText
      title  == IF second = NoText THEN NoText ELSE row.title
  IN [type    |-> IF second = NoText THEN row.title ELSE second,
      account |-> IF plain = {} THEN Leg(row, "To") ELSE Leg(row, NoText),
      from    |-> Leg(row, "From"), to |-> Leg(row, "To"),
      ticker  |-> IF row.logo THEN title ELSE NoText, payee |-> IF row.logo THEN NoText ELSE title,
      amount  |-> row.amount]

\* Mutant of AccountNames: the feed is read once.
NoNames(feed) == {}

\* account_names of a first pass, which knows none.
AccountNames(feed) == {ParseRowHeader(feed[i], {}).account : i \in DOMAIN feed} \ {NoText}

\* The party of a transfer that is none of one's own accounts.
Outside(a) == IF a.from \notin Internal THEN a.from ELSE IF a.to \notin Internal THEN a.to ELSE NoText
Inside(a)  == IF a.to \in Internal \ {NoText} THEN a.to ELSE IF a.from \in Internal THEN a.from ELSE NoText
Else(a, b) == IF a = NoText THEN b ELSE a

Entry(payee, account, notes, amount) ==
  [payee |-> payee, account |-> account, notes |-> notes, amount |-> amount]

\* _negate: a buy costs, whatever sign the feed shows.
Negated(amount) == {IF v > 0 THEN -v ELSE v : v \in amount}

\* _normalize_trade, _dividend, _sold_asset, _transfer and _simple.
NormalizeRow(a) ==
  CASE a.type \in BuyTypes      -> Entry(a.ticker, a.account, a.type, Negated(a.amount))
    [] a.type \in SellTypes     -> Entry(a.ticker, a.account, a.type, a.amount)
    [] a.type = "Dividend"      -> IF a.amount = {} THEN Dropped ELSE Entry(a.ticker, a.account, a.type, a.amount)
    [] a.type = "Sold asset"    -> Entry(a.ticker, a.account, a.type, a.amount)
    [] a.type \in TransferTypes ->
         Entry(Else(Outside(a), a.payee), Else(a.account, Inside(a)), a.type, a.amount)
    [] OTHER                    -> Entry(Else(a.payee, Outside(a)), Else(a.account, a.from), a.type, a.amount)

\* build_activity_row, then normalize_financial_df, which drops what has no date.
ReadRow(row, known) ==
  IF row.cancelled \/ ~row.dated THEN Dropped ELSE NormalizeRow(ParseRowHeader(row, known))

ReadRows(feed) == [i \in DOMAIN feed |-> ReadRow(feed[i], AccountNames(feed))]
=============================================================================
