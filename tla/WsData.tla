------------------------------- MODULE WsData -------------------------------
(***************************************************************************)
(* What Wealthsimple's scraper computes from what it is given: the window  *)
(* of an export (WsPeriods), the lines of an earnings file (WsEarnings),   *)
(* the lines read from the feed (WsFeed).                                  *)
(***************************************************************************)
EXTENDS WsPeriods, WsEarnings, WsFeed, Functions

CONSTANTS
  Todays,    \* days on which an export is asked for
  Graphs,    \* graphs of an account, as sequences of points
  Windows,   \* since and until of an earnings file
  Meanings,  \* what a row of the feed may be about: sequences of them are feeds
  MaxRows    \* rows of a feed

\* date.today() is a day that the calendar has.
ASSUME DataAssumption == \A today \in Todays : IsDate(today)

\* What the scraper parsed into integers is integers.
ASSUME GraphsAssumption ==
  /\ \A g \in Graphs : g \in Seq([at : Int, value : Int, deposits : Int, complete : BOOLEAN])
  /\ Windows \subseteq Int \X Int

\* How the feed words its rows: no type has the name of an account, and tickers are those of
\* the types of securities.
ASSUME MeaningsAssumption ==
  /\ MaxRows \in Nat
  /\ \A m \in Meanings :
       /\ m.shape \in {"payment", "security", "legs", "from", "fee", "between"}
       /\ m.account # NoText /\ m.type # NoText /\ m.type \notin {o.account : o \in Meanings}
       /\ m.shape = "security" <=> m.type \in BuyTypes \union SellTypes \union {"Dividend", "Sold asset"}

VARIABLES task, stage, result

dataVars == <<task, stage, result>>

\* The header that the bank draws for a row.
Header(m) ==
  LET Plain(text) == Field(NoText, text)
  IN [title    |-> IF m.shape \in {"payment", "security"} THEN m.party ELSE m.type,
      subtitle |-> CASE m.shape \in {"payment", "security"} -> <<Plain(m.type), Plain(m.account)>>
                     [] m.shape = "legs"    -> <<Field("From", m.party), Field("To", m.account)>>
                     [] m.shape = "from"    -> <<Field("From", m.party), Plain(m.account)>>
                     [] m.shape = "fee"     -> <<Plain(m.account)>>
                     [] m.shape = "between" -> <<Plain(m.party), Plain(m.account)>>,
      logo |-> m.shape = "security", amount |-> m.amount, cancelled |-> m.cancelled, dated |-> m.dated]

DataInit ==
  /\ stage = "given" /\ result = <<>>
  /\ \/ \E today \in Todays, n \in Periods, shift \in Shifts :
          task = [kind |-> "period", today |-> today, picked |-> n, shift |-> shift]
     \/ \E g \in Graphs, w \in Windows :
          task = [kind |-> "earnings", graph |-> g, since |-> w[1], until |-> w[2]]
     \/ \E f \in UNION {[1 .. n -> Meanings] : n \in 1 .. MaxRows} : task = [kind |-> "feed", feed |-> f]

Given(kind) == stage = "given" /\ task.kind = kind /\ UNCHANGED task

ChoosePeriod ==
  /\ Given("period") /\ stage' = "answered"
  /\ result' = SelectExportPeriod(Option(task.today, task.picked, task.shift), task.today)

BuildEarnings ==
  /\ Given("earnings")
  /\ \/ /\ DOMAIN ParsePoints(task.graph) # {} /\ stage' = "answered"
        /\ result' = DailyEarnings(task.graph, task.since, task.until)
     \/ DOMAIN ParsePoints(task.graph) = {} /\ stage' = "failed" /\ UNCHANGED result

ReadHeaders ==
  /\ Given("feed") /\ stage' = "answered"
  /\ result' = ReadRows([i \in DOMAIN task.feed |-> Header(task.feed[i])])

DataNext == ChoosePeriod \/ BuildEarnings \/ ReadHeaders
DataSpec == DataInit /\ [][DataNext]_dataVars

Answered(kind) == stage = "answered" /\ task.kind = kind

-----------------------------------------------------------------------------
(* Properties.                                                             *)

\* The window chosen for a date that the page offers reaches that date, or is
\* the longest there is, and no shorter one does, month ends and leap years
\* included; it is the one the user picked, or, where the page's UTC date is
\* a day early, the next longer one, and never a shorter one.
WindowFitsChoice ==
  Answered("period") =>
    LET since == Option(task.today, task.picked, task.shift) IN
      /\ Within(since, task.today, result) \/ result = 12
      /\ \A p \in Periods : p < result => ~Within(since, task.today, p)
      /\ result >= task.picked
      /\ task.shift # "morning in the east" => result = task.picked

\* Reference: the change of a field from the last reported day to this one.
Change(closes, d, field) ==
  IF d = First(closes) THEN 0
  ELSE closes[d][field] - closes[Max({o \in DOMAIN closes : o < d})][field]

SumOf(lines) == SumFunction([l \in lines |-> l.amount])

\* The lines of a day add up to exactly the rounded change of the account's
\* value, whatever the halves round to, and the deposit is the money that
\* moved; a gap in the graph has no lines and its change falls on the day
\* that reports it; rounding moves a file's sum by half a cent a day at most.
LinesAddUp ==
  Answered("earnings") =>
    LET closes == DailyCloses(ParsePoints(task.graph))
        days   == {d \in DOMAIN closes : task.since <= d /\ d <= task.until}
        exact  == SumFunction([d \in days |-> Change(closes, d, "value")])
        error  == 10 * SumOf(result) - exact
    IN /\ {l.day : l \in result} \subseteq days
       /\ \A d \in days :
            /\ SumOf({l \in result : l.day = d}) = Cents(Change(closes, d, "value"))
            /\ SumOf({l \in result : l.day = d /\ l.entry_type = "deposit"}) = Cents(Change(closes, d, "deposits"))
       /\ 2 * (IF error < 0 THEN -error ELSE error) <= 10 * Cardinality(days)

\* The line that a row of the feed is to become; where the money comes from is
\* its payee, unless that is an account of INTERNAL_ACCOUNTS.
Meant(m) ==
  IF m.cancelled \/ ~m.dated \/ (m.type = "Dividend" /\ m.amount = {}) THEN Dropped
  ELSE Entry(IF m.shape \in {"fee", "between"} \/ (m.shape \in {"legs", "from"} /\ m.party \in Internal) THEN NoText ELSE m.party,
             m.account, m.type, IF m.type \in BuyTypes THEN Negated(m.amount) ELSE m.amount)

\* A transfer from an account of INTERNAL_ACCOUNTS to one of the user's that is
\* not in it: the code cannot tell that account from a stranger.
ToUnlisted(m) ==
  m.shape = "legs" /\ m.party \in Internal /\ m.account \notin Internal /\ Meant(m) # Dropped

\* Every row is read as what it is about, though its header does not say
\* which of its texts is what, in any feed whose other rows name the accounts
\* between which money moved; but of a transfer to an account of one's own
\* that the code does not list, that account is made the payee, which nobody
\* is, and nothing else about it is wrong.
ReadAsMeant ==
  Answered("feed") =>
    LET Read == Range(task.feed) IN
      (\A m \in Read : m.shape = "between" => m.party \in {o.account : o \in Read})
        => \A i \in DOMAIN task.feed :
             LET m == task.feed[i] IN
               result[i] = IF ToUnlisted(m) THEN [Meant(m) EXCEPT !.payee = m.account] ELSE Meant(m)
=============================================================================
