----------------------------- MODULE NbcHistory -----------------------------
(***************************************************************************)
(* The export of National Bank: download_transaction_files of nbc.py reads *)
(* a table that loads and re-renders at its own pace, and transactions.py  *)
(* writes its rows to one file per account.  The bank never says whether   *)
(* the table has more rows: its end is inferred, and export_notes tells    *)
(* the user when the export may start late.  It starts on the page that    *)
(* the sign-in (NbcSignIn) has left.                                       *)
(***************************************************************************)
EXTENDS NbcSignIn, FiniteSets, Functions, FiniteSetsExt

CONSTANTS
  Tables,     \* tables the bank may hold, newest row first
  Slug,       \* account_slug of each account, as a tuple of its parts
  Since,      \* since_date
  Today,
  Rounds,     \* MAX_LOAD_MORE_ROUNDS
  Still       \* TABLE_SETTLE, in polls

\* account_csv_row's input: a row of the table.
TableRow == [day : Nat, account : DOMAIN Slug, kind : {"posted", "pending", "garbled"}]

\* The name of a file: its parts, by number.
Name == Seq(Nat)

\* The bank lists its posted rows by day, the newest first.
ASSUME HistoryAssumption ==
  /\ {Since, Today} \subseteq Nat /\ {Rounds, Still} \subseteq Nat \ {0}
  /\ Slug \in [DOMAIN Slug -> Name]
  /\ Tables \subseteq Seq(TableRow)
  /\ \A t \in Tables : \A i, j \in DOMAIN t :
       i < j /\ t[i].kind = "posted" /\ t[j].kind = "posted" => t[j].day <= t[i].day

VARIABLES
  table,                      \* its rows: day, account, kind (posted, pending, garbled)
  shown, loading,             \* rows on the page, the spinner
  wanted, request,            \* rows the page is to show, what it has not begun: nothing, apply, more
  at, polls,                  \* the scraper: where it is, polls of this wait
  count, since,               \* locals of _wait_for_table: last row count, polls it has held
  held, round, reached,       \* locals of _read_rows_back_to: rows in hand, round_number, its answer
  failed, note,               \* an exception is on its way, the export carries a note
  files, made                 \* files written: their names and the rows in each; accounts written

site    == <<table, shown, loading, wanted, request>>
reading == <<count, since, held, round, reached>>

-----------------------------------------------------------------------------
(* The bank's page: it may be slow, stall, or show its spinner late.       *)

Watched == at \in {"open", "filter", "settle", "read", "judge", "started"}

Begin ==
  /\ request # "nothing" /\ request' = "nothing"
  /\ shown' \in IF request = "apply" THEN {0, shown} ELSE {shown}
  /\ wanted' \in shown' .. Len(table)
  /\ loading' \in BOOLEAN
  /\ UNCHANGED <<page, table, at, polls, reading, failed, note, files, made>>

Render ==
  /\ shown < wanted /\ shown' \in shown + 1 .. wanted
  /\ loading' \in BOOLEAN
  /\ UNCHANGED <<page, table, wanted, request, at, polls, reading, failed, note, files, made>>

Rest ==
  /\ loading /\ loading' = FALSE
  /\ UNCHANGED <<page, table, shown, wanted, request, at, polls, reading, failed, note, files, made>>

\* What the page does once the export looks no more is left out.
Site == Watched /\ (Begin \/ Render \/ Rest)

-----------------------------------------------------------------------------
(* Reading the table.                                                      *)

Go(where) == at' = where /\ polls' = 0

Open ==
  /\ at = "open" /\ page = "app" /\ Go("filter")
  /\ UNCHANGED <<page, site, reading, failed, note, files, made>>

\* _show_last_12_months, up to its wait.
Apply ==
  /\ at = "filter"
  /\ request' = "apply" /\ count' = -1 /\ since' = 0 /\ Go("settle")
  /\ UNCHANGED <<page, table, shown, loading, wanted, held, round, reached, failed, note, files, made>>

Same == count = shown /\ ~loading

\* _wait_for_table: the row count has held, with no spinner.
Settle ==
  /\ at = "settle"
  /\ \/ Same /\ since + 1 >= Still /\ Go("read") /\ count' = -1 /\ since' = 0
     \/ /\ ~(Same /\ since + 1 >= Still)
        /\ polls < Patience /\ polls' = polls + 1 /\ UNCHANGED at
        /\ count' = shown /\ since' = IF Same THEN since + 1 ELSE 0
  /\ UNCHANGED <<page, site, held, round, reached, failed, note, files, made>>

Stop(past) == reached' = past /\ Go("sign_out")

\* _read_rows, after the wait: nothing more came, or another round.
Read ==
  /\ at = "read"
  /\ held' = shown
  /\ \/ round > 1 /\ shown <= held /\ Stop(FALSE)
     \/ (round = 1 \/ shown > held) /\ Go("judge") /\ UNCHANGED reached
  /\ UNCHANGED <<page, site, count, since, round, failed, note, files, made>>

Rows == SubSeq(table, 1, held)

\* _oldest_date: a pending row has no date, an unreadable one is passed over.
Oldest == {Rows[i].day : i \in {j \in DOMAIN Rows : Rows[j].kind = "posted"}}

\* Mutant of ReachesPast: a row of that day is enough.
ReachesDay == \E d \in Oldest : d <= Since

ReachesPast == \E d \in Oldest : d < Since

\* Mutant of InRounds: the loop has no last round.
EveryRound == TRUE

InRounds == round <= Rounds

\* A turn of the loop: done, or "show more" (or a scroll); the last of the
\* rounds ends the loop after its read.
Judge ==
  /\ at = "judge"
  /\ \/ InRounds /\ ReachesPast /\ Stop(TRUE) /\ UNCHANGED <<request, round>>
     \/ InRounds /\ ~ReachesPast /\ request' = (IF request = "apply" THEN request ELSE "more")
          /\ round' = round + 1 /\ Go("started") /\ UNCHANGED reached
     \/ ~InRounds /\ Stop(FALSE) /\ UNCHANGED <<request, round>>
  /\ UNCHANGED <<page, table, shown, loading, wanted, count, since, held, failed, note, files, made>>

\* _more_rows_started: more rows or the spinner, or neither for too long.
Started ==
  /\ at = "started"
  /\ \/ /\ shown > held \/ loading
        /\ Go("settle") /\ count' = -1 /\ since' = 0 /\ UNCHANGED reached
     \/ /\ shown <= held /\ ~loading
        /\ IF polls < Patience THEN polls' = polls + 1 /\ UNCHANGED <<at, reached>> ELSE Stop(FALSE)
        /\ UNCHANGED <<count, since>>
  /\ UNCHANGED <<page, site, held, round, failed, note, files, made>>

\* A wait that gives up, or any step that raises, on the way: sign out all the same.
Break ==
  /\ Watched
  /\ failed' = TRUE /\ Go("sign_out") /\ count' = -1 /\ since' = 0
  /\ UNCHANGED <<page, site, held, round, reached, note, files, made>>

\* _sign_out: best effort, also after an exception; what the browser itself
\* raises, at any moment of it, escapes.
SignOut ==
  /\ at = "sign_out"
  /\ page' \in {page, "form"}
  /\ \/ Go(IF failed THEN "failed" ELSE "parse") /\ authenticated' = FALSE
     \/ Go("failed") /\ UNCHANGED authenticated
  /\ UNCHANGED <<site, reading, failed, note, files, made>>

-----------------------------------------------------------------------------
(* transactions.py: from rows to files.                                    *)

Day(i)  == IF Rows[i].kind = "pending" THEN Today ELSE Rows[i].day
Kept    == {i \in DOMAIN Rows : Day(i) >= Since}
Posted  == {i \in Kept : Rows[i].kind = "posted"}
Garbled == \E i \in DOMAIN Rows : Rows[i].kind = "garbled"

\* coverage_note is not None.
Short == ~reached /\ Posted # {} /\ \A i \in Posted : Day(i) > Since

Parse ==
  /\ at = "parse"
  /\ IF Garbled \/ Kept = {}
       THEN failed' = TRUE /\ Go("failed") /\ UNCHANGED note
       ELSE note' = Short /\ Go("write") /\ UNCHANGED failed
  /\ UNCHANGED <<page, site, reading, files, made>>

Written == UNION Range(files)
Left    == {i \in Kept : Rows[i].account \notin made}

FreeName(slug) ==
  IF slug \notin DOMAIN files THEN slug
  ELSE Append(slug, Min({n \in 2 .. Cardinality(DOMAIN files) + 2 : Append(slug, n) \notin DOMAIN files}))

\* The files, and one of that name: an older one of the name is written over.
WithFile(name, rows) ==
  [n \in DOMAIN files \union {name} |-> IF n = name THEN rows ELSE files[n]]

\* write_account_csvs, one account after the other as they first appear.
Write ==
  /\ at = "write" /\ Left # {}
  /\ LET a == Rows[Min(Left)].account
     IN /\ files' = WithFile(FreeName(Slug[a]), {i \in Kept : Rows[i].account = a})
        /\ made' = made \union {a}
  /\ UNCHANGED <<page, site, at, polls, reading, failed, note>>

WriteFails ==
  /\ at = "write" /\ Left # {}
  /\ failed' = TRUE /\ Go("failed")
  /\ UNCHANGED <<page, site, reading, note, files, made>>

Finish ==
  /\ at = "write" /\ Left = {} /\ Go("done")
  /\ UNCHANGED <<page, site, reading, failed, note, files, made>>

Export ==
  \/ SignOut
  \/ /\ \/ Open \/ Apply \/ Settle \/ Read \/ Judge \/ Started \/ Break
        \/ Parse \/ Write \/ WriteFails \/ Finish
     /\ UNCHANGED authenticated

HistoryInit ==
  /\ table = <<>> /\ shown = 0 /\ wanted = 0
  /\ loading = FALSE /\ request = "nothing"
  /\ at = "none" /\ polls = 0 /\ count = -1 /\ since = 0
  /\ held = 0 /\ round = 1 /\ reached = FALSE
  /\ failed = FALSE /\ note = FALSE /\ files = <<>> /\ made = {}

-----------------------------------------------------------------------------
(* Properties.                                                             *)

HistoryTypeOK ==
  /\ table \in Tables \union {<<>>}
  /\ shown \in 0 .. Len(table) /\ wanted \in shown .. Len(table)
  /\ loading \in BOOLEAN /\ request \in {"nothing", "apply", "more"}
  /\ polls \in 0 .. Patience
  /\ count \in -1 .. Len(table) /\ since \in 0 .. Still - 1 /\ held \in 0 .. Len(table)
  /\ round \in 1 .. Rounds + 1
  /\ reached \in BOOLEAN /\ failed \in BOOLEAN /\ note \in BOOLEAN
  /\ \A n \in DOMAIN files : files[n] \subseteq 1 .. Len(table)

\* Rows of the bank's table that the user asked for.
Asked == {i \in DOMAIN table : table[i].kind = "posted" /\ table[i].day >= Since}

\* Whatever the table's pace, an export that carries no note and holds a
\* posted row leaves out no row after since_date, nor one of that day when
\* the table was read past it, and no file takes another's place.  Of an
\* export that holds pending rows alone ShortfallIsNoted speaks.
NoSilentGap ==
  at = "done" /\ ~note /\ Posted # {} =>
    /\ {i \in Asked : table[i].day > Since \/ reached} \subseteq Written
    /\ \A i \in Written : \A n \in DOMAIN files : i \in files[n] =>
         \A j \in files[n] : table[i].account = table[j].account

\* base.py:74: export_notes is "What the caller should know about the files
\* the last download produced, such as that they cover less than was asked
\* for": a posted row asked for that is missing goes with a note.
ShortfallIsNoted == at = "done" /\ ~note => Asked \subseteq Written
=============================================================================
