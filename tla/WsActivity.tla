----------------------------- MODULE WsActivity -----------------------------
(***************************************************************************)
(* The activity files of Wealthsimple: download_transaction_files of       *)
(* wealthsimple.py drives the bank's export dialog, whose account rows     *)
(* render one by one, falls back to reading the activity feed, and splits  *)
(* what was downshown, missed by account (split_by_account_type.py).  A wait may  *)
(* give up whenever what it waits for is not there.  The download wait is  *)
(* taken for what module Downloads shows of it.  The export starts on the  *)
(* page that the sign-in (WsSignIn) has left.                              *)
(***************************************************************************)
EXTENDS WsSignIn, FiniteSets, Functions, SequencesExt

CONSTANTS
  Account,      \* the accounts of the user
  AccountType,  \* account_type_slug of each, by number
  FileName,     \* name of the file the bank sends of each, as a tuple of its parts, by number
  Combined,     \* name of the one file it may send instead
  Feed,         \* days of the activity feed's rows, newest first but for those without a day
  Since         \* since_date

\* The name of a file the bank sends, and that of the file of the feed.
Name     == Seq(Nat) \ {<<>>}
FeedFile == <<>>

\* The day of a row whose header names none, as "Scheduled activities" does.
Undated == -1

ASSUME ActivityAssumption ==
  /\ IsFiniteSet(Account) /\ Account # {}
  /\ AccountType \in [Account -> Nat] /\ FileName \in [Account -> Name] /\ Combined \in Name
  /\ Since \in Nat /\ Feed \in Seq(Nat \union {Undated})
  /\ \A i, j \in DOMAIN Feed : i < j => Feed[j] <= Feed[i] \/ Feed[i] = Undated

VARIABLES
  rendered, ticked, master, readable,  \* the dialog: rows, their boxes, "All accounts", whether rows can be told
  at,                          \* the scraper
  expected,                    \* account_count
  dir,                         \* the export directory: the accounts, or rows of the feed, in each file
  left, parts, served,         \* split_exports_by_account_type: paths to come, parts so far, result
  arrived,                     \* history: accounts in the files downshown, missed
  shown,                       \* rows of the feed on the page
  missed,                      \* history: "Load more" was not found although rows were to come
  escaped                      \* history: an exception was raised that nobody catches

dialog == <<rendered, ticked, master, readable>>
files  == <<dir, left, parts, served, arrived>>

-----------------------------------------------------------------------------
(* The export dialog.                                                      *)

InDialog == {"period", "accounts", "all", "all_ticked", "each", "recount"}

\* The bank draws another row; "All accounts" holds for the rows to come.
RenderRow ==
  /\ at \in InDialog
  /\ \E a \in Account \ rendered :
       /\ rendered' = rendered \union {a}
       /\ ticked' = IF master = "on" THEN ticked \union {a} ELSE ticked
  /\ UNCHANGED <<page, master, readable, at, expected, files, shown, missed, escaped>>

Rows == IF readable THEN rendered ELSE {}

Go(where) == at' = where /\ UNCHANGED <<page, files, shown, missed, escaped>>

OpenDialog ==
  /\ at = "activity" /\ page = "app" /\ Go("period") /\ UNCHANGED <<dialog, expected>>

\* _select_export_period, and Next.
Period == at = "period" /\ Go("accounts") /\ UNCHANGED <<dialog, expected>>

AwaitAccounts ==
  /\ at = "accounts"
  /\ \/ master # "hidden" /\ Go("all")
     \/ master = "hidden" /\ Rows # {} /\ Go("each")
  /\ UNCHANGED <<dialog, expected>>

ClickAll ==
  /\ at = "all" /\ Go("all_ticked")
  /\ IF master = "off" THEN master' = "on" /\ ticked' \in SUBSET rendered
                       ELSE UNCHANGED <<master, ticked>>
  /\ UNCHANGED <<rendered, readable, expected>>

AllTicked == Rows # {} /\ Rows \subseteq ticked

AccountsTicked ==
  /\ at = "all_ticked"
  /\ \/ AllTicked /\ expected' = Cardinality(Rows) /\ Go("csv")
     \/ ~AllTicked /\ Rows = {} /\ expected' = 0 /\ Go("csv")
     \/ ~AllTicked /\ Rows # {} /\ Go("each") /\ UNCHANGED expected
  /\ UNCHANGED dialog

\* _select_export_accounts_individually; a click may not take.
TickEach ==
  /\ at = "each" /\ Rows # {} /\ Go("recount")
  /\ ticked' \in {ticked \union t : t \in SUBSET Rows}
  /\ UNCHANGED <<rendered, master, readable, expected>>

Recount ==
  /\ at = "recount" /\ AllTicked
  /\ expected' = Cardinality(Rows) /\ Go("csv") /\ UNCHANGED dialog

Close == rendered' = {} /\ ticked' = {} /\ master' = "hidden" /\ readable' = TRUE /\ expected' = 0

\* What the bank sends: one file, or some at least of those of the accounts.
Sent ==
  {[n \in {Combined} |-> ticked]}
    \union {[n \in {FileName[a] : a \in s} |-> {a \in s : FileName[a] = n}] : s \in SUBSET ticked \ {{}}}

Download ==
  /\ at = "csv" /\ ticked # {}
  /\ dir' \in Sent /\ left' = SetToSeq(DOMAIN dir') /\ arrived' = UNION Range(dir')
  /\ at' = "split" /\ Close
  /\ UNCHANGED <<page, parts, served, shown, missed, escaped>>

\* Any wait or click of the dialog may raise; the feed is read instead.
FallBack ==
  /\ at \in InDialog \union {"activity", "csv"}
  /\ Go("feed") /\ Close

\* But the browser's own exceptions, of a look, are not caught.
DialogBreaks ==
  /\ at \in InDialog \union {"activity", "csv"}
  /\ at' = "failed" /\ escaped' = TRUE /\ Close /\ UNCHANGED <<page, files, shown, missed>>

-----------------------------------------------------------------------------
(* split_exports_by_account_type, one path after the other.                *)

Path  == Head(left)
Types == {AccountType[a] : a \in dir[Path]}

\* Mutant of Unused: the name is taken whether it is free or not.
Overwriting(name) == name

Unused(name) ==
  IF name \notin DOMAIN dir THEN name
  ELSE Append(name, Min({n \in 2 .. Cardinality(DOMAIN dir) + 2 : Append(name, n) \notin DOMAIN dir}))

Part(t) == Unused(<<t>> \o Path)

\* The directory once there is such a file too.
WithFile(name, rows) ==
  [n \in DOMAIN dir \union {name} |-> IF n = name THEN rows ELSE dir[n]]

ServeFor(names) ==
  /\ left' = Tail(left) /\ parts' = {} /\ served' = served \union names
  /\ UNCHANGED <<page, dialog, at, expected, arrived, shown, missed, escaped>>

\* No account_type column, or an error at any point: the file is served
\* whole, and a part may lie beside it half written.
ServeWhole ==
  /\ at = "split" /\ left # <<>> /\ ServeFor({Path})
  /\ dir' \in {dir} \union {WithFile(Part(t), {}) : t \in Types}

RenameFile ==
  /\ at = "split" /\ left # <<>>
  /\ \E t \in Types :
       /\ Types = {t}
       /\ dir' = Restrict(WithFile(Part(t), dir[Path]), (DOMAIN dir \ {Path}) \union {Part(t)})
       /\ ServeFor({Part(t)})

WritePart ==
  /\ at = "split" /\ left # <<>> /\ Cardinality(Types) > 1
  /\ \E t \in Types \ {AccountType[a] : a \in UNION {dir[p] : p \in parts}} :
       /\ dir' = WithFile(Part(t), {a \in dir[Path] : AccountType[a] = t})
       /\ parts' = parts \union {Part(t)}
  /\ UNCHANGED <<page, dialog, at, expected, left, served, arrived, shown, missed, escaped>>

DropOriginal ==
  /\ at = "split" /\ left # <<>> /\ parts # {} /\ UNION {dir[p] : p \in parts} = dir[Path]
  /\ dir' = Restrict(dir, DOMAIN dir \ {Path}) /\ ServeFor(parts)

EndSplit ==
  /\ at = "split" /\ left = <<>> /\ Go("earnings") /\ UNCHANGED <<dialog, expected>>

-----------------------------------------------------------------------------
(* The fallback: _write_scraped_activity, fetch_activity.                  *)

\* No row in time is read as an account without activity.
OpenFeed ==
  /\ at = "feed" /\ page = "app"
  /\ shown' \in 0 .. Len(Feed)
  /\ at' = "load" /\ UNCHANGED <<page, dialog, expected, files, missed, escaped>>

\* The header of the last row shown names no day, or one that is not after since_date.
FarEnough == shown > 0 => Feed[shown] = Undated \/ Feed[shown] <= Since

LoadMore ==
  /\ at = "load" /\ ~FarEnough
  /\ shown' \in shown + 1 .. Len(Feed)
  /\ UNCHANGED <<page, dialog, at, expected, files, missed, escaped>>

\* _read_activity_rows and the file, as soon as the rows go back far enough or
\* no "Load more" is found, be it that there are no more.
ReadFeed ==
  /\ at = "load" /\ missed' = (~FarEnough /\ shown < Len(Feed))
  /\ dir' = [n \in {FeedFile} |-> {i \in 1 .. shown : Feed[i] >= Since}]
  /\ served' = {FeedFile} /\ at' = "earnings"
  /\ UNCHANGED <<page, dialog, expected, left, parts, arrived, shown, escaped>>

FeedFails == at \in {"feed", "load"} /\ Go("failed") /\ UNCHANGED <<dialog, expected>>

Activity ==
  \/ OpenDialog \/ Period \/ AwaitAccounts \/ ClickAll \/ AccountsTicked \/ TickEach \/ Recount
  \/ Download \/ FallBack \/ DialogBreaks \/ ServeWhole \/ RenameFile \/ WritePart \/ DropOriginal \/ EndSplit
  \/ OpenFeed \/ LoadMore \/ ReadFeed \/ FeedFails

ActivityInit ==
  /\ rendered = {} /\ ticked = {} /\ master = "hidden" /\ readable = TRUE
  /\ at = "none" /\ expected = 0
  /\ dir = <<>> /\ left = <<>> /\ parts = {} /\ served = {} /\ arrived = {}
  /\ shown = 0 /\ missed = FALSE /\ escaped = FALSE

-----------------------------------------------------------------------------
(* Properties.                                                             *)

ActivityTypeOK ==
  /\ ticked \subseteq rendered /\ rendered \subseteq Account
  /\ master \in {"hidden", "off", "on"} /\ readable \in BOOLEAN
  /\ expected \in 0 .. Cardinality(Account) /\ arrived \subseteq Account
  /\ Range(left) \subseteq DOMAIN dir /\ parts \subseteq DOMAIN dir
  /\ shown \in 0 .. Len(Feed) /\ missed \in BOOLEAN /\ escaped \in BOOLEAN

\* Whatever fails while files are split, renamed or removed, every account's
\* rows that were downloaded are in exactly one of the files served; and the
\* fallback has every row after since_date, unless it saw no row, stopped at
\* one whose header names no day, or found no "Load more" when there was more.
RowsServedOnce ==
  at \in {"earnings", "done"} =>
    /\ served \subseteq DOMAIN dir
    /\ FeedFile \notin served => \A a \in arrived : \E n \in served : \A m \in served : a \in dir[m] <=> m = n
    /\ FeedFile \in served /\ shown > 0 /\ Feed[shown] # Undated /\ ~missed =>
         {i \in DOMAIN Feed : Feed[i] > Since} \subseteq dir[FeedFile]
=============================================================================
