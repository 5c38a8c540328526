------------------------- MODULE NationalBankProofs -------------------------
(***************************************************************************)
(* Proofs about a National Bank session: for any waits, codes and tables,  *)
(* the scraper says of the sign-in what the bank said, and an export that  *)
(* carries no note leaves out no row.                                      *)
(*                                                                         *)
(* The sign-in: what is on its way to the bank was sent from the page that *)
(* shows (Sending), and of an error on the code's page the wait has been   *)
(* long enough to tell whose it is (Errors).  The export: the rows in hand *)
(* reach past since_date if the loop says so (Reached), the note is what   *)
(* they call for (Noted), and the files written so far hold the rows of    *)
(* the accounts they were written for, each its own (Sorted).              *)
(***************************************************************************)
EXTENDS NationalBank, FiniteSetTheorems, WellFoundedInduction, TLAPS

Early == {"new", "cookies_entry", "entry", "form", "cookies_form", "type", "submit", "login_outcome"}

Counted ==
  /\ step \in Early => tries = 0
  /\ step \in {"type_code", "confirm", "code_outcome"} => tries > 0

Entered == (page = "app" => accepted) /\ (authenticated => accepted)

Sending ==
  /\ step \in {"cookies_form", "type", "submit"} => page = "form"
  /\ submitted = "login" => page = "form" /\ step \in {"login_outcome", "gone"}
  /\ submitted = "code" => page = "code" /\ step \in {"code_outcome", "gone"} /\ sent = <<tries>>
  /\ step = "confirm" => field = <<tries>>

Errors ==
  /\ step = "code_outcome" /\ alert = "new" => verdict # "none" /\ submitted # "code"
  /\ step = "code_outcome" /\ alert = "old" => waited <= ClearBy
  /\ step = "idle" /\ answer = "needs_otp" /\ tries > 0 => verdict # "none"

Ends    == {"sign_out", "parse", "write", "done", "failed"}
Writing == {"write", "done"}

\* The rows of the table, by number: Kept and Posted without the sequence.
IsPosted(i) == table[i].kind = "posted"
IsKept(i)   == (IF table[i].kind = "pending" THEN Today ELSE table[i].day) >= Since

\* Before the export, and before it writes, nothing of it has happened.
Fresh ==
  /\ at = "none" <=> step # "exporting"
  /\ at = "none" => held = 0 /\ count = -1
  /\ at \notin Writing \union {"failed"} => files = << >> /\ made = {}

Reached == reached => at \in Ends /\ \E i \in 1 .. held : IsPosted(i) /\ table[i].day < Since

\* Without a note the rows in hand reach since_date, if one of them is kept.
Noted ==
  at \in Writing /\ ~note /\ ~reached /\ (\E i \in 1 .. held : IsPosted(i) /\ IsKept(i)) =>
    \E i \in 1 .. held : IsPosted(i) /\ table[i].day = Since

Sorted ==
  /\ IsFiniteSet(DOMAIN files)
  /\ \A i \in 1 .. held : IsKept(i) /\ table[i].account \in made => \E n \in DOMAIN files : i \in files[n]
  /\ \A n \in DOMAIN files : \A i, j \in files[n] : table[i].account = table[j].account
  /\ at = "done" => \A i \in 1 .. held : IsKept(i) => table[i].account \in made

SignInInv  == TypeOK /\ Counted /\ Entered /\ Sending /\ Errors
HistoryInv == HistoryTypeOK /\ Fresh /\ Reached /\ Noted /\ Sorted
IInv       == SignInInv /\ HistoryInv

-----------------------------------------------------------------------------
(* The sign-in.                                                            *)

USE DEF Early

\* The bank's steps keep what is known of the sign-in.
LEMMA BankKeepsSignIn == ASSUME SignInInv, Bank PROVE SignInInv'
<1> USE SignInAssumption DEF SignInInv, TypeOK, Counted, Entered, Sending, Errors, scraper
<1>1. CASE ShowPage BY <1>1 DEF ShowPage
<1>2. CASE AnswerLogin
  <2> USE <1>2 DEF AnswerLogin, LetIn
  <2>1. TypeOK'
    <3>1. refused' \in BOOLEAN /\ accepted' \in BOOLEAN /\ authenticated' \in BOOLEAN BY Zenon
    <3>2. page' \in {"blank", "denied", "form", "code", "app"} /\ alert' \in {"none", "old", "new"} OBVIOUS
    <3>3. field' \in Seq(1 .. MaxTries) /\ sent' \in Seq(1 .. MaxTries)
      <4>1. field' \in {field, << >>} /\ sent' \in {sent, << >>} BY Zenon
      <4>2. field \in Seq(1 .. MaxTries) /\ sent \in Seq(1 .. MaxTries) BY ONLY SignInInv, Zenon DEF SignInInv, TypeOK
      <4>3. << >> \in Seq(1 .. MaxTries) BY ONLY SMT
      <4> QED BY ONLY <4>1, <4>2, <4>3, Zenon
    <3>4. submitted' \in {"nothing", "login", "code"} /\ verdict' \in {"none", "accepted", "rejected"} OBVIOUS
    <3>5. waited' \in 0 .. Patience /\ attempt' \in 1 .. MaxAttempts /\ tries' \in 0 .. MaxTries OBVIOUS
    <3>6. answer' \in {"none", "needs_otp", "authenticated", "failed"} OBVIOUS
    <3> QED BY <3>1, <3>2, <3>3, <3>4, <3>5, <3>6, Zenon
  <2>2. Counted' OBVIOUS
  <2>3. Entered' OBVIOUS
  <2>4. Sending' OBVIOUS
  <2>5. Errors' OBVIOUS
  <2> QED BY <2>1, <2>2, <2>3, <2>4, <2>5
<1>3. CASE ClearAlert BY <1>3 DEF ClearAlert
<1>4. CASE AnswerCode
  <2> USE <1>4 DEF AnswerCode, LetIn
  <2>1. TypeOK'
    <3>1. refused' \in BOOLEAN /\ accepted' \in BOOLEAN /\ authenticated' \in BOOLEAN BY Zenon
    <3>2. page' \in {"blank", "denied", "form", "code", "app"} /\ alert' \in {"none", "old", "new"} OBVIOUS
    <3>3. field' \in Seq(1 .. MaxTries) /\ sent' \in Seq(1 .. MaxTries)
      <4>1. field' \in {field, << >>} /\ sent' \in {sent, << >>} BY Zenon
      <4>2. field \in Seq(1 .. MaxTries) /\ sent \in Seq(1 .. MaxTries) BY ONLY SignInInv, Zenon DEF SignInInv, TypeOK
      <4>3. << >> \in Seq(1 .. MaxTries) BY ONLY SMT
      <4> QED BY ONLY <4>1, <4>2, <4>3, Zenon
    <3>4. submitted' \in {"nothing", "login", "code"} /\ verdict' \in {"none", "accepted", "rejected"} OBVIOUS
    <3>5. waited' \in 0 .. Patience /\ attempt' \in 1 .. MaxAttempts /\ tries' \in 0 .. MaxTries OBVIOUS
    <3>6. answer' \in {"none", "needs_otp", "authenticated", "failed"} OBVIOUS
    <3> QED BY <3>1, <3>2, <3>3, <3>4, <3>5, <3>6, Zenon
  <2>2. Counted' OBVIOUS
  <2>3. Entered' OBVIOUS
  <2>4. Sending' OBVIOUS
  <2>5. Errors' OBVIOUS
  <2> QED BY <2>1, <2>2, <2>3, <2>4, <2>5
<1>5. CASE UserSignsIn
  <2> USE <1>5 DEF UserSignsIn, LetIn
  <2>1. TypeOK'
    <3>1. refused' \in BOOLEAN /\ accepted' \in BOOLEAN /\ authenticated' \in BOOLEAN BY Zenon
    <3>2. page' \in {"blank", "denied", "form", "code", "app"} /\ alert' \in {"none", "old", "new"} OBVIOUS
    <3>3. field' \in Seq(1 .. MaxTries) /\ sent' \in Seq(1 .. MaxTries) OBVIOUS
    <3>4. submitted' \in {"nothing", "login", "code"} /\ verdict' \in {"none", "accepted", "rejected"} OBVIOUS
    <3>5. waited' \in 0 .. Patience /\ attempt' \in 1 .. MaxAttempts /\ tries' \in 0 .. MaxTries OBVIOUS
    <3>6. answer' \in {"none", "needs_otp", "authenticated", "failed"} OBVIOUS
    <3> QED BY <3>1, <3>2, <3>3, <3>4, <3>5, <3>6, Zenon
  <2>2. Counted' OBVIOUS
  <2>3. Entered' OBVIOUS
  <2>4. Sending' OBVIOUS
  <2>5. Errors' OBVIOUS
  <2> QED BY <2>1, <2>2, <2>3, <2>4, <2>5
<1> QED BY <1>1, <1>2, <1>3, <1>4, <1>5 DEF Bank

\* So do the calls.
LEMMA CallsKeepSignIn == ASSUME SignInInv, StartAuth \/ ContinueAuth \/ Call PROVE SignInInv'
<1> USE SignInAssumption DEF SignInInv, TypeOK, Counted, Entered, Sending, Errors, bank, Goto, Quiet, Raise, Return
<1>1. CASE StartAuth BY <1>1 DEF StartAuth
<1>2. CASE ContinueAuth
  <2> USE <1>2 DEF ContinueAuth, Ready, SignedIn
  <2>1. TypeOK'
    <3>1. refused' \in BOOLEAN /\ accepted' \in BOOLEAN /\ authenticated' \in BOOLEAN BY Zenon
    <3>2. page' \in {"blank", "denied", "form", "code", "app"} /\ alert' \in {"none", "old", "new"} OBVIOUS
    <3>3. field' \in Seq(1 .. MaxTries) /\ sent' \in Seq(1 .. MaxTries) OBVIOUS
    <3>4. submitted' \in {"nothing", "login", "code"} /\ verdict' \in {"none", "accepted", "rejected"} OBVIOUS
    <3>5. waited' \in 0 .. Patience /\ attempt' \in 1 .. MaxAttempts /\ tries' \in 0 .. MaxTries OBVIOUS
    <3>6. answer' \in {"none", "needs_otp", "authenticated", "failed"} OBVIOUS
    <3> QED BY <3>1, <3>2, <3>3, <3>4, <3>5, <3>6, Zenon
  <2>2. Counted' OBVIOUS
  <2>3. Entered' OBVIOUS
  <2>4. Sending' OBVIOUS
  <2>5. Errors' OBVIOUS
  <2> QED BY <2>1, <2>2, <2>3, <2>4, <2>5
<1>3. CASE AcceptCookies BY <1>3 DEF AcceptCookies, AfterCookies
<1>4. CASE OpenForm BY <1>4 DEF OpenForm
<1>5. CASE FormShows BY <1>5 DEF FormShows
<1>6. CASE TypeLogin BY <1>6 DEF TypeLogin
<1>7. CASE SubmitLogin BY <1>7 DEF SubmitLogin
<1>8. CASE LoginOutcome
  <2> USE <1>8 DEF LoginOutcome, SignedIn
  <2>1. TypeOK'
    <3>1. refused' \in BOOLEAN /\ accepted' \in BOOLEAN /\ authenticated' \in BOOLEAN BY Zenon
    <3>2. page' \in {"blank", "denied", "form", "code", "app"} /\ alert' \in {"none", "old", "new"} OBVIOUS
    <3>3. field' \in Seq(1 .. MaxTries) /\ sent' \in Seq(1 .. MaxTries) OBVIOUS
    <3>4. submitted' \in {"nothing", "login", "code"} /\ verdict' \in {"none", "accepted", "rejected"} OBVIOUS
    <3>5. waited' \in 0 .. Patience /\ attempt' \in 1 .. MaxAttempts /\ tries' \in 0 .. MaxTries OBVIOUS
    <3>6. answer' \in {"none", "needs_otp", "authenticated", "failed"} OBVIOUS
    <3> QED BY <3>1, <3>2, <3>3, <3>4, <3>5, <3>6, Zenon
  <2>2. Counted' OBVIOUS
  <2>3. Entered' OBVIOUS
  <2>4. Sending' OBVIOUS
  <2>5. Errors' OBVIOUS
  <2> QED BY <2>1, <2>2, <2>3, <2>4, <2>5
<1>9. CASE Authenticated BY <1>9 DEF Authenticated
<1>10. CASE TypeCode BY <1>10 DEF TypeCode, Cleared
<1>11. CASE Confirm BY <1>11 DEF Confirm
<1>12. CASE CodeOutcome
  <2> USE <1>12 DEF CodeOutcome, SignedIn, Believed
  <2>1. TypeOK'
    <3>1. refused' \in BOOLEAN /\ accepted' \in BOOLEAN /\ authenticated' \in BOOLEAN BY Zenon
    <3>2. page' \in {"blank", "denied", "form", "code", "app"} /\ alert' \in {"none", "old", "new"} OBVIOUS
    <3>3. field' \in Seq(1 .. MaxTries) /\ sent' \in Seq(1 .. MaxTries) OBVIOUS
    <3>4. submitted' \in {"nothing", "login", "code"} /\ verdict' \in {"none", "accepted", "rejected"} OBVIOUS
    <3>5. waited' \in 0 .. Patience /\ attempt' \in 1 .. MaxAttempts /\ tries' \in 0 .. MaxTries OBVIOUS
    <3>6. answer' \in {"none", "needs_otp", "authenticated", "failed"} OBVIOUS
    <3> QED BY <3>1, <3>2, <3>3, <3>4, <3>5, <3>6, Zenon
  <2>2. Counted' OBVIOUS
  <2>3. Entered' OBVIOUS
  <2>4. Sending' OBVIOUS
  <2>5. Errors' OBVIOUS
  <2> QED BY <2>1, <2>2, <2>3, <2>4, <2>5
<1>13. CASE NotYet BY <1>13 DEF NotYet, Overdue, Seen
<1>14. CASE GiveUp BY <1>14 DEF GiveUp
<1>15. CASE \E s \in Clicks : Fails(s) BY <1>15 DEF Clicks, Fails
<1> QED
  BY <1>1, <1>2, <1>3, <1>4, <1>5, <1>6, <1>7, <1>8, <1>9, <1>10, <1>11, <1>12, <1>13, <1>14, <1>15 DEF Call

\* An export touches of the sign-in only the page and _authenticated, by signing out.
LEMMA ExportKeepsSignIn == ASSUME SignInInv, StartExport \/ ExportStep PROVE SignInInv'
<1> USE DEF SignInInv, TypeOK, Counted, Entered, Sending, Errors
<1>1. CASE StartExport BY <1>1 DEF StartExport, bank
<1>2. CASE ExportStep
  <2>1. step = "exporting" /\ UNCHANGED signInOnly BY <1>2 DEF ExportStep, Exporting
  <2>2. page' \in {page, "form"}
    BY <1>2, Zenon DEF ExportStep, Export, Site, Open, Apply, Settle, Read, Judge, Started, Break, SignOut,
                Parse, Write, WriteFails, Finish, Begin, Render, Rest, Stop
  <2>3. authenticated' = authenticated \/ authenticated' = FALSE BY <1>2, Zenon DEF ExportStep, Export, SignOut
  <2>4. CASE authenticated' = authenticated BY <2>1, <2>2, <2>4 DEF signInOnly
  <2>5. CASE authenticated' = FALSE
    <3>1. authenticated' \in BOOLEAN /\ ~authenticated' BY ONLY <2>5, Zenon
    <3>2. TypeOK' BY <2>1, <2>2, <3>1 DEF signInOnly
    <3>3. Counted' /\ Sending' /\ Errors' BY <2>1, <2>2 DEF signInOnly
    <3>4. Entered' BY <2>1, <2>2, <3>1 DEF signInOnly
    <3> QED BY <3>2, <3>3, <3>4
  <2> QED BY <2>3, <2>4, <2>5
<1> QED BY <1>1, <1>2

-----------------------------------------------------------------------------
(* The rows in hand, and the names of the files.                           *)

\* What the loop has in hand are the first rows of the table.
LEMMA InHand ==
  ASSUME HistoryTypeOK
  PROVE  /\ table \in Seq(TableRow)
         /\ DOMAIN Rows = 1 .. held /\ \A i \in 1 .. held : Rows[i] = table[i]
         /\ Kept = {i \in 1 .. held : IsKept(i)}
         /\ Posted = {i \in 1 .. held : IsKept(i) /\ IsPosted(i)}
<1>1. table \in Seq(TableRow) /\ held \in 0 .. Len(table)
  <2>1. Tables \subseteq Seq(TableRow) BY ONLY HistoryAssumption, Zenon DEF HistoryAssumption
  <2>2. << >> \in Seq(TableRow) BY ONLY SMT
  <2>3. table \in Tables \union {<< >>} /\ held \in 0 .. Len(table) BY Zenon DEF HistoryTypeOK
  <2> QED BY ONLY <2>1, <2>2, <2>3, Zenon
<1>2. DOMAIN Rows = 1 .. held /\ \A i \in 1 .. held : Rows[i] = table[i] BY ONLY <1>1, SMT DEF Rows
<1>3. Kept = {i \in 1 .. held : IsKept(i)} BY ONLY <1>2, SMT DEF Kept, IsKept, Day
<1>4. Posted = {i \in 1 .. held : IsKept(i) /\ IsPosted(i)} BY ONLY <1>2, <1>3, SMT DEF Posted, IsPosted
<1> QED BY ONLY <1>1, <1>2, <1>3, <1>4, Zenon

\* The day of a row is a number, and posted rows come the newest first.
LEMMA NewestFirst ==
  ASSUME HistoryTypeOK
  PROVE  /\ 1 .. held \subseteq DOMAIN table /\ DOMAIN table = 1 .. Len(table) /\ Len(table) \in Nat
         /\ Since \in Nat /\ \A i \in DOMAIN table : table[i].day \in Nat
         /\ \A i, j \in DOMAIN table : i < j /\ IsPosted(i) /\ IsPosted(j) => table[j].day <= table[i].day
<1>1. table \in Seq(TableRow) /\ held \in 0 .. Len(table) BY InHand, Zenon DEF HistoryTypeOK
<1>2. 1 .. held \subseteq DOMAIN table /\ DOMAIN table = 1 .. Len(table) /\ Len(table) \in Nat BY ONLY <1>1, SMT
<1>3. \A i \in DOMAIN table : table[i].day \in Nat
  <2>1. \A i \in DOMAIN table : table[i] \in TableRow BY ONLY <1>1, SMT
  <2> QED BY ONLY <2>1, SMT DEF TableRow
<1>4. Since \in Nat BY HistoryAssumption DEF HistoryAssumption
<1>5. ASSUME NEW i \in DOMAIN table, NEW j \in DOMAIN table, i < j, IsPosted(i), IsPosted(j)
      PROVE  table[j].day <= table[i].day
  <2>1. CASE table \in Tables BY <1>5, <2>1, HistoryAssumption, Zenon DEF HistoryAssumption, IsPosted
  <2>2. CASE table = << >>
    <3>1. DOMAIN table = {} BY ONLY <2>2, SMT
    <3> QED BY <3>1, Zenon
  <2> QED BY <2>1, <2>2, Zenon DEF HistoryTypeOK
<1> QED BY <1>2, <1>3, <1>4, <1>5, Zenon

\* Every nonempty set of numbers has a least one.
Below == {p \in Nat \X Nat : p[1] < p[2]}

LEMMA Least == ASSUME NEW S \in SUBSET Nat, S # {} PROVE Min(S) \in S /\ \A y \in S : Min(S) <= y
<1>1. IsWellFoundedOn(Below, Nat) BY NatLessThanWellFounded, Zenon DEF OpToRel, Below
<1>2. PICK x \in S : \A y \in S : ~(<<y, x>> \in Below) BY ONLY <1>1, WFMin, S # {}, S \in SUBSET Nat, Zenon
<1>3. \A y \in S : x <= y
  <2> TAKE y \in S
  <2>1. x \in Nat /\ y \in Nat /\ ~(<<y, x>> \in Below) BY ONLY <1>2, S \in SUBSET Nat, y \in S, x \in S, Zenon
  <2> QED BY ONLY <2>1, SMT DEF Below
<1> QED BY ONLY <1>3, x \in S, Zenon DEF Min


\* Among one more numbers than there are files, one makes a name not taken.
LEMMA FreeNumber ==
  ASSUME NEW D, IsFiniteSet(D), NEW slug \in Seq(Nat)
  PROVE  \E n \in 2 .. Cardinality(D) + 2 : Append(slug, n) \notin D
<1> DEFINE c == Cardinality(D)
           f == [n \in 2 .. c + 2 |-> Append(slug, n)]
<1>1. c \in Nat BY FS_CardinalityType
<1>2. SUFFICES ASSUME \A n \in 2 .. c + 2 : Append(slug, n) \in D PROVE FALSE OBVIOUS
<1> HIDE DEF c
<1>3. IsFiniteSet(2 .. c + 2) /\ Cardinality(2 .. c + 2) = c + 1
  <2>1. c + 2 \in Int /\ 2 \in Int /\ 2 <= c + 2 BY <1>1
  <2>2. Cardinality(2 .. c + 2) = (c + 2) - 2 + 1 BY ONLY <2>1, FS_Interval
  <2>3. IsFiniteSet(2 .. c + 2) BY ONLY <2>1, FS_Interval
  <2> QED BY <2>2, <2>3, <1>1
<1>4. f \in [2 .. c + 2 -> D] BY <1>2
<1>5. PICK x, y \in 2 .. c + 2 : x # y /\ f[x] = f[y]
  <2> HIDE DEF f
  <2>1. c < c + 1 BY <1>1
  <2> QED BY ONLY <1>3, <1>4, <2>1, FS_PigeonHole, IsFiniteSet(D), Zenon DEF c
<1>6. Append(slug, x) = Append(slug, y) BY <1>5
<1> QED BY ONLY <1>1, <1>5, <1>6, x \in 2 .. c + 2, y \in 2 .. c + 2, slug \in Seq(Nat), SMT

\* So no file takes another's place.
LEMMA NameIsFree ==
  ASSUME IsFiniteSet(DOMAIN files), NEW slug \in Name
  PROVE  FreeName(slug) \notin DOMAIN files
<1>1. CASE slug \notin DOMAIN files BY <1>1 DEF FreeName
<1>2. CASE slug \in DOMAIN files
  <2> DEFINE S == {n \in 2 .. Cardinality(DOMAIN files) + 2 : Append(slug, n) \notin DOMAIN files}
  <2>1. Cardinality(DOMAIN files) \in Nat BY FS_CardinalityType
  <2>2. S \in SUBSET Nat BY ONLY <2>1, SMT
  <2>3. S # {} BY FreeNumber DEF Name
  <2>4. Min(S) \in S BY ONLY <2>2, <2>3, Least
  <2>5. FreeName(slug) = Append(slug, Min(S)) BY ONLY <1>2, Zenon DEF FreeName
  <2> QED BY ONLY <2>4, <2>5, Zenon
<1> QED BY <1>1, <1>2

-----------------------------------------------------------------------------
(* The export.                                                             *)

\* The calls do not touch the export, nor begin or end one.
LEMMA SignInKeepsHistory == ASSUME HistoryInv, SignInStep PROVE HistoryInv'
<1>1. step = "exporting" <=> step' = "exporting"
  <2>1. CASE Bank
    BY <2>1, Zenon DEF Bank, ShowPage, AnswerLogin, ClearAlert, AnswerCode, UserSignsIn, scraper
  <2>2. CASE StartAuth \/ ContinueAuth \/ Call
    BY <2>2 DEF StartAuth, ContinueAuth, Call, Goto, Quiet, Raise, Return, AcceptCookies, AfterCookies, OpenForm,
           FormShows, TypeLogin, SubmitLogin, LoginOutcome, Authenticated, TypeCode, Confirm, CodeOutcome, NotYet,
           Seen, GiveUp, Clicks, Fails
  <2> QED BY <2>1, <2>2 DEF SignInStep
<1>2. UNCHANGED historyOnly BY DEF SignInStep
<1> QED
  BY <1>1, <1>2 DEF HistoryInv, HistoryTypeOK, Fresh, Reached, Noted, Sorted, IsKept, IsPosted, historyOnly, site, reading

\* An export starts with nothing in hand.
LEMMA StartKeepsHistory == ASSUME HistoryInv, StartExport PROVE HistoryInv'
<1> USE DEF StartExport, reading, HistoryInv, Fresh, Reached, Noted, Sorted, Ends, Writing
<1>1. HistoryTypeOK' BY HistoryAssumption DEF HistoryTypeOK, HistoryAssumption
<1>2. Fresh' /\ Reached' /\ Noted' OBVIOUS
<1>3. Sorted' OBVIOUS
<1> QED BY <1>1, <1>2, <1>3

\* The page of the table changes only what it shows.
LEMMA SiteKeepsHistory == ASSUME HistoryInv, Site, UNCHANGED step PROVE HistoryInv'
<1> USE DEF HistoryInv, Site, Begin, Render, Rest, reading
<1>1. /\ UNCHANGED <<table, at, polls, count, since, held, round, reached, failed, note, files, made>>
      /\ request' \in {"nothing", request} /\ loading' \in BOOLEAN
  BY Zenon
<1>2. shown' \in 0 .. Len(table) /\ wanted' \in shown' .. Len(table) BY DEF HistoryTypeOK
<1>3. HistoryTypeOK' BY <1>1, <1>2 DEF HistoryTypeOK
<1>4. Fresh' /\ Reached' /\ Noted' /\ Sorted'
  BY <1>1 DEF Fresh, Reached, Noted, Sorted, IsKept, IsPosted
<1> QED BY <1>3, <1>4

\* The loop ends with TRUE only on rows past since_date.
LEMMA PastIsSeen == ASSUME HistoryTypeOK, ReachesPast PROVE \E i \in 1 .. held : IsPosted(i) /\ table[i].day < Since
<1>1. PICK i \in {j \in DOMAIN Rows : Rows[j].kind = "posted"} : Rows[i].day < Since BY Zenon DEF ReachesPast, Oldest
<1>2. i \in 1 .. held /\ Rows[i] = table[i] BY <1>1, InHand, Zenon
<1> QED BY <1>1, <1>2, Zenon DEF IsPosted

\* Reading: until the export writes, what the loop says of its rows is so.
Reads == Open \/ Apply \/ Settle \/ Read \/ Judge \/ Started \/ Break \/ SignOut

LEMMA ReadKeepsHistory == ASSUME HistoryInv, UNCHANGED step, step = "exporting", Reads PROVE HistoryInv'
<1> USE DEF site, reading, Go
<1>0. HistoryTypeOK /\ Len(table) \in Nat /\ Still \in Nat \ {0} /\ Rounds \in Nat \ {0} /\ Patience \in Nat
  <2>1. table \in Seq(TableRow) BY InHand DEF HistoryInv
  <2>2. Len(table) \in Nat BY ONLY <2>1, SMT
  <2> QED BY <2>2, HistoryAssumption, SignInAssumption, Zenon DEF HistoryAssumption, SignInAssumption, HistoryInv
<1>1. /\ at \in {"open", "filter", "settle", "read", "judge", "started", "sign_out"}
      /\ at' \in {"filter", "settle", "read", "judge", "started", "sign_out", "parse", "failed"}
      /\ UNCHANGED <<table, files, made, note>>
  BY Zenon DEF Reads, Open, Apply, Settle, Read, Judge, Started, Break, SignOut, Watched, Stop
<1>2. Fresh' /\ Noted' /\ Sorted'
  <2>1. files = << >> /\ made = {} BY <1>1 DEF HistoryInv, Fresh, Writing
  <2>2. Fresh' /\ Noted' BY <1>1, <2>1 DEF Fresh, Noted, Writing
  <2>3. IsFiniteSet(DOMAIN files') BY <1>1 DEF HistoryInv, Sorted
  <2>4. files' = << >> /\ made' = {} /\ at' # "done" BY ONLY <1>1, <2>1, Zenon
  <2>5. DOMAIN files' = {} BY ONLY <2>4, SMT
  <2> QED BY ONLY <2>2, <2>3, <2>4, <2>5, Zenon DEF Sorted
<1>3. HistoryTypeOK'
  <2> USE <1>0 DEF HistoryTypeOK
  <2>1. CASE Open BY <2>1 DEF Open
  <2>2. CASE Apply BY <2>2 DEF Apply
  <2>3. CASE Settle BY <2>3 DEF Settle, Same
  <2>4. CASE Read
    <3>1. UNCHANGED <<page, site, count, since, round, failed, note, files, made>> BY <2>4 DEF Read
    <3>2. held' = shown /\ polls' = 0 BY <2>4, Zenon DEF Read, Stop
    <3>3. reached' \in BOOLEAN BY <2>4, Zenon DEF Read, Stop
    <3> QED BY <3>1, <3>2, <3>3
  <2>5. CASE Judge
    <3>1. UNCHANGED <<table, shown, loading, wanted, count, since, held, failed, note, files, made>> BY <2>5 DEF Judge
    <3>2. request' \in {"nothing", "apply", "more"} /\ polls' = 0 BY <2>5, Zenon DEF Judge, Stop
    <3>3. round' \in 1 .. Rounds + 1
      <4>1. round' = round \/ (round' = round + 1 /\ round <= Rounds) BY ONLY <2>5, Zenon DEF Judge, InRounds
      <4>2. round \in 1 .. Rounds + 1 /\ Rounds \in Nat BY ONLY <1>0, Zenon DEF HistoryTypeOK
      <4> QED BY ONLY <4>1, <4>2, SMT
    <3>4. reached' \in BOOLEAN BY <2>5, Zenon DEF Judge, Stop
    <3> QED BY <3>1, <3>2, <3>3, <3>4
  <2>6. CASE Started
    <3>1. UNCHANGED <<page, site, held, round, failed, note, files, made>> BY <2>6 DEF Started
    <3>2. polls' \in 0 .. Patience BY <2>6 DEF Started, Stop
    <3>3. count' \in {-1, count} /\ since' \in {0, since} BY <2>6, Zenon DEF Started
    <3>4. reached' \in BOOLEAN BY <2>6, Zenon DEF Started, Stop
    <3> QED BY <3>1, <3>2, <3>3, <3>4
  <2>7. CASE Break
    <3>1. UNCHANGED <<page, site, held, round, reached, note, files, made>> BY <2>7 DEF Break
    <3>2. failed' \in BOOLEAN /\ polls' = 0 /\ count' = -1 /\ since' = 0 BY <2>7 DEF Break
    <3> QED BY <3>1, <3>2
  <2>8. CASE SignOut BY <2>8 DEF SignOut
  <2> QED BY <2>1, <2>2, <2>3, <2>4, <2>5, <2>6, <2>7, <2>8 DEF Reads
<1>4. Reached'
  <2> USE DEF Reached, Ends
  <2>1. CASE SignOut BY <2>1 DEF SignOut, HistoryInv, IsPosted
  <2>2. CASE Judge
    <3>1. UNCHANGED <<table, held>> BY <2>2 DEF Judge
    <3>2. reached' => reached \/ (ReachesPast /\ at' = "sign_out") BY <2>2, Zenon DEF Judge, Stop
    <3>3. ~reached BY <2>2 DEF HistoryInv, Judge
    <3>4. reached' => \E i \in 1 .. held : IsPosted(i) /\ table[i].day < Since BY <3>2, <3>3, PastIsSeen, Zenon DEF HistoryInv
    <3> QED BY <3>1, <3>2, <3>3, <3>4 DEF IsPosted
  <2>3. CASE Open \/ Apply \/ Settle \/ Read \/ Started \/ Break
    <3>1. ~reached BY <2>3 DEF HistoryInv, Open, Apply, Settle, Read, Started, Break, Watched
    <3>2. reached' => reached BY <2>3, Zenon DEF Open, Apply, Settle, Read, Started, Break, Stop
    <3> QED BY <3>1, <3>2
  <2> QED BY <2>1, <2>2, <2>3 DEF Reads
<1> QED BY <1>2, <1>3, <1>4 DEF HistoryInv

\* Parsing says whether the rows that are kept may start too late.
LEMMA ParseKeepsHistory == ASSUME HistoryInv, UNCHANGED step, step = "exporting", Parse PROVE HistoryInv'
<1>1. UNCHANGED <<page, site, reading, files, made>> /\ at = "parse" BY DEF Parse
<1>2. at' \in {"write", "failed"} /\ polls' = 0 BY Zenon DEF Parse, Go
<1>3. files = << >> /\ made = {} BY <1>1 DEF HistoryInv, Fresh, Writing
<1>4. UNCHANGED <<table, held, reached, files, made>> BY <1>1 DEF site, reading
<1>5. HistoryTypeOK'
  <2>1. failed' \in BOOLEAN /\ note' \in BOOLEAN
    <3>1. Short \in BOOLEAN BY Zenon DEF Short
    <3>2. failed \in BOOLEAN /\ note \in BOOLEAN BY DEF HistoryInv, HistoryTypeOK
    <3> QED BY <3>1, <3>2, Zenon DEF Parse
  <2>2. 0 \in 0 .. Patience BY SignInAssumption DEF SignInAssumption
  <2> QED BY <1>1, <1>2, <2>1, <2>2 DEF HistoryInv, HistoryTypeOK, site, reading
<1>6. Fresh' BY <1>1, <1>2, <1>3 DEF HistoryInv, Fresh, Writing
<1>7. Reached' BY <1>1, <1>2, <1>4 DEF HistoryInv, Reached, Ends, IsPosted
<1>8. Noted'
  <2> SUFFICES ASSUME at' = "write", ~note', ~reached, NEW i \in 1 .. held, IsPosted(i), IsKept(i)
               PROVE  \E k \in 1 .. held : IsPosted(k) /\ table[k].day = Since
    BY <1>2, <1>4 DEF Noted, Writing, IsPosted, IsKept
  <2>1. note' = Short BY Zenon DEF Parse, Go
  <2>2. i \in Posted BY InHand, Zenon DEF HistoryInv
  <2>3. PICK k \in Posted : ~(Day(k) > Since) BY <2>1, <2>2, Zenon DEF Short
  <2>4. k \in 1 .. held /\ IsKept(k) /\ IsPosted(k) /\ Rows[k] = table[k] BY <2>3, InHand, Zenon DEF HistoryInv
  <2>5. Day(k) = table[k].day /\ table[k].day >= Since BY <2>4 DEF Day, IsKept, IsPosted
  <2>6. table[k].day \in Nat /\ Since \in Nat
    <3>1. table \in Seq(TableRow) /\ k \in 1 .. Len(table) BY <2>4, InHand DEF HistoryInv, HistoryTypeOK
    <3>2. table[k] \in TableRow BY ONLY <3>1, SMT
    <3> QED BY <3>2, HistoryAssumption DEF HistoryAssumption, TableRow
  <2> QED BY <2>3, <2>4, <2>5, <2>6, SMT
<1>9. Sorted'
  <2>1. DOMAIN files' = {} /\ made' = {} BY <1>3, <1>4
  <2>2. IsFiniteSet(DOMAIN files') BY <1>4 DEF HistoryInv, Sorted
  <2> QED BY <1>2, <2>1, <2>2, Zenon DEF Sorted
<1> QED BY <1>5, <1>6, <1>7, <1>8, <1>9, Zenon DEF HistoryInv

\* The next account's file is a new one, of that account's rows.
LEMMA WriteAdds ==
  ASSUME HistoryInv, Write
  PROVE  \E a, name, rows :
           /\ name \notin DOMAIN files /\ files' = WithFile(name, rows) /\ made' = made \union {a}
           /\ rows = {i \in 1 .. held : IsKept(i) /\ table[i].account = a}
<1> DEFINE a == Rows[Min(Left)].account
<1>1. Min(Left) \in Left
  <2>1. Left \subseteq Kept BY Zenon DEF Left
  <2>2. Left \in SUBSET (1 .. held) BY <2>1, InHand, Zenon DEF HistoryInv
  <2>3. Left \in SUBSET Nat BY ONLY <2>2, SMT
  <2>4. Left # {} BY Zenon DEF Write
  <2> QED BY ONLY <2>3, <2>4, Least, Zenon
<1>2. Min(Left) \in 1 .. held /\ a = table[Min(Left)].account BY <1>1, InHand, Zenon DEF Left, HistoryInv
<1>3. Slug[a] \in Name
  <2>1. table \in Seq(TableRow) BY InHand, Zenon DEF HistoryInv
  <2>2. held \in 0 .. Len(table) BY Zenon DEF HistoryInv, HistoryTypeOK
  <2>3. table[Min(Left)] \in TableRow BY ONLY <1>2, <2>1, <2>2, SMT
  <2>4. a \in DOMAIN Slug BY ONLY <1>2, <2>3, SMT DEF TableRow
  <2>5. Slug \in [DOMAIN Slug -> Name] BY HistoryAssumption, Zenon DEF HistoryAssumption
  <2> QED BY ONLY <2>4, <2>5, Zenon
<1>4. FreeName(Slug[a]) \notin DOMAIN files BY <1>3, NameIsFree, Zenon DEF HistoryInv, Sorted
<1> DEFINE rows == {i \in Kept : Rows[i].account = a}
<1>5. files' = WithFile(FreeName(Slug[a]), rows) /\ made' = made \union {a} BY Zenon DEF Write
<1>6. rows = {i \in 1 .. held : IsKept(i) /\ table[i].account = a}
  <2> HIDE DEF a
  <2>1. Kept = {i \in 1 .. held : IsKept(i)} /\ \A i \in 1 .. held : Rows[i] = table[i] BY InHand, Zenon DEF HistoryInv
  <2> QED BY ONLY <2>1, Zenon
<1> HIDE DEF a, rows
<1> QED BY ONLY <1>4, <1>5, <1>6, Zenon

\* Writing: each file holds the rows of its account, all that are kept.
LEMMA WriteKeepsHistory == ASSUME HistoryInv, UNCHANGED step, step = "exporting", Write PROVE HistoryInv'
<1>1. PICK a, name, rows :
        /\ name \notin DOMAIN files /\ files' = WithFile(name, rows) /\ made' = made \union {a}
        /\ rows = {i \in 1 .. held : IsKept(i) /\ table[i].account = a}
  BY WriteAdds, Zenon
<1>2. UNCHANGED <<page, site, at, polls, reading, failed, note>> /\ at = "write" BY Zenon DEF Write
<1>3. UNCHANGED <<table, shown, loading, wanted, request, at, polls, count, since, held, round, reached, failed, note>>
  BY <1>2, Zenon DEF site, reading
<1>4. /\ DOMAIN files' = DOMAIN files \union {name} /\ files'[name] = rows
      /\ \A n \in DOMAIN files : files'[n] = files[n]
  BY ONLY <1>1, Zenon DEF WithFile
<1>5. HistoryTypeOK'
  <2>1. rows \subseteq 1 .. Len(table)
    <3>1. table \in Seq(TableRow) /\ held \in 0 .. Len(table) BY InHand, Zenon DEF HistoryInv, HistoryTypeOK
    <3>2. 1 .. held \subseteq 1 .. Len(table) BY ONLY <3>1, SMT
    <3> QED BY <1>1, <3>2, Zenon
  <2>2. \A n \in DOMAIN files' : files'[n] \subseteq 1 .. Len(table)
    BY ONLY <1>4, <2>1, HistoryInv, Zenon DEF HistoryInv, HistoryTypeOK
  <2> QED BY ONLY <1>3, <2>2, HistoryInv, Zenon DEF HistoryInv, HistoryTypeOK
<1>6. Fresh' /\ Reached' /\ Noted'
  BY ONLY <1>2, <1>3, HistoryInv, UNCHANGED step, SMT DEF HistoryInv, Fresh, Reached, Noted, Ends, Writing, IsPosted, IsKept
<1>7. Sorted'
  <2>1. IsFiniteSet(DOMAIN files')
    <3>1. IsFiniteSet(DOMAIN files) BY Zenon DEF HistoryInv, Sorted
    <3> QED BY ONLY <1>4, <3>1, FS_AddElement, Zenon
  <2>2. ASSUME NEW i \in 1 .. held, IsKept(i), table[i].account \in made'
        PROVE  \E n \in DOMAIN files' : i \in files'[n]
    <3>1. CASE table[i].account = a BY <1>1, <1>4, <2>2, <3>1, Zenon
    <3>2. CASE table[i].account \in made
      <4>1. PICK n \in DOMAIN files : i \in files[n] BY <2>2, <3>2, Zenon DEF HistoryInv, Sorted
      <4> QED BY <1>4, <4>1, Zenon
    <3> QED BY <1>1, <2>2, <3>1, <3>2, Zenon
  <2>3. \A n \in DOMAIN files' : \A i, j \in files'[n] : table[i].account = table[j].account
    <3> SUFFICES ASSUME NEW n \in DOMAIN files', NEW i \in files'[n], NEW j \in files'[n]
                 PROVE  table[i].account = table[j].account
      OBVIOUS
    <3>1. CASE n = name BY ONLY <1>1, <1>4, <3>1, i \in files'[n], j \in files'[n], Zenon
    <3>2. CASE n \in DOMAIN files
      <4>1. i \in files[n] /\ j \in files[n] BY ONLY <1>4, <3>2, i \in files'[n], j \in files'[n], Zenon
      <4> QED BY <3>2, <4>1, Zenon DEF HistoryInv, Sorted
    <3> QED BY ONLY <1>4, <3>1, <3>2, n \in DOMAIN files', Zenon
  <2> QED BY <1>2, <1>3, <2>1, <2>2, <2>3, Zenon DEF Sorted, IsKept
<1> QED BY <1>5, <1>6, <1>7, Zenon DEF HistoryInv

\* The writing ends when no account is left, or fails.
LEMMA EndKeepsHistory ==
  ASSUME HistoryInv, UNCHANGED step, step = "exporting", Finish \/ WriteFails
  PROVE  HistoryInv'
<1>1. UNCHANGED <<table, shown, loading, wanted, request, count, since, held, round, reached, note, files, made>>
  BY Zenon DEF Finish, WriteFails, site, reading
<1>2. at = "write" /\ at' \in {"done", "failed"} /\ polls' = 0 /\ failed' \in {TRUE, failed}
  BY Zenon DEF Finish, WriteFails, Go
<1>3. HistoryTypeOK'
  <2>1. 0 \in 0 .. Patience BY SignInAssumption DEF SignInAssumption
  <2>2. failed' \in BOOLEAN BY <1>2, Zenon DEF HistoryInv, HistoryTypeOK
  <2> QED BY ONLY <1>1, <1>2, <2>1, <2>2, HistoryInv, Zenon DEF HistoryInv, HistoryTypeOK
<1>4. Fresh' /\ Reached' /\ Noted'
  BY ONLY <1>1, <1>2, HistoryInv, UNCHANGED step, SMT DEF HistoryInv, Fresh, Reached, Noted, Ends, Writing, IsPosted, IsKept
<1>5. at' = "done" => \A i \in 1 .. held : IsKept(i) => table[i].account \in made
  <2> SUFFICES ASSUME at' = "done", NEW i \in 1 .. held, IsKept(i) PROVE table[i].account \in made OBVIOUS
  <2>1. Left = {} BY Zenon DEF Finish, WriteFails, Go
  <2>2. i \in Kept /\ Rows[i] = table[i] BY InHand, Zenon DEF HistoryInv
  <2> QED BY <2>1, <2>2, Zenon DEF Left
<1>6. Sorted' BY ONLY <1>1, <1>5, HistoryInv, SMT DEF HistoryInv, Sorted, IsKept
<1> QED BY <1>3, <1>4, <1>6, Zenon DEF HistoryInv

-----------------------------------------------------------------------------
(* The session.                                                            *)

\* The invariant of a session holds throughout, whatever the page does.
THEOREM Invariant == Spec => []IInv
<1>1. BothInit => IInv
  <2> SUFFICES ASSUME BothInit PROVE IInv OBVIOUS
  <2> USE DEF BothInit
  <2>0. {Patience, MaxAttempts, MaxTries, Still, Rounds} \subseteq Nat /\ MaxAttempts > 0 /\ Still > 0 /\ Rounds > 0
    BY SignInAssumption, HistoryAssumption DEF SignInAssumption, HistoryAssumption
  <2>1. SignInInv
    <3>1. TypeOK
      <4>1. refused \in BOOLEAN /\ accepted \in BOOLEAN /\ authenticated \in BOOLEAN BY Zenon DEF Init
      <4>2. << >> \in Seq(1 .. MaxTries) BY ONLY SMT
      <4>3. waited \in 0 .. Patience /\ attempt \in 1 .. MaxAttempts /\ tries \in 0 .. MaxTries BY <2>0 DEF Init
      <4> QED BY <4>1, <4>2, <4>3, Zenon DEF Init, TypeOK
    <3>2. Counted /\ Entered /\ Sending /\ Errors BY DEF Init, Counted, Entered, Sending, Errors
    <3> QED BY <3>1, <3>2, Zenon DEF SignInInv
  <2>2. HistoryTypeOK
    <3>1. Len(table) = 0 /\ DOMAIN files = {} BY DEF HistoryInit
    <3>2. /\ shown \in 0 .. 0 /\ wanted \in shown .. 0 /\ polls \in 0 .. Patience /\ count \in -1 .. 0
          /\ since \in 0 .. Still - 1 /\ held \in 0 .. 0 /\ round \in 1 .. Rounds + 1
      BY <2>0 DEF HistoryInit
    <3> QED BY <3>1, <3>2, Zenon DEF HistoryInit, HistoryTypeOK
  <2>3. Fresh /\ Reached /\ Noted BY DEF Init, HistoryInit, Fresh, Reached, Noted, Writing
  <2>4. Sorted
    <3>1. DOMAIN files = {} /\ made = {} /\ at = "none" BY DEF HistoryInit
    <3> QED BY ONLY <3>1, FS_EmptySet, Zenon DEF Sorted
  <2> QED BY <2>1, <2>2, <2>3, <2>4, Zenon DEF IInv, HistoryInv
<1>2. IInv /\ [BothNext]_allVars => IInv'
  <2> SUFFICES ASSUME IInv, [BothNext]_allVars PROVE IInv' OBVIOUS
  <2>0. SignInInv /\ HistoryInv BY Zenon DEF IInv
  <2>1. CASE SignInStep
    <3>1. SignInInv' BY <2>0, <2>1, BankKeepsSignIn, CallsKeepSignIn, Zenon DEF SignInStep
    <3> QED BY <2>0, <2>1, <3>1, SignInKeepsHistory, Zenon DEF IInv
  <2>2. CASE StartExport BY <2>0, <2>2, ExportKeepsSignIn, StartKeepsHistory, Zenon DEF IInv
  <2>3. CASE ExportStep
    <3>1. SignInInv' BY <2>0, <2>3, ExportKeepsSignIn, Zenon
    <3>2. step = "exporting" /\ UNCHANGED step /\ (Export \/ Site)
      BY <2>3, Zenon DEF ExportStep, Exporting, signInOnly
    <3>3. HistoryInv'
      BY <2>0, <3>2, SiteKeepsHistory, ReadKeepsHistory, ParseKeepsHistory, WriteKeepsHistory, EndKeepsHistory, Zenon
      DEF Export, Reads
    <3> QED BY <3>1, <3>3, Zenon DEF IInv
  <2>4. CASE UNCHANGED allVars
    <3>1. UNCHANGED <<vars, historyOnly>> BY <2>4 DEF allVars
    <3>2. SignInInv'
      BY <2>0, <3>1 DEF vars, bank, scraper, SignInInv, TypeOK, Counted, Entered, Sending, Errors
    <3>3. HistoryInv'
      BY <2>0, <3>1 DEF vars, bank, scraper, historyOnly, site, reading, HistoryInv, HistoryTypeOK, Fresh, Reached,
         Noted, Sorted, IsKept, IsPosted
    <3> QED BY <3>2, <3>3, Zenon DEF IInv
  <2> QED BY <2>1, <2>2, <2>3, <2>4, Zenon DEF BothNext
<1> QED BY <1>1, <1>2, PTL DEF Spec

\* Type correctness of the session: what start_auth, continue_auth and
\* download_transaction_files keep, and the rows in hand, stay in range.
THEOREM TypeCorrect == Spec => []BankTypeOK
<1>1. IInv => BankTypeOK BY Zenon DEF IInv, SignInInv, HistoryInv, BankTypeOK
<1> QED BY Invariant, <1>1, PTL

\* _wait_for_login_outcome, _send_otp and continue_auth say of the sign-in
\* what the bank has said, and confirm the one code that was asked for.
THEOREM SaysWhatTheBankSaid == Spec => []SignInIsTrue
<1>1. IInv => SignInIsTrue BY Zenon DEF IInv, SignInInv, Entered, Sending, Errors, SignInIsTrue
<1> QED BY Invariant, <1>1, PTL

\* download_transaction_files: an export that carries no note leaves out no
\* row after since_date, and write_account_csvs gives each account its file.
THEOREM NotedOrWhole == Spec => []NoSilentGap
<1>1. ASSUME IInv PROVE NoSilentGap
  <2> SUFFICES ASSUME at = "done", ~note, Posted # {}
               PROVE  /\ {i \in Asked : table[i].day > Since \/ reached} \subseteq Written
                      /\ \A i \in Written : \A n \in DOMAIN files : i \in files[n] =>
                           \A j \in files[n] : table[i].account = table[j].account
    BY Zenon DEF NoSilentGap
  <2>1. HistoryTypeOK /\ Reached /\ Noted /\ Sorted BY <1>1, Zenon DEF IInv, HistoryInv
  <2>2. PICK k \in 1 .. held : IsPosted(k) /\ table[k].day <= Since /\ (reached => table[k].day < Since)
    <3>1. CASE reached
      <4>1. PICK k \in 1 .. held : IsPosted(k) /\ table[k].day < Since BY <2>1, <3>1, Zenon DEF Reached
      <4>2. table[k].day \in Nat /\ Since \in Nat BY <2>1, NewestFirst, Zenon
      <4>3. table[k].day <= Since BY ONLY <4>1, <4>2, SMT
      <4> QED BY <4>1, <4>3, Zenon
    <3>2. CASE ~reached
      <4>1. PICK k \in 1 .. held : IsPosted(k) /\ table[k].day = Since
        BY <2>1, <3>2, InHand, Zenon DEF Noted, Writing
      <4>2. Since \in Nat BY <2>1, NewestFirst, Zenon
      <4>3. table[k].day <= Since BY ONLY <4>1, <4>2, SMT
      <4> QED BY <3>2, <4>1, <4>3, Zenon
    <3> QED BY <3>1, <3>2, Zenon
  <2>3. ASSUME NEW i \in Asked, table[i].day > Since \/ reached PROVE i \in Written
    <3>1. i \in DOMAIN table /\ IsPosted(i) /\ table[i].day >= Since BY Zenon DEF Asked, IsPosted
    <3>2. i \in 1 .. held
      <4>1. k \in DOMAIN table /\ (k < i => table[i].day <= table[k].day)
        BY <2>1, <2>2, <3>1, NewestFirst, Zenon
      <4>2. table[i].day \in Nat /\ table[k].day \in Nat /\ Since \in Nat BY <2>1, <3>1, <4>1, NewestFirst, Zenon
      <4>3. table[k].day < table[i].day
        <5>1. CASE reached BY ONLY <2>2, <3>1, <4>2, <5>1, SMT
        <5>2. CASE table[i].day > Since BY ONLY <2>2, <4>2, <5>2, SMT
        <5> QED BY <2>3, <5>1, <5>2
      <4>4. ~(k < i) BY ONLY <4>1, <4>2, <4>3, SMT
      <4>5. i \in 1 .. Len(table) /\ Len(table) \in Nat BY <2>1, <3>1, NewestFirst, Zenon
      <4>6. held \in 0 .. Len(table) BY <2>1, Zenon DEF HistoryTypeOK
      <4> QED BY ONLY <4>4, <4>5, <4>6, k \in 1 .. held, SMT
    <3>3. IsKept(i) BY <3>1, Zenon DEF IsKept, IsPosted
    <3>4. PICK n \in DOMAIN files : i \in files[n] BY <2>1, <3>2, <3>3, Zenon DEF Sorted
    <3> QED BY <3>4, Zenon DEF Written, Range
  <2> QED BY <2>1, <2>3, Zenon DEF Sorted
<1> QED BY Invariant, <1>1, PTL
=============================================================================
