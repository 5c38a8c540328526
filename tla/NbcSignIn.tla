----------------------------- MODULE NbcSignIn -----------------------------
(***************************************************************************)
(* Signing in to National Bank: start_auth and continue_auth of            *)
(* pennyspy/scrapers/nbc/nbc.py, over a page that moves by itself.  Every  *)
(* wait of the scraper is _wait_until of zen_scraper.py: a condition is    *)
(* polled until it holds or the wait's patience is used up.  An exception  *)
(* ends the session (run_login, start_verify in scrapers/router.py).       *)
(***************************************************************************)
EXTENDS Integers, Sequences

CONSTANTS
  Patience,    \* polls before a wait gives up
  Grace,       \* OTP_ERROR_GRACE, in polls
  ClearBy,     \* polls after Confirm by which the page has taken back an old error
  MaxAttempts, \* max_attempts of _send_keys_verified
  MaxTries     \* bound: codes the user types

ASSUME SignInAssumption ==
  /\ {Patience, Grace, ClearBy, MaxAttempts, MaxTries} \subseteq Nat
  /\ MaxAttempts > 0 /\ ClearBy < Grace /\ Grace < Patience

VARIABLES
  page,           \* what the bank shows: blank, denied, form, code, app
  refused,        \* the form shows an error text
  alert,          \* the code page's error: none, old (from before Confirm), new
  field,          \* the codes that are in the code field, by number
  submitted,      \* what the bank has not answered yet: nothing, login, code
  accepted,       \* history: the bank has let this session in
  verdict,        \* history: the bank's answer to the last code
  sent,           \* history: the field when Confirm was clicked, until it is answered
  step, waited, attempt,  \* the scraper: where it is, polls of this wait, attempts at typing
  authenticated,  \* NationalBank._authenticated
  tries,          \* codes the user has typed
  answer          \* AuthStep.status of the last call, or failed

bank    == <<page, refused, alert, field, submitted, accepted, verdict, sent>>
scraper == <<step, waited, attempt, authenticated, answer>>
vars    == <<bank, scraper, tries>>

InCall == step \notin {"new", "idle", "exporting", "gone"}

-----------------------------------------------------------------------------
(* The bank's page, and the user in the browser window.                    *)

ShowPage ==
  /\ page = "blank"
  /\ page' \in IF step = "form" THEN {"form"} ELSE {"denied", "form"}
  /\ UNCHANGED <<refused, alert, field, submitted, accepted, verdict, sent, scraper, tries>>

LetIn == page' = "app" /\ accepted' = TRUE /\ field' = <<>> /\ alert' = "none" /\ refused' = FALSE

AnswerLogin ==
  /\ submitted = "login"
  /\ submitted' = "nothing"
  /\ \/ page' = "code" /\ alert' \in {"none", "old"} /\ UNCHANGED <<refused, accepted, field>>
     \/ LetIn
     \/ refused' = TRUE /\ UNCHANGED <<page, alert, accepted, field>>
  /\ UNCHANGED <<verdict, sent, scraper, tries>>

ClearAlert ==
  /\ alert = "old" /\ submitted = "code"
  /\ alert' = "none"
  /\ UNCHANGED <<page, refused, field, submitted, accepted, verdict, sent, scraper, tries>>

AnswerCode ==
  /\ submitted = "code"
  /\ submitted' = "nothing" /\ sent' = <<>>
  /\ \/ Len(sent) = 1 /\ LetIn /\ verdict' = "accepted"
     \/ /\ verdict' = "rejected" /\ alert' = "new" /\ field' \in {field, <<>>}
        /\ UNCHANGED <<page, refused, accepted>>
     \/ page' = "form" /\ verdict' = "rejected" /\ UNCHANGED <<refused, alert, field, accepted>>
  /\ UNCHANGED <<scraper, tries>>

UserSignsIn ==
  /\ page = "code" /\ submitted = "nothing" /\ step = "idle"
  /\ LetIn
  /\ UNCHANGED <<submitted, verdict, sent, scraper, tries>>

Bank == ShowPage \/ AnswerLogin \/ ClearAlert \/ AnswerCode \/ UserSignsIn

-----------------------------------------------------------------------------
(* The scraper's steps.                                                    *)

Goto(s) == step' = s /\ waited' = 0
Quiet   == UNCHANGED <<bank, attempt, authenticated, tries, answer>>
Raise   == Goto("gone") /\ answer' = "failed" /\ UNCHANGED <<bank, attempt, authenticated, tries>>
Return(status) == Goto("idle") /\ answer' = status

\* A click, a search or a script may raise a ScraperError at any time.
Fails(s) == step = s /\ Raise

StartAuth ==
  /\ step = "new"
  /\ Goto("cookies_entry") /\ page' = "blank"
  /\ UNCHANGED <<refused, alert, field, submitted, accepted, verdict, sent, attempt, authenticated, tries, answer>>

\* _accept_cookies: no banner, or one that is clicked away.
AfterCookies ==
  [cookies_entry |-> "entry", cookies_form |-> "type", cookies_done |-> "authenticated"]
AcceptCookies == step \in DOMAIN AfterCookies /\ Goto(AfterCookies[step]) /\ Quiet

\* _open_sign_in_form, up to "Back to sign-in".
OpenForm ==
  /\ step = "entry"
  /\ \/ page = "form" /\ Goto("type") /\ Quiet
     \/ /\ page = "denied" /\ Goto("form") /\ page' = "blank"
        /\ UNCHANGED <<refused, alert, field, submitted, accepted, verdict, sent, attempt, authenticated, tries, answer>>

FormShows == step = "form" /\ page = "form" /\ Goto("cookies_form") /\ Quiet

\* _send_keys_verified: a readback that differs is tried again, one that
\* cannot be had, or differs to the end, is let pass.
TypeLogin ==
  /\ step = "type"
  /\ \/ Goto("submit") /\ attempt' = 1
     \/ attempt < MaxAttempts /\ Goto("type") /\ attempt' = attempt + 1
  /\ UNCHANGED <<bank, authenticated, tries, answer>>

SubmitLogin ==
  /\ step = "submit"
  /\ Goto("login_outcome") /\ submitted' = "login"
  /\ UNCHANGED <<page, refused, alert, field, accepted, verdict, sent, attempt, authenticated, tries, answer>>

SignedIn == page = "app"

\* _wait_for_login_outcome, and what start_auth makes of it.
LoginOutcome ==
  /\ step = "login_outcome"
  /\ \/ page = "code" /\ Return("needs_otp") /\ UNCHANGED <<bank, attempt, authenticated, tries>>
     \/ /\ SignedIn /\ Goto("cookies_done") /\ authenticated' = TRUE
        /\ UNCHANGED <<bank, attempt, tries, answer>>
     \/ page = "form" /\ refused /\ Raise

Authenticated ==
  /\ step = "authenticated" /\ Return("authenticated")
  /\ UNCHANGED <<bank, attempt, authenticated, tries>>

Ready == authenticated \/ SignedIn

\* continue_auth, with or without a code.
ContinueAuth ==
  /\ step = "idle" /\ answer # "authenticated"
  /\ \/ Ready /\ authenticated' = TRUE /\ Return("authenticated") /\ UNCHANGED <<bank, attempt, tries>>
     \/ ~Ready /\ Raise
     \/ /\ ~Ready /\ tries < MaxTries /\ tries' = tries + 1 /\ Goto("type_code")
        /\ UNCHANGED <<bank, attempt, authenticated, answer>>

Cleared == <<>>

TypeCode ==
  /\ step = "type_code" /\ page = "code"
  /\ field' = Append(Cleared, tries)
  /\ Goto("confirm")
  /\ UNCHANGED <<page, refused, alert, submitted, accepted, verdict, sent, attempt, authenticated, tries, answer>>

Confirm ==
  /\ step = "confirm" /\ page = "code"
  /\ submitted' = "code" /\ sent' = field /\ verdict' = "none"
  /\ alert' = IF alert = "new" THEN "old" ELSE alert
  /\ Goto("code_outcome")
  /\ UNCHANGED <<page, refused, field, accepted, attempt, authenticated, tries, answer>>

\* Mutant of Believed: any error on the page is taken for the bank's answer.
BelievedAtOnce == alert # "none"

\* An error is believed only OTP_ERROR_GRACE after Confirm.
Believed == waited >= Grace /\ alert # "none"

\* _send_otp's outcome, and what continue_auth makes of it.
CodeOutcome ==
  /\ step = "code_outcome"
  /\ \/ /\ SignedIn /\ Goto("cookies_done") /\ authenticated' = TRUE
        /\ UNCHANGED <<bank, attempt, tries, answer>>
     \/ page = "form" /\ Raise
     \/ page = "code" /\ Believed /\ Return("needs_otp") /\ UNCHANGED <<bank, attempt, authenticated, tries>>

Seen ==
  CASE step = "entry" -> page \in {"form", "denied"}
    [] step = "form" -> page = "form"
    [] step = "login_outcome" -> page \in {"code", "app"} \/ (page = "form" /\ refused)
    [] step = "code_outcome" -> page \in {"app", "form"} \/ Believed
    [] OTHER -> TRUE

\* An old error does not outlast ClearBy: the page takes it back after Confirm.
Overdue == step = "code_outcome" /\ alert = "old" /\ waited >= ClearBy

\* _wait_until polls again.
NotYet ==
  /\ ~Seen /\ waited < Patience
  /\ waited' = waited + 1
  /\ alert' = IF Overdue THEN "none" ELSE alert
  /\ UNCHANGED <<page, refused, field, submitted, accepted, verdict, sent,
                 step, attempt, authenticated, tries, answer>>

\* Mutant of GiveUp: the wait has no deadline.
NeverGiveUp == FALSE /\ Raise

GiveUp == ~Seen /\ waited >= Patience /\ Raise

\* Steps that drive the page, each of which may raise.
Clicks == {"cookies_entry", "cookies_form", "cookies_done", "entry", "type", "submit", "type_code", "confirm"}

Call ==
  \/ AcceptCookies \/ OpenForm \/ FormShows \/ TypeLogin \/ SubmitLogin \/ LoginOutcome
  \/ Authenticated \/ TypeCode \/ Confirm \/ CodeOutcome \/ NotYet \/ GiveUp
  \/ \E s \in Clicks : Fails(s)

Init ==
  /\ page = "blank" /\ refused = FALSE /\ alert = "none" /\ field = <<>> /\ submitted = "nothing"
  /\ accepted = FALSE /\ verdict = "none" /\ sent = <<>>
  /\ step = "new" /\ waited = 0 /\ attempt = 1 /\ authenticated = FALSE
  /\ tries = 0 /\ answer = "none"

Next == Bank \/ StartAuth \/ ContinueAuth \/ Call

-----------------------------------------------------------------------------
(* Properties.                                                             *)

TypeOK ==
  /\ page \in {"blank", "denied", "form", "code", "app"}
  /\ refused \in BOOLEAN /\ accepted \in BOOLEAN /\ authenticated \in BOOLEAN
  /\ alert \in {"none", "old", "new"}
  /\ field \in Seq(1 .. MaxTries) /\ sent \in Seq(1 .. MaxTries)
  /\ submitted \in {"nothing", "login", "code"}
  /\ verdict \in {"none", "accepted", "rejected"}
  /\ waited \in 0 .. Patience /\ attempt \in 1 .. MaxAttempts /\ tries \in 0 .. MaxTries
  /\ answer \in {"none", "needs_otp", "authenticated", "failed"}

\* The scraper says only what the bank has said: it reports a session signed
\* in only if the bank let it in, and asks for the code again only if the
\* bank has answered the last one, whatever error was on the page before;
\* and what it confirms is that one code, not what an earlier try left.
SignInIsTrue ==
  /\ authenticated => accepted
  /\ step = "idle" /\ answer = "needs_otp" /\ tries > 0 => verdict # "none"
  /\ submitted = "code" => sent = <<tries>>
=============================================================================
