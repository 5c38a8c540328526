------------------------------ MODULE WsSignIn ------------------------------
(***************************************************************************)
(* Signing in to Wealthsimple: start_auth and continue_auth of             *)
(* pennyspy/scrapers/wealthsimple/wealthsimple.py.  After the password the *)
(* bank may ask for a passkey, a code, an approval on a trusted device, or *)
(* nothing; the page moves by itself and the user may act on it too, while *)
(* the scraper looks for one thing after the other.  Any exception ends    *)
(* the session (run_login, start_verify).                                  *)
(***************************************************************************)
EXTENDS Integers, Sequences

CONSTANTS
  Patience,    \* polls before a wait gives up
  MaxAttempts, \* max_attempts of _send_keys_verified
  MaxTries     \* bound: codes the user types

ASSUME SignInAssumption == {Patience, MaxAttempts, MaxTries} \subseteq Nat \ {0}

VARIABLES
  page,       \* what is shown: blank, form, passkey, code, device, offer, app
  overlay,    \* "Create passkey" is drawn over the app
  alert,      \* an error is shown: of the login on the form, of the code on its page
  submitted,  \* what the bank has not answered: nothing, login, other, code
  typed,      \* a code is in the field
  sends,      \* history: how often the code was sent since it was typed, or refused
  accepted,   \* history: the bank has let this session in
  stood,      \* history: the trusted-device page stood already when this poll began
  dropped,    \* history: a device's notification that stood so was given up for a code
  step, waited, look, attempt,  \* the scraper: where it is, polls of this wait, look of this poll, attempts at typing
  authenticated, awaiting,  \* Wealthsimple._authenticated, _awaiting_device_approval
  tries,      \* codes the user has typed
  answer      \* AuthStep.status of the last call, or failed

bank    == <<page, overlay, alert, submitted, typed, sends, accepted, stood, dropped>>
scraper == <<step, waited, look, attempt, authenticated, awaiting, answer>>
vars    == <<bank, scraper, tries>>

InCall == step \notin {"new", "idle", "exporting", "gone"}

-----------------------------------------------------------------------------
(* The bank, and the user in the browser window or on the phone.           *)

Shows(p) ==
  /\ page' = p /\ submitted' = "nothing" /\ typed' = FALSE /\ alert' = FALSE
  /\ overlay' \in IF p = "app" THEN BOOLEAN ELSE {FALSE}
  /\ accepted' = (accepted \/ p \in {"offer", "app"})

ShowForm == page = "blank" /\ Shows("form") /\ UNCHANGED sends

AnswerLogin ==
  /\ submitted = "login" /\ UNCHANGED sends
  /\ \/ \E p \in {"passkey", "code", "device", "offer", "app"} : Shows(p)
     \/ alert' = TRUE /\ submitted' = "nothing" /\ UNCHANGED <<page, overlay, typed, accepted>>

AnswerOther == submitted = "other" /\ Shows("code") /\ UNCHANGED sends

\* The page sends the code by itself once its last digit is in.
AutoSubmit ==
  /\ typed /\ submitted = "nothing" /\ ~alert
  /\ submitted' = "code" /\ sends' = sends + 1
  /\ UNCHANGED <<page, overlay, alert, typed, accepted>>

\* A code that is refused may be left in the field.
AnswerCode ==
  /\ submitted = "code"
  /\ \/ \E p \in {"device", "offer", "app"} : Shows(p) /\ UNCHANGED sends
     \/ /\ alert' = TRUE /\ submitted' = "nothing" /\ typed' \in BOOLEAN /\ sends' = 0
        /\ UNCHANGED <<page, overlay, accepted>>

\* Yes, or "Try another way", on the phone.
UserDecides == page = "device" /\ \E p \in {"code", "offer", "app"} : Shows(p) /\ UNCHANGED sends

\* The code is entered in the browser window.
UserSignsIn == page = "code" /\ submitted = "nothing" /\ Shows("app") /\ UNCHANGED sends

Bank ==
  /\ step # "gone" /\ UNCHANGED <<stood, dropped, scraper, tries>>
  /\ ShowForm \/ AnswerLogin \/ AnswerOther \/ AutoSubmit \/ AnswerCode \/ UserDecides \/ UserSignsIn

-----------------------------------------------------------------------------
(* The scraper.                                                            *)

Goto(s) == step' = s /\ waited' = 0 /\ look' = 1
Quiet   == UNCHANGED <<bank, attempt, authenticated, awaiting, tries, answer>>
Raise   == Goto("gone") /\ answer' = "failed" /\ UNCHANGED <<bank, attempt, authenticated, awaiting, tries>>
Return(status) == Goto("idle") /\ answer' = status

StartAuth ==
  /\ step = "new" /\ page' = "blank" /\ Goto("form")
  /\ UNCHANGED <<overlay, alert, submitted, typed, sends, accepted, stood, dropped, attempt, authenticated, awaiting, tries, answer>>

\* Mutant of Looks: the label of the passkey page's button is looked for first.
LabelFirst ==
  [form |-> <<"form">>, wrong |-> <<"refusal">>, after_login |-> <<"code", "label", "device", "app">>,
   code_field |-> <<"code">>, type_code |-> <<"code">>, approval |-> <<"code", "offer", "app">>,
   auto |-> <<"alert", "device", "offer", "app">>, code_outcome |-> <<"alert", "device", "offer", "app">>,
   later |-> <<"offer">>, confirm |-> <<"app">>]

\* What a poll of each wait looks for, in this order, one after the other
\* (_POST_LOGIN_LOCATORS, and then the app; the outcomes of the code).
Looks ==
  [form |-> <<"form">>, wrong |-> <<"refusal">>, after_login |-> <<"code", "device", "label", "app">>,
   code_field |-> <<"code">>, type_code |-> <<"code">>, approval |-> <<"code", "offer", "app">>,
   auto |-> <<"alert", "device", "offer", "app">>, code_outcome |-> <<"alert", "device", "offer", "app">>,
   later |-> <<"offer">>, confirm |-> <<"app">>]

Waits == DOMAIN Looks

\* Whether it is on the page: "Try another way", the label of the passkey
\* page's button, is on the trusted-device page too, and the offer of a
\* passkey may be drawn over the app.
Drawn(what) ==
  \/ what \in {"form", "code", "device", "app"} /\ page = what
  \/ what = "refusal" /\ page = "form" /\ alert
  \/ what = "alert" /\ page = "code" /\ alert
  \/ what = "label" /\ page \in {"passkey", "device"}
  \/ what = "offer" /\ (page = "offer" \/ overlay)

Sought      == Looks[step][look]
Finds(what) == step \in Waits /\ Sought = what /\ Drawn(what)

\* The last look of the last poll finds nothing.
TimesOut == step \in Waits /\ look = Len(Looks[step]) /\ waited >= Patience /\ ~Drawn(Sought)

\* _wait_until looks further, or polls again.
NotYet ==
  /\ step \in Waits /\ ~Drawn(Sought)
  /\ \/ look < Len(Looks[step]) /\ look' = look + 1 /\ UNCHANGED waited
     \/ look = Len(Looks[step]) /\ waited < Patience /\ look' = 1 /\ waited' = waited + 1
  /\ stood' = IF step = "after_login" /\ look = 1 THEN page = "device" ELSE stood
  /\ UNCHANGED <<page, overlay, alert, submitted, typed, sends, accepted, dropped,
                 step, attempt, authenticated, awaiting, tries, answer>>

FindForm == step = "form" /\ Finds("form") /\ Goto("type") /\ Quiet

TypeLogin ==
  /\ step = "type"
  /\ \/ Goto("submit") /\ attempt' = 1
     \/ attempt < MaxAttempts /\ Goto("type") /\ attempt' = attempt + 1
  /\ UNCHANGED <<bank, authenticated, awaiting, tries, answer>>

SubmitLogin ==
  /\ step = "submit" /\ submitted' = "login" /\ Goto("wrong")
  /\ UNCHANGED <<page, overlay, alert, typed, sends, accepted, stood, dropped, attempt, authenticated, awaiting, tries, answer>>

\* _is_logged_in: a page of the app with nothing of the sign-in on it.
LoggedIn == Drawn("app")

\* _check_for_wrong_login: no banner for a while is taken for a right password.
CheckForWrongLogin ==
  /\ step = "wrong"
  /\ \/ Finds("refusal") /\ Raise
     \/ TimesOut /\ Goto("after_login") /\ Quiet

TellApproval ==
  /\ awaiting' = TRUE /\ Return("waiting_for_external") /\ UNCHANGED <<bank, attempt, authenticated, tries>>

TellCode == Return("needs_otp") /\ UNCHANGED <<bank, attempt, authenticated, awaiting, tries>>

TellSignedIn ==
  authenticated' = TRUE /\ Return("authenticated") /\ UNCHANGED <<bank, attempt, awaiting, tries>>

\* _skip_passkey_challenge, and what start_auth makes of it.  A wait that
\* finds none of the pages goes on as if the code had been asked for.
SkipPasskey ==
  /\ step = "after_login"
  /\ \/ Finds("app") /\ TellSignedIn
     \/ Finds("device") /\ TellApproval
     \/ (Finds("code") \/ TimesOut) /\ TellCode
     \/ Finds("label") /\ Goto("other") /\ Quiet

\* The click on the button that was found, which may have gone since.
TryAnotherWay ==
  /\ step = "other" /\ Goto("code_field")
  /\ IF Drawn("label") THEN submitted' = "other" /\ dropped' = (page = "device" /\ stood)
                       ELSE UNCHANGED <<submitted, dropped>>
  /\ UNCHANGED <<page, overlay, alert, typed, sends, accepted, stood, attempt, authenticated, awaiting, tries, answer>>

CodeField == step = "code_field" /\ Finds("code") /\ TellCode

\* continue_auth, with or without a code: it looks for the app, and then for
\* the trusted-device page.
ContinueAuth ==
  /\ step = "idle" /\ answer # "authenticated"
  /\ \/ (authenticated \/ LoggedIn) /\ TellSignedIn
     \/ ~(authenticated \/ LoggedIn) /\ Goto("is_device") /\ Quiet

IsDevice ==
  /\ step = "is_device"
  /\ \/ /\ awaiting \/ Drawn("device")
        /\ awaiting' = FALSE /\ Goto("approval") /\ UNCHANGED <<bank, attempt, authenticated, tries, answer>>
     \/ /\ ~(awaiting \/ Drawn("device"))
        /\ \/ Raise
           \/ /\ tries < MaxTries /\ tries' = tries + 1 /\ Goto("type_code")
              /\ UNCHANGED <<bank, attempt, authenticated, awaiting, answer>>

\* _wait_for_device_approval.
Approval ==
  /\ step = "approval"
  /\ \/ Finds("code") /\ TellCode
     \/ (Finds("offer") \/ Finds("app")) /\ Goto("later") /\ Quiet

TypeCode ==
  /\ step = "type_code" /\ Finds("code")
  /\ typed' = TRUE /\ sends' = 0 /\ Goto("auto")
  /\ UNCHANGED <<page, overlay, alert, submitted, accepted, stood, dropped, attempt, authenticated, awaiting, tries, answer>>

\* The page did not send the code by itself in time.
NotSent == step = "auto" /\ TimesOut /\ Goto("find_button") /\ Quiet

\* A code that is on its way has taken the submit button with it.
HasButton == page = "code" /\ submitted = "nothing"

FindButton ==
  /\ step = "find_button"
  /\ Goto(IF HasButton THEN "click_code" ELSE "code_outcome") /\ Quiet

\* The button may have gone since it was found, as the page may send the code yet.
ClickCode ==
  /\ step = "click_code" /\ Goto("code_outcome")
  /\ IF HasButton /\ typed THEN submitted' = "code" /\ sends' = sends + 1
                           ELSE UNCHANGED <<submitted, sends>>
  /\ UNCHANGED <<page, overlay, alert, typed, accepted, stood, dropped, attempt, authenticated, awaiting, tries, answer>>

\* _wait_for_otp_outcome, and what _send_2fa_text makes of it.
CodeOutcome ==
  /\ step \in {"auto", "code_outcome"}
  /\ \/ Finds("alert") /\ Raise
     \/ Finds("device") /\ TellApproval
     \/ (Finds("offer") \/ Finds("app")) /\ Goto("later") /\ Quiet

\* _dismiss_passkey_prompt: "Maybe later", if it is offered in time.
MaybeLater ==
  /\ step = "later" /\ Goto("confirm")
  /\ \/ Finds("offer") /\ Shows("app") /\ UNCHANGED <<sends, stood, dropped>>
     \/ TimesOut /\ UNCHANGED bank
  /\ UNCHANGED <<attempt, authenticated, awaiting, tries, answer>>

Confirm == step = "confirm" /\ Finds("app") /\ TellSignedIn

\* Mutant of GiveUp: the wait has no deadline.
NeverGiveUp == FALSE /\ Raise

\* A wait of which nothing else comes raises.
GiveUp == TimesOut /\ step \notin {"wrong", "after_login", "auto", "later"} /\ Raise

\* So may any look or click, when the browser fails.
Break == InCall /\ Raise

Call ==
  \/ FindForm \/ TypeLogin \/ SubmitLogin \/ CheckForWrongLogin \/ SkipPasskey \/ TryAnotherWay
  \/ CodeField \/ IsDevice \/ Approval \/ TypeCode \/ NotSent \/ FindButton \/ ClickCode \/ CodeOutcome
  \/ MaybeLater \/ Confirm
  \/ NotYet \/ GiveUp

Init ==
  /\ page = "blank" /\ overlay = FALSE /\ alert = FALSE /\ submitted = "nothing"
  /\ typed = FALSE /\ sends = 0 /\ accepted = FALSE /\ stood = FALSE /\ dropped = FALSE
  /\ step = "new" /\ waited = 0 /\ look = 1 /\ attempt = 1
  /\ authenticated = FALSE /\ awaiting = FALSE /\ tries = 0 /\ answer = "none"

-----------------------------------------------------------------------------
(* Properties.                                                             *)

TypeOK ==
  /\ page \in {"blank", "form", "passkey", "code", "device", "offer", "app"}
  /\ submitted \in {"nothing", "login", "other", "code"}
  /\ {overlay, alert, typed, accepted, stood, dropped, authenticated, awaiting} \subseteq BOOLEAN
  /\ sends \in 0 .. 2 /\ waited \in 0 .. Patience /\ look \in 1 .. 4 /\ attempt \in 1 .. MaxAttempts /\ tries \in 0 .. MaxTries
  /\ answer \in {"none", "needs_otp", "waiting_for_external", "authenticated", "failed"}

\* A session reported signed in was let in by the bank, whichever of its
\* pages came and wherever between two looks; an approval that the bank asks
\* the phone for is not given up for a code by a poll that began with it on
\* the page ("Try another way" is there too); and a code is not sent again
\* while the bank has it or after it took it, whoever sends it.
SignInIsTrue ==
  /\ authenticated => accepted
  /\ ~dropped
  /\ sends <= 1
=============================================================================
