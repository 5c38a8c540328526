------------------------- MODULE WealthsimpleProofs -------------------------
(***************************************************************************)
(* Proofs about a Wealthsimple session: for any waits, codes, accounts and *)
(* names of files, the scraper says of the sign-in what the bank did, each *)
(* account's rows are in one of the files served, and the earnings cost no *)
(* file but their own.                                                     *)
(*                                                                         *)
(* The sign-in: Coming says what may be on its way to the bank at a step,  *)
(* Standing what a poll makes of an approval that it began with, SentOnce  *)
(* who may still send the code.  The split: the files served and those to  *)
(* come hold each account once, the parts of the file at hand lie beside   *)
(* them under names of their own (Splitting).  The earnings: what was      *)
(* answered is written but for the file at hand (Even), and a hash is      *)
(* chosen with the request that it is for (Chosen).                        *)
(*                                                                         *)
(* Last, of what WsData computes: the window of an export on any day, the  *)
(* rows of any feed, and the lines of any earnings.                        *)
(***************************************************************************)
EXTENDS Wealthsimple, WsData, FiniteSetTheorems, WellFoundedInduction, TLAPS

Entered == (page \in {"offer", "app"} => accepted) /\ (authenticated => accepted)

Before == {"new", "form", "type", "submit", "wrong"}

\* What may be on its way to the bank.
Coming ==
  /\ step \in Before \union {"after_login", "other"} => ~typed /\ submitted # "code"
  /\ step \in {"new", "form", "type", "submit"} => submitted = "nothing"
  /\ submitted = "login" => page = "form"
  /\ step \in {"type", "submit"} => page = "form"

\* An approval that stood when the poll began is found by the next look.
Standing ==
  /\ step \in Before \/ submitted = "login" => ~stood
  /\ step = "after_login" /\ page = "device" /\ stood => look = 2
  /\ step = "other" => ~(page = "device" /\ stood)
  /\ ~dropped

SentOnce ==
  /\ sends \in 0 .. 1
  /\ typed => page = "code"
  /\ submitted = "code" => typed
  /\ typed /\ submitted = "nothing" => sends = 0

SignInInv == TypeOK /\ Entered /\ Coming /\ Standing /\ SentOnce

Early == {"none", "activity", "csv", "feed", "load"} \union InDialog
After == {"earnings", "record", "page", "watch", "select", "query", "write", "done"}

\* Before the split there are no files, and after it none to come.
Fresh ==
  /\ at = "none" <=> step # "exporting"
  /\ at \in Early => dir = << >> /\ served = {} /\ arrived = {}
  /\ at # "split" => left = << >> /\ parts = {}
  /\ at \in (Early \ {"load"}) \union {"split"} => shown = 0

Once(names) == \A a \in arrived : \E n \in names : \A m \in names : a \in dir[m] <=> m = n

Distinct == \A i, j \in DOMAIN left : left[i] = left[j] => i = j

Splitting ==
  at = "split" =>
    /\ IsFiniteSet(DOMAIN dir) /\ DOMAIN dir \subseteq Name /\ \A n \in DOMAIN dir : dir[n] \subseteq Account
    /\ left \in Seq(DOMAIN dir) /\ Distinct
    /\ served \subseteq DOMAIN dir /\ served \intersect Range(left) = {}
    /\ parts \subseteq DOMAIN dir \ (served \union Range(left))
    /\ parts # {} => left # << >>
    /\ Once(served \union Range(left))
    /\ \A p \in parts : \A q \in parts : p # q => dir[p] \intersect dir[q] = {}
    /\ \A p \in parts : dir[p] \subseteq dir[Path]
    /\ \A p \in parts : \A a \in dir[p] : \A b \in dir[Path] : AccountType[a] = AccountType[b] => b \in dir[p]

Served ==
  at \in After =>
    /\ served \subseteq DOMAIN dir
    /\ FeedFile \notin served => Once(served)
    /\ FeedFile \in served /\ shown > 0 /\ Feed[shown] # Undated /\ ~missed =>
         {i \in DOMAIN Feed : Feed[i] > Since} \subseteq dir[FeedFile]

ActivityInv == ActivityTypeOK /\ Fresh /\ Splitting /\ Served

Even ==
  /\ at \notin {"write", "failed"} => answered = earned
  /\ at = "write" => answered = earned \union {Ids[next]}
  /\ at \in {"query", "write"} => chosen \in Request /\ chosen.usable
  /\ at = "write" => next <= Len(Ids)
  /\ answered # {} => chosen \in Request /\ chosen.usable
  /\ at \notin {"query", "write", "done", "failed"} => answered = {} /\ hash = FALSE

Chosen == ring \in Seq(Request) /\ (hash => chosen.graph /\ chosen.auth)

Excused == at = "failed" => served = {} \/ escaped \/ future

GraphInv == GraphTypeOK /\ Even /\ Chosen /\ Excused

IInv == SignInInv /\ ActivityInv /\ GraphInv

-----------------------------------------------------------------------------
(* The sign-in.                                                            *)

\* The looks of each wait are four at most, and after the code's the next is for the approval.
LEMMA LooksAre ==
  /\ \A w \in Waits : Len(Looks[w]) \in 1 .. 4
  /\ "after_login" \in Waits /\ Len(Looks["after_login"]) = 4 /\ Looks["after_login"][2] = "device"
BY SMT DEF Looks, Waits

\* The bank's steps, and the user's, keep what is known of the sign-in.
LEMMA BankKeepsSignIn == ASSUME SignInInv, Bank PROVE SignInInv'
<1> USE SignInAssumption DEF SignInAssumption, SignInInv, TypeOK, Entered, Coming, Before, Standing, SentOnce
<1>0. UNCHANGED <<stood, dropped, step, waited, look, attempt, authenticated, awaiting, answer, tries>> BY DEF Bank, scraper
<1>1. CASE ShowForm
  <2> USE <1>0, <1>1 DEF ShowForm, Shows
  <2>1. TypeOK' OBVIOUS
  <2>2. Entered' OBVIOUS
  <2>3. Coming' OBVIOUS
  <2>4. Standing' OBVIOUS
  <2>5. SentOnce' OBVIOUS
  <2> QED BY <2>1, <2>2, <2>3, <2>4, <2>5
<1>2. CASE AnswerLogin
  <2> USE <1>0, <1>2 DEF AnswerLogin, Shows
  <2>1. TypeOK' OBVIOUS
  <2>2. Entered' OBVIOUS
  <2>3. Coming'
    <3>1. CASE \E p \in {"passkey", "code", "device", "offer", "app"} : Shows(p) BY <3>1 DEF Shows
    <3>2. CASE submitted' = "nothing" /\ UNCHANGED <<page, typed>> BY <3>2
    <3> QED BY <3>1, <3>2
  <2>4. Standing' OBVIOUS
  <2>5. SentOnce'
    <3>1. CASE \E p \in {"passkey", "code", "device", "offer", "app"} : Shows(p) BY <3>1 DEF Shows
    <3>2. CASE UNCHANGED <<page, typed, sends>> BY <3>2
    <3> QED BY <3>1, <3>2
  <2> QED BY <2>1, <2>2, <2>3, <2>4, <2>5
<1>3. CASE AnswerOther
  <2> USE <1>0, <1>3 DEF AnswerOther, Shows
  <2>1. TypeOK' OBVIOUS
  <2>2. Entered' OBVIOUS
  <2>3. Coming' OBVIOUS
  <2>4. Standing' OBVIOUS
  <2>5. SentOnce' OBVIOUS
  <2> QED BY <2>1, <2>2, <2>3, <2>4, <2>5
<1>4. CASE AutoSubmit
  <2> USE <1>0, <1>4 DEF AutoSubmit
  <2>1. TypeOK' OBVIOUS
  <2>2. Entered' OBVIOUS
  <2>3. Coming' OBVIOUS
  <2>4. Standing' OBVIOUS
  <2>5. SentOnce' OBVIOUS
  <2> QED BY <2>1, <2>2, <2>3, <2>4, <2>5
<1>5. CASE AnswerCode
  <2> USE <1>0, <1>5 DEF AnswerCode, Shows
  <2>1. TypeOK'
    <3>1. {overlay', alert', typed', accepted', stood', dropped', authenticated', awaiting'} \subseteq BOOLEAN BY Zenon
    <3>2. /\ page' \in {"blank", "form", "passkey", "code", "device", "offer", "app"}
          /\ submitted' \in {"nothing", "login", "other", "code"}
      OBVIOUS
    <3>3. /\ sends' \in 0 .. 2 /\ waited' \in 0 .. Patience /\ look' \in 1 .. 4
          /\ attempt' \in 1 .. MaxAttempts /\ tries' \in 0 .. MaxTries
      <4>1. sends' \in {sends, 0} BY ONLY AnswerCode, Zenon DEF AnswerCode
      <4>2. TypeOK OBVIOUS
      <4> QED BY ONLY <1>0, <4>1, <4>2, SMT DEF TypeOK
    <3>4. answer' \in {"none", "needs_otp", "waiting_for_external", "authenticated", "failed"} OBVIOUS
    <3> QED BY <3>1, <3>2, <3>3, <3>4, Zenon
  <2>2. Entered' OBVIOUS
  <2>3. Coming' OBVIOUS
  <2>4. Standing' OBVIOUS
  <2>5. SentOnce'
    <3>1. CASE \E p \in {"device", "offer", "app"} : Shows(p) BY <3>1 DEF Shows
    <3>2. CASE submitted' = "nothing" /\ sends' = 0 /\ UNCHANGED page BY <3>2
    <3> QED BY <3>1, <3>2
  <2> QED BY <2>1, <2>2, <2>3, <2>4, <2>5
<1>6. CASE UserDecides
  <2> USE <1>0, <1>6 DEF UserDecides, Shows
  <2>1. TypeOK' OBVIOUS
  <2>2. Entered' OBVIOUS
  <2>3. Coming' OBVIOUS
  <2>4. Standing' OBVIOUS
  <2>5. SentOnce' OBVIOUS
  <2> QED BY <2>1, <2>2, <2>3, <2>4, <2>5
<1>7. CASE UserSignsIn
  <2> USE <1>0, <1>7 DEF UserSignsIn, Shows
  <2>1. TypeOK' OBVIOUS
  <2>2. Entered' OBVIOUS
  <2>3. Coming' OBVIOUS
  <2>4. Standing' OBVIOUS
  <2>5. SentOnce' OBVIOUS
  <2> QED BY <2>1, <2>2, <2>3, <2>4, <2>5
<1> QED BY <1>1, <1>2, <1>3, <1>4, <1>5, <1>6, <1>7 DEF Bank

\* So do the calls.
LEMMA CallsKeepSignIn == ASSUME SignInInv, StartAuth \/ ContinueAuth \/ Call \/ Break PROVE SignInInv'
<1> USE SignInAssumption
    DEF SignInAssumption, SignInInv, TypeOK, Entered, Coming, Before, Standing, SentOnce, bank, Goto, Quiet, Raise, Return
<1>0. /\ \A w \in Waits : Len(Looks[w]) \in 1 .. 4
      /\ "after_login" \in Waits /\ Len(Looks["after_login"]) = 4 /\ Looks["after_login"][2] = "device"
  BY LooksAre
<1>1. CASE StartAuth
  <2> USE <1>1 DEF StartAuth
  <2>1. TypeOK' OBVIOUS
  <2>2. Entered' OBVIOUS
  <2>3. Coming' OBVIOUS
  <2>4. Standing' OBVIOUS
  <2>5. SentOnce' OBVIOUS
  <2> QED BY <2>1, <2>2, <2>3, <2>4, <2>5
<1>2. CASE ContinueAuth
  <2> USE <1>2 DEF ContinueAuth, LoggedIn, Drawn, TellSignedIn
  <2>1. TypeOK'
    <3>1. {overlay', alert', typed', accepted', stood', dropped', authenticated', awaiting'} \subseteq BOOLEAN BY Zenon
    <3>2. /\ page' \in {"blank", "form", "passkey", "code", "device", "offer", "app"}
          /\ submitted' \in {"nothing", "login", "other", "code"}
      OBVIOUS
    <3>3. /\ sends' \in 0 .. 2 /\ waited' \in 0 .. Patience /\ look' \in 1 .. 4
          /\ attempt' \in 1 .. MaxAttempts /\ tries' \in 0 .. MaxTries
      OBVIOUS
    <3>4. answer' \in {"none", "needs_otp", "waiting_for_external", "authenticated", "failed"} OBVIOUS
    <3> QED BY <3>1, <3>2, <3>3, <3>4, Zenon
  <2>2. Entered' OBVIOUS
  <2>3. Coming' OBVIOUS
  <2>4. Standing' OBVIOUS
  <2>5. SentOnce' OBVIOUS
  <2> QED BY <2>1, <2>2, <2>3, <2>4, <2>5
<1>3. CASE FindForm
  <2> USE <1>3 DEF FindForm, Finds, Drawn
  <2>1. TypeOK' OBVIOUS
  <2>2. Entered' OBVIOUS
  <2>3. Coming' OBVIOUS
  <2>4. Standing' OBVIOUS
  <2>5. SentOnce' OBVIOUS
  <2> QED BY <2>1, <2>2, <2>3, <2>4, <2>5
<1>4. CASE TypeLogin
  <2> USE <1>4 DEF TypeLogin
  <2>1. TypeOK' OBVIOUS
  <2>2. Entered' OBVIOUS
  <2>3. Coming' OBVIOUS
  <2>4. Standing' OBVIOUS
  <2>5. SentOnce' OBVIOUS
  <2> QED BY <2>1, <2>2, <2>3, <2>4, <2>5
<1>5. CASE SubmitLogin
  <2> USE <1>5 DEF SubmitLogin
  <2>1. TypeOK' OBVIOUS
  <2>2. Entered' OBVIOUS
  <2>3. Coming' OBVIOUS
  <2>4. Standing' OBVIOUS
  <2>5. SentOnce' OBVIOUS
  <2> QED BY <2>1, <2>2, <2>3, <2>4, <2>5
<1>6. CASE CheckForWrongLogin
  <2> USE <1>6 DEF CheckForWrongLogin
  <2>1. TypeOK' OBVIOUS
  <2>2. Entered' OBVIOUS
  <2>3. Coming' OBVIOUS
  <2>4. Standing' OBVIOUS
  <2>5. SentOnce' OBVIOUS
  <2> QED BY <2>1, <2>2, <2>3, <2>4, <2>5
<1>7. CASE SkipPasskey
  <2> USE <1>0, <1>7 DEF SkipPasskey, Finds, Sought, Drawn, TellApproval, TellCode, TellSignedIn
  <2>1. TypeOK'
    <3>1. {overlay', alert', typed', accepted', stood', dropped', authenticated', awaiting'} \subseteq BOOLEAN BY Zenon
    <3>2. /\ page' \in {"blank", "form", "passkey", "code", "device", "offer", "app"}
          /\ submitted' \in {"nothing", "login", "other", "code"}
      OBVIOUS
    <3>3. /\ sends' \in 0 .. 2 /\ waited' \in 0 .. Patience /\ look' \in 1 .. 4
          /\ attempt' \in 1 .. MaxAttempts /\ tries' \in 0 .. MaxTries
      OBVIOUS
    <3>4. answer' \in {"none", "needs_otp", "waiting_for_external", "authenticated", "failed"} OBVIOUS
    <3> QED BY <3>1, <3>2, <3>3, <3>4, Zenon
  <2>2. Entered' OBVIOUS
  <2>3. Coming' OBVIOUS
  <2>4. Standing' OBVIOUS
  <2>5. SentOnce' OBVIOUS
  <2> QED BY <2>1, <2>2, <2>3, <2>4, <2>5
<1>8. CASE TryAnotherWay
  <2> USE <1>8 DEF TryAnotherWay, Drawn
  <2>1. TypeOK' OBVIOUS
  <2>2. Entered' OBVIOUS
  <2>3. Coming' OBVIOUS
  <2>4. Standing' OBVIOUS
  <2>5. SentOnce' OBVIOUS
  <2> QED BY <2>1, <2>2, <2>3, <2>4, <2>5
<1>9. CASE CodeField
  <2> USE <1>9 DEF CodeField, TellCode
  <2>1. TypeOK' OBVIOUS
  <2>2. Entered' OBVIOUS
  <2>3. Coming' OBVIOUS
  <2>4. Standing' OBVIOUS
  <2>5. SentOnce' OBVIOUS
  <2> QED BY <2>1, <2>2, <2>3, <2>4, <2>5
<1>10. CASE IsDevice
  <2> USE <1>10 DEF IsDevice
  <2>1. TypeOK'
    <3>1. {overlay', alert', typed', accepted', stood', dropped', authenticated', awaiting'} \subseteq BOOLEAN BY Zenon
    <3>2. /\ page' \in {"blank", "form", "passkey", "code", "device", "offer", "app"}
          /\ submitted' \in {"nothing", "login", "other", "code"}
      OBVIOUS
    <3>3. /\ sends' \in 0 .. 2 /\ waited' \in 0 .. Patience /\ look' \in 1 .. 4
          /\ attempt' \in 1 .. MaxAttempts /\ tries' \in 0 .. MaxTries
      OBVIOUS
    <3>4. answer' \in {"none", "needs_otp", "waiting_for_external", "authenticated", "failed"} OBVIOUS
    <3> QED BY <3>1, <3>2, <3>3, <3>4, Zenon
  <2>2. Entered' OBVIOUS
  <2>3. Coming' OBVIOUS
  <2>4. Standing' OBVIOUS
  <2>5. SentOnce' OBVIOUS
  <2> QED BY <2>1, <2>2, <2>3, <2>4, <2>5
<1>11. CASE Approval
  <2> USE <1>11 DEF Approval, TellCode
  <2>1. TypeOK' OBVIOUS
  <2>2. Entered' OBVIOUS
  <2>3. Coming' OBVIOUS
  <2>4. Standing' OBVIOUS
  <2>5. SentOnce' OBVIOUS
  <2> QED BY <2>1, <2>2, <2>3, <2>4, <2>5
<1>12. CASE TypeCode
  <2> USE <1>12 DEF TypeCode, Finds, Drawn
  <2>1. TypeOK' OBVIOUS
  <2>2. Entered' OBVIOUS
  <2>3. Coming' OBVIOUS
  <2>4. Standing' OBVIOUS
  <2>5. SentOnce' OBVIOUS
  <2> QED BY <2>1, <2>2, <2>3, <2>4, <2>5
<1>13. CASE NotSent
  <2> USE <1>13 DEF NotSent
  <2>1. TypeOK' OBVIOUS
  <2>2. Entered' OBVIOUS
  <2>3. Coming' OBVIOUS
  <2>4. Standing' OBVIOUS
  <2>5. SentOnce' OBVIOUS
  <2> QED BY <2>1, <2>2, <2>3, <2>4, <2>5
<1>14. CASE FindButton
  <2> USE <1>14 DEF FindButton
  <2>1. TypeOK' OBVIOUS
  <2>2. Entered' OBVIOUS
  <2>3. Coming' OBVIOUS
  <2>4. Standing' OBVIOUS
  <2>5. SentOnce' OBVIOUS
  <2> QED BY <2>1, <2>2, <2>3, <2>4, <2>5
<1>15. CASE ClickCode
  <2> USE <1>15 DEF ClickCode, HasButton
  <2>1. TypeOK' OBVIOUS
  <2>2. Entered' OBVIOUS
  <2>3. Coming' OBVIOUS
  <2>4. Standing' OBVIOUS
  <2>5. SentOnce' OBVIOUS
  <2> QED BY <2>1, <2>2, <2>3, <2>4, <2>5
<1>16. CASE CodeOutcome
  <2> USE <1>16 DEF CodeOutcome, TellApproval
  <2>1. TypeOK'
    <3>1. {overlay', alert', typed', accepted', stood', dropped', authenticated', awaiting'} \subseteq BOOLEAN BY Zenon
    <3>2. /\ page' \in {"blank", "form", "passkey", "code", "device", "offer", "app"}
          /\ submitted' \in {"nothing", "login", "other", "code"}
      OBVIOUS
    <3>3. /\ sends' \in 0 .. 2 /\ waited' \in 0 .. Patience /\ look' \in 1 .. 4
          /\ attempt' \in 1 .. MaxAttempts /\ tries' \in 0 .. MaxTries
      OBVIOUS
    <3>4. answer' \in {"none", "needs_otp", "waiting_for_external", "authenticated", "failed"} OBVIOUS
    <3> QED BY <3>1, <3>2, <3>3, <3>4, Zenon
  <2>2. Entered' OBVIOUS
  <2>3. Coming' OBVIOUS
  <2>4. Standing' OBVIOUS
  <2>5. SentOnce' OBVIOUS
  <2> QED BY <2>1, <2>2, <2>3, <2>4, <2>5
<1>17. CASE MaybeLater
  <2> USE <1>17 DEF MaybeLater, Shows
  <2>1. TypeOK'
    <3>1. {overlay', alert', typed', accepted', stood', dropped', authenticated', awaiting'} \subseteq BOOLEAN BY Zenon
    <3>2. /\ page' \in {"blank", "form", "passkey", "code", "device", "offer", "app"}
          /\ submitted' \in {"nothing", "login", "other", "code"}
      OBVIOUS
    <3>3. /\ sends' \in 0 .. 2 /\ waited' \in 0 .. Patience /\ look' \in 1 .. 4
          /\ attempt' \in 1 .. MaxAttempts /\ tries' \in 0 .. MaxTries
      OBVIOUS
    <3>4. answer' \in {"none", "needs_otp", "waiting_for_external", "authenticated", "failed"} OBVIOUS
    <3> QED BY <3>1, <3>2, <3>3, <3>4, Zenon
  <2>2. Entered' OBVIOUS
  <2>3. Coming' OBVIOUS
  <2>4. Standing' OBVIOUS
  <2>5. SentOnce' OBVIOUS
  <2> QED BY <2>1, <2>2, <2>3, <2>4, <2>5
<1>18. CASE Confirm
  <2> USE <1>18 DEF Confirm, Finds, Drawn, TellSignedIn
  <2>1. TypeOK' OBVIOUS
  <2>2. Entered' OBVIOUS
  <2>3. Coming' OBVIOUS
  <2>4. Standing' OBVIOUS
  <2>5. SentOnce' OBVIOUS
  <2> QED BY <2>1, <2>2, <2>3, <2>4, <2>5
<1>19. CASE NotYet
  <2> USE <1>0, <1>19 DEF NotYet, Sought, Drawn
  <2>1. TypeOK'
    <3>1. {overlay', alert', typed', accepted', stood', dropped', authenticated', awaiting'} \subseteq BOOLEAN BY Zenon
    <3>2. /\ page' \in {"blank", "form", "passkey", "code", "device", "offer", "app"}
          /\ submitted' \in {"nothing", "login", "other", "code"}
      OBVIOUS
    <3>3. /\ sends' \in 0 .. 2 /\ waited' \in 0 .. Patience /\ look' \in 1 .. 4
          /\ attempt' \in 1 .. MaxAttempts /\ tries' \in 0 .. MaxTries
      <4>1. step \in Waits /\ Len(Looks[step]) \in 1 .. 4 BY <1>0, <1>19, Zenon DEF NotYet
      <4>2. /\ sends \in 0 .. 2 /\ waited \in 0 .. Patience /\ look \in 1 .. 4
            /\ attempt \in 1 .. MaxAttempts /\ tries \in 0 .. MaxTries
        BY Zenon
      <4>3. /\ \/ look < Len(Looks[step]) /\ look' = look + 1 /\ waited' = waited
               \/ waited < Patience /\ look' = 1 /\ waited' = waited + 1
            /\ sends' = sends /\ attempt' = attempt /\ tries' = tries
        BY ONLY <1>19, Zenon DEF NotYet
      <4>4. Patience \in Nat BY SignInAssumption, Zenon DEF SignInAssumption
      <4>5. look' \in 1 .. 4 /\ waited' \in 0 .. Patience
        <5>1. CASE look' = 1 /\ waited < Patience /\ waited' = waited + 1 BY ONLY <4>2, <4>4, <5>1, SMT
        <5>2. CASE look < Len(Looks[step]) /\ look' = look + 1 /\ waited' = waited
          <6>1. PICK n \in 1 .. 4 : look < n /\ look' = look + 1 BY ONLY <4>1, <5>2, Zenon
          <6>2. look \in 1 .. 4 /\ waited' \in 0 .. Patience BY ONLY <4>2, <5>2, Zenon
          <6> QED BY ONLY <6>1, <6>2, SMT
        <5> QED BY ONLY <4>3, <5>1, <5>2, Zenon
      <4> QED BY ONLY <4>2, <4>3, <4>5, Zenon
    <3>4. answer' \in {"none", "needs_otp", "waiting_for_external", "authenticated", "failed"} OBVIOUS
    <3> QED BY <3>1, <3>2, <3>3, <3>4, Zenon
  <2>2. Entered' OBVIOUS
  <2>3. Coming' OBVIOUS
  <2>4. Standing'
    <3>1. UNCHANGED <<page, submitted, dropped, step>> BY Zenon
    <3>2. CASE step = "after_login" /\ look = 1
      <4>1. stood' = (page = "device") BY <3>2
      <4>2. look' = 2 BY ONLY <1>0, <1>19, <3>2, SMT DEF NotYet
      <4> QED BY <3>1, <3>2, <4>1, <4>2
    <3>3. CASE ~(step = "after_login" /\ look = 1) BY <3>1, <3>3
    <3> QED BY <3>2, <3>3
  <2>5. SentOnce' OBVIOUS
  <2> QED BY <2>1, <2>2, <2>3, <2>4, <2>5
<1>20. CASE GiveUp
  <2> USE <1>20 DEF GiveUp
  <2>1. TypeOK' OBVIOUS
  <2>2. Entered' OBVIOUS
  <2>3. Coming' OBVIOUS
  <2>4. Standing' OBVIOUS
  <2>5. SentOnce' OBVIOUS
  <2> QED BY <2>1, <2>2, <2>3, <2>4, <2>5
<1>21. CASE Break
  <2> USE <1>21 DEF Break
  <2>1. TypeOK' OBVIOUS
  <2>2. Entered' OBVIOUS
  <2>3. Coming' OBVIOUS
  <2>4. Standing' OBVIOUS
  <2>5. SentOnce' OBVIOUS
  <2> QED BY <2>1, <2>2, <2>3, <2>4, <2>5
<1> QED BY <1>1, <1>2, <1>3, <1>4, <1>5, <1>6, <1>7, <1>8, <1>9, <1>10, <1>11, <1>12, <1>13, <1>14, <1>15, <1>16, <1>17, <1>18,
           <1>19, <1>20, <1>21 DEF Call

\* The export touches nothing of the sign-in, which waits for it to end.
LEMMA ExportKeepsSignIn == ASSUME SignInInv, StartExport \/ ActivityStep \/ EarningsStep \/ Beside PROVE SignInInv'
<1>1. UNCHANGED <<bank, waited, look, attempt, authenticated, awaiting, tries, answer>> /\ step' = "exporting"
  <2>1. CASE StartExport BY <2>1, Zenon DEF StartExport
  <2>2. CASE ActivityStep \/ EarningsStep \/ Beside
    <3>1. UNCHANGED <<page, signInOnly>> /\ step = "exporting"
      BY <2>2, Zenon DEF ActivityStep, EarningsStep, Beside, Exporting, Activity, OpenDialog, Period, AwaitAccounts, ClickAll,
                  AccountsTicked, TickEach, Recount, Download, FallBack, DialogBreaks, ServeWhole, RenameFile, WritePart,
                  DropOriginal, EndSplit, OpenFeed, LoadMore, ReadFeed, FeedFails, RenderRow, Go, ServeFor
    <3> QED BY <3>1 DEF signInOnly, scraper, bank
  <2> QED BY <2>1, <2>2
<1> QED BY <1>1 DEF bank, SignInInv, TypeOK, Entered, Coming, Before, Standing, SentOnce

-----------------------------------------------------------------------------
(* Numbers, names and sequences.                                           *)

\* Every nonempty set of numbers has a least one.
Below == {p \in Nat \X Nat : p[1] < p[2]}

LEMMA Least == ASSUME NEW S \in SUBSET Nat, S # {} PROVE Min(S) \in S /\ \A y \in S : Min(S) <= y
<1>1. IsWellFoundedOn(Below, Nat) BY NatLessThanWellFounded, Zenon DEF OpToRel, Below
<1>2. PICK x \in S : \A y \in S : ~(<<y, x>> \in Below) BY ONLY <1>1, WFMin, S # {}, S \in SUBSET Nat, Zenon
<1>3. \A y \in S : x <= y
  <2> TAKE y \in S
  <2>1. x \in Nat /\ y \in Nat /\ ~(<<y, x>> \in Below) BY ONLY <1>2, S \in SUBSET Nat, y \in S, x \in S, Zenon
  <2> QED BY ONLY <2>1, SMT DEF Below
<1> QED BY ONLY <1>3, x \in S, Zenon DEF Min


\* Among one more numbers than there are files, one makes a name not taken.
LEMMA FreeNumber ==
  ASSUME NEW D, IsFiniteSet(D), NEW slug \in Seq(Nat)
  PROVE  \E n \in 2 .. Cardinality(D) + 2 : Append(slug, n) \notin D
<1> DEFINE c == Cardinality(D)
           f == [n \in 2 .. c + 2 |-> Append(slug, n)]
<1>1. c \in Nat BY FS_CardinalityType
<1>2. SUFFICES ASSUME \A n \in 2 .. c + 2 : Append(slug, n) \in D PROVE FALSE OBVIOUS
<1> HIDE DEF c
<1>3. IsFiniteSet(2 .. c + 2) /\ Cardinality(2 .. c + 2) = c + 1
  <2>1. c + 2 \in Int /\ 2 \in Int /\ 2 <= c + 2 BY <1>1
  <2>2. Cardinality(2 .. c + 2) = (c + 2) - 2 + 1 BY ONLY <2>1, FS_Interval
  <2>3. IsFiniteSet(2 .. c + 2) BY ONLY <2>1, FS_Interval
  <2> QED BY <2>2, <2>3, <1>1
<1>4. f \in [2 .. c + 2 -> D] BY <1>2
<1>5. PICK x, y \in 2 .. c + 2 : x # y /\ f[x] = f[y]
  <2> HIDE DEF f
  <2>1. c < c + 1 BY <1>1
  <2> QED BY ONLY <1>3, <1>4, <2>1, FS_PigeonHole, IsFiniteSet(D), Zenon DEF c
<1>6. Append(slug, x) = Append(slug, y) BY <1>5
<1> QED BY ONLY <1>1, <1>5, <1>6, x \in 2 .. c + 2, y \in 2 .. c + 2, slug \in Seq(Nat), SMT


\* Every nonempty set of the first numbers has a greatest one.
LEMMA Greatest == ASSUME NEW n \in Nat, NEW S \in SUBSET (1 .. n), S # {} PROVE Max(S) \in S
<1> DEFINE T == {n - i : i \in S}
<1>1. T \in SUBSET Nat /\ T # {}
  <2>1. \A i \in S : i \in 1 .. n BY Zenon
  <2>2. \A i \in 1 .. n : n - i \in Nat BY ONLY n \in Nat, SMT
  <2> QED BY ONLY <2>1, <2>2, S # {}, Zenon
<1>2. Min(T) \in T /\ \A y \in T : Min(T) <= y
  <2> HIDE DEF T
  <2> QED BY ONLY <1>1, Least, Zenon
<1>3. PICK i \in S : Min(T) = n - i BY <1>2
<1>4. \A j \in S : n - i <= n - j BY <1>2, <1>3
<1>5. \A j \in S : i >= j
  <2> TAKE j \in S
  <2>1. i \in 1 .. n /\ j \in 1 .. n /\ n - i <= n - j BY <1>4, Zenon
  <2> QED BY ONLY <2>1, n \in Nat, SMT
<1> QED BY ONLY <1>5, i \in S, Zenon DEF Max

\* The name that is found for a part is no file's.
LEMMA UnusedIsFree ==
  ASSUME IsFiniteSet(DOMAIN dir), NEW name \in Seq(Nat)
  PROVE  Unused(name) \notin DOMAIN dir /\ (name # << >> => Unused(name) \in Name)
<1>1. CASE name \notin DOMAIN dir BY <1>1, Zenon DEF Unused, Name
<1>2. CASE name \in DOMAIN dir
  <2> DEFINE S == {n \in 2 .. Cardinality(DOMAIN dir) + 2 : Append(name, n) \notin DOMAIN dir}
  <2>1. Cardinality(DOMAIN dir) \in Nat BY FS_CardinalityType
  <2>2. S \in SUBSET Nat BY ONLY <2>1, SMT
  <2>3. S # {} BY FreeNumber
  <2>4. Min(S) \in S /\ Min(S) \in Nat BY ONLY <2>2, <2>3, Least, Zenon
  <2>5. Unused(name) = Append(name, Min(S)) BY ONLY <1>2, Zenon DEF Unused
  <2>6. Append(name, Min(S)) \notin DOMAIN dir BY ONLY <2>4, Zenon
  <2> HIDE DEF S
  <2>7. Append(name, Min(S)) \in Name BY ONLY <2>4, name \in Seq(Nat), SMT DEF Name
  <2> QED BY ONLY <2>5, <2>6, <2>7, Zenon
<1> QED BY <1>1, <1>2

\* The paths to come after the first one.
LEMMA TailOfPaths ==
  ASSUME NEW S, left \in Seq(S), left # << >>, Distinct
  PROVE  /\ Tail(left) \in Seq(S) /\ Path \in Range(left) /\ Range(left) \subseteq S
         /\ Range(Tail(left)) = Range(left) \ {Path}
         /\ \A i, j \in DOMAIN Tail(left) : Tail(left)[i] = Tail(left)[j] => i = j
<1>1. Len(left) \in Nat /\ Len(left) > 0 /\ DOMAIN left = 1 .. Len(left) BY ONLY left \in Seq(S), left # << >>, SMT
<1>2. Tail(left) \in Seq(S) BY ONLY left \in Seq(S), left # << >>, SMT
<1>3. DOMAIN Tail(left) = 1 .. Len(left) - 1 /\ \A i \in 1 .. Len(left) - 1 : Tail(left)[i] = left[i + 1]
  BY ONLY left \in Seq(S), left # << >>, SMT
<1>4. Path = left[1] BY ONLY left \in Seq(S), left # << >>, SMT DEF Path
<1>5. \A i, j \in DOMAIN Tail(left) : Tail(left)[i] = Tail(left)[j] => i = j
  BY ONLY <1>1, <1>3, Distinct, SMT DEF Distinct
<1>6. Range(Tail(left)) \subseteq Range(left) \ {Path}
  <2> SUFFICES ASSUME NEW i \in 1 .. Len(left) - 1 PROVE left[i + 1] \in Range(left) \ {Path} BY <1>3, Zenon DEF Range
  <2>1. i + 1 \in DOMAIN left /\ 1 \in DOMAIN left /\ i + 1 # 1 BY <1>1
  <2> QED BY <1>4, <2>1, Zenon DEF Distinct, Range
<1>7. Range(left) \ {Path} \subseteq Range(Tail(left))
  <2> SUFFICES ASSUME NEW i \in DOMAIN left, i # 1 PROVE left[i] \in Range(Tail(left)) BY <1>4, Zenon DEF Range
  <2>1. i - 1 \in 1 .. Len(left) - 1 /\ (i - 1) + 1 = i BY <1>1
  <2>2. Tail(left)[i - 1] = left[i] BY <1>3, <2>1, Zenon
  <2> QED BY <1>3, <2>1, <2>2, Zenon DEF Range
<1>8. Path \in Range(left) BY <1>1, <1>4 DEF Range
<1>9. Range(left) \subseteq S BY ONLY left \in Seq(S), SMT DEF Range
<1> QED BY <1>2, <1>5, <1>6, <1>7, <1>8, <1>9, Zenon

\* A finite set in some order is each of its members once.
LEMMA Ordered ==
  ASSUME NEW D, IsFiniteSet(D)
  PROVE  /\ SetToSeq(D) \in Seq(D) /\ Range(SetToSeq(D)) = D
         /\ \A i, j \in DOMAIN SetToSeq(D) : SetToSeq(D)[i] = SetToSeq(D)[j] => i = j
<1> DEFINE c == Cardinality(D)
           f == SetToSeq(D)
<1>1. c \in Nat BY FS_CardinalityType
<1>2. \E g \in [1 .. c -> D] : IsInjective(g)
  <2>1. PICK g \in Bijection(1 .. c, D) : TRUE BY FS_CardinalityType, Zenon DEF ExistsBijection
  <2> QED BY <2>1, Zenon DEF Bijection, Injection
<1>3. f \in [1 .. c -> D] /\ IsInjective(f) BY <1>2, Zenon DEF SetToSeq
<1>4. f \in Seq(D) BY <1>1, <1>3
<1>5. \A i, j \in DOMAIN f : f[i] = f[j] => i = j BY <1>3, Zenon DEF IsInjective
<1>6. Range(f) = D
  <2>1. f \in Injection(1 .. c, D) BY <1>3, <1>5, Zenon DEF Injection, IsInjective
  <2>2. Cardinality(1 .. c) = c BY <1>1, FS_Interval
  <2>3. f \in Surjection(1 .. c, D) BY <2>1, <2>2, FS_Injection
  <2> QED BY <1>3, <2>3, Zenon DEF Surjection, Range
<1> QED BY <1>4, <1>5, <1>6

\* What the bank sends has no account in two files.
LEMMA SentHasEachOnce ==
  ASSUME ticked \subseteq Account, NEW d \in Sent
  PROVE  /\ IsFiniteSet(DOMAIN d) /\ DOMAIN d \subseteq Name
         /\ \A n \in DOMAIN d : d[n] \subseteq ticked
         /\ \A n, m \in DOMAIN d : \A a \in d[n] : a \in d[m] => n = m
<1> USE ActivityAssumption DEF ActivityAssumption
<1>1. CASE d = [n \in {Combined} |-> ticked]
  <2>1. DOMAIN d = {Combined} /\ d[Combined] = ticked BY <1>1
  <2>2. IsFiniteSet({Combined}) BY FS_Singleton
  <2> QED BY <2>1, <2>2
<1>2. ASSUME NEW s \in SUBSET ticked, d = [n \in {FileName[a] : a \in s} |-> {a \in s : FileName[a] = n}]
      PROVE  /\ IsFiniteSet(DOMAIN d) /\ DOMAIN d \subseteq Name
             /\ \A n \in DOMAIN d : d[n] \subseteq ticked
             /\ \A n, m \in DOMAIN d : \A a \in d[n] : a \in d[m] => n = m
  <2>1. DOMAIN d = {FileName[a] : a \in s} /\ \A n \in DOMAIN d : d[n] = {a \in s : FileName[a] = n} BY <1>2, Zenon
  <2>2. IsFiniteSet(DOMAIN d)
    <3> DEFINE g == [a \in s |-> FileName[a]]
    <3>1. IsFiniteSet(s) BY FS_Subset
    <3>2. g \in Surjection(s, DOMAIN d) BY <2>1, Zenon DEF Surjection
    <3> QED BY ONLY <3>1, <3>2, FS_Surjection, Zenon
  <2>3. DOMAIN d \subseteq Name BY <2>1
  <2>4. \A n \in DOMAIN d : d[n] \subseteq ticked BY ONLY <2>1, s \in SUBSET ticked, Zenon
  <2>5. ASSUME NEW n \in DOMAIN d, NEW m \in DOMAIN d, NEW a \in d[n], a \in d[m] PROVE n = m
    <3>1. a \in {b \in s : FileName[b] = n} /\ a \in {b \in s : FileName[b] = m} BY ONLY <2>1, <2>5, Zenon
    <3> QED BY ONLY <3>1, Zenon
  <2> QED BY ONLY <2>2, <2>3, <2>4, <2>5, Zenon
<1> QED BY <1>1, <1>2, Zenon DEF Sent

\* The name of the next part is no file's.
LEMMA PartIsFree ==
  ASSUME Splitting, at = "split", left # << >>, NEW t \in Types
  PROVE  Part(t) \notin DOMAIN dir /\ Part(t) \in Name
<1>1. Path \in DOMAIN dir
  <2>1. left \in Seq(DOMAIN dir) /\ Distinct BY Zenon DEF Splitting
  <2> QED BY <2>1, TailOfPaths, Zenon
<1>2. Path \in Seq(Nat) BY <1>1, Zenon DEF Splitting, Name
<1>3. t \in Nat
  <2>1. PICK a \in dir[Path] : t = AccountType[a] BY Zenon DEF Types
  <2>2. a \in Account BY <1>1, <2>1, Zenon DEF Splitting
  <2> QED BY <2>1, <2>2, ActivityAssumption DEF ActivityAssumption
<1>4. <<t>> \o Path \in Seq(Nat) /\ <<t>> \o Path # << >> BY ONLY <1>2, <1>3, SMT
<1>5. IsFiniteSet(DOMAIN dir) BY Zenon DEF Splitting
<1> QED BY ONLY <1>4, <1>5, UnusedIsFree, Zenon DEF Part

-----------------------------------------------------------------------------
(* The activity files.                                                     *)

\* What reads or changes no file keeps what is known of the files.
LEMMA QuietKeepsFiles ==
  ASSUME ActivityInv, UNCHANGED <<files, step>>, step = "exporting", at \in Early,
         at' \in (Early \ {"none"}) \union {"failed"}, at' \in {"load", "failed"} \/ shown' = 0
  PROVE  Fresh' /\ Splitting' /\ Served'
<1>1. UNCHANGED <<dir, left, parts, served, arrived, step>> BY DEF files
<1>2. at # "split" /\ at' # "split" /\ at' \notin After /\ at' # "none" BY DEF Early, InDialog, After
<1>3. Fresh' BY <1>1, <1>2 DEF ActivityInv, Fresh, Early, InDialog
<1>4. Splitting' /\ Served' BY <1>2, Zenon DEF Splitting, Served
<1> QED BY <1>3, <1>4

\* As many rows are expected as there are accounts at most.
LEMMA RowsAreAccounts ==
  ASSUME ActivityTypeOK
  PROVE  Rows \subseteq rendered /\ Cardinality(Account) \in Nat /\ Cardinality(Rows) \in 0 .. Cardinality(Account)
<1>1. Rows \subseteq rendered BY Zenon DEF Rows
<1>2. IsFiniteSet(Account) BY ActivityAssumption DEF ActivityAssumption
<1>3. Rows \in SUBSET Account BY <1>1, Zenon DEF ActivityTypeOK
<1>4. IsFiniteSet(Rows) /\ Cardinality(Rows) <= Cardinality(Account) BY <1>2, <1>3, FS_Subset
<1>5. Cardinality(Rows) \in Nat /\ Cardinality(Account) \in Nat BY <1>2, <1>4, FS_CardinalityType
<1> QED BY <1>1, <1>4, <1>5

Dialog ==
  OpenDialog \/ Period \/ AwaitAccounts \/ ClickAll \/ AccountsTicked \/ TickEach \/ Recount \/ FallBack
    \/ DialogBreaks \/ RenderRow

\* The dialog and the feed, up to the files.
LEMMA DialogKeepsActivity ==
  ASSUME ActivityInv, UNCHANGED step, step = "exporting", Dialog \/ OpenFeed \/ LoadMore \/ FeedFails
  PROVE  ActivityInv'
<1> USE DEF Go, files, dialog
<1>1. /\ UNCHANGED files /\ at \in Early \ {"none"} /\ at' \in (Early \ {"none"}) \union {"failed"}
      /\ at' \in {"load", "failed"} \/ (at # "load" /\ shown' = shown)
  BY DEF Dialog, Early, InDialog, OpenDialog, Period, AwaitAccounts, ClickAll, AccountsTicked, TickEach, Recount, FallBack,
         DialogBreaks, RenderRow, OpenFeed, LoadMore, FeedFails
<1>2. at # "load" => shown = 0 BY <1>1 DEF ActivityInv, Fresh
<1>3. Fresh' /\ Splitting' /\ Served' BY <1>1, <1>2, QuietKeepsFiles, Zenon
<1>4. ActivityTypeOK'
  <2>1. UNCHANGED <<dir, left, parts, arrived>> BY <1>1
  <2>0. escaped' \in BOOLEAN /\ missed' \in BOOLEAN
    BY Zenon DEF ActivityInv, ActivityTypeOK, Dialog, OpenDialog, Period, AwaitAccounts, ClickAll, AccountsTicked, TickEach,
               Recount, FallBack, DialogBreaks, RenderRow, OpenFeed, LoadMore, FeedFails
  <2>2. ticked' \subseteq rendered' /\ rendered' \subseteq Account
    <3>1. ticked \subseteq rendered /\ rendered \subseteq Account BY DEF ActivityInv, ActivityTypeOK
    <3>2. Rows \subseteq rendered BY Zenon DEF Rows
    <3> QED BY <3>1, <3>2, Zenon DEF Dialog, OpenDialog, Period, AwaitAccounts, ClickAll, AccountsTicked, TickEach, Recount,
               FallBack, DialogBreaks, RenderRow, OpenFeed, LoadMore, FeedFails, Close
  <2>3. master' \in {"hidden", "off", "on"} /\ readable' \in BOOLEAN
    BY Zenon DEF ActivityInv, ActivityTypeOK, Dialog, OpenDialog, Period, AwaitAccounts, ClickAll, AccountsTicked, TickEach,
               Recount, FallBack, DialogBreaks, RenderRow, OpenFeed, LoadMore, FeedFails, Close
  <2>4. expected' \in 0 .. Cardinality(Account)
    <3>1. /\ expected \in 0 .. Cardinality(Account) /\ Cardinality(Rows) \in 0 .. Cardinality(Account)
          /\ Cardinality(Account) \in Nat
      BY RowsAreAccounts DEF ActivityInv, ActivityTypeOK
    <3>2. expected' \in {expected, 0, Cardinality(Rows)}
      BY Zenon DEF Dialog, OpenDialog, Period, AwaitAccounts, ClickAll, AccountsTicked, TickEach,
               Recount, FallBack, DialogBreaks, RenderRow, OpenFeed, LoadMore, FeedFails, Close
    <3> QED BY ONLY <3>1, <3>2, SMT
  <2>5. shown' \in 0 .. Len(Feed)
    <3>1. Len(Feed) \in Nat /\ shown \in 0 .. Len(Feed)
      BY ActivityAssumption DEF ActivityAssumption, ActivityInv, ActivityTypeOK
    <3>2. shown' = shown \/ shown' \in 0 .. Len(Feed) \/ shown' \in shown + 1 .. Len(Feed)
      BY Zenon DEF Dialog, OpenDialog, Period, AwaitAccounts, ClickAll, AccountsTicked, TickEach,
               Recount, FallBack, DialogBreaks, RenderRow, OpenFeed, LoadMore, FeedFails, Close
    <3> QED BY ONLY <3>1, <3>2, SMT
  <2> QED BY <2>0, <2>1, <2>2, <2>3, <2>4, <2>5 DEF ActivityInv, ActivityTypeOK
<1> QED BY <1>3, <1>4, Zenon DEF ActivityInv

\* What was downloaded is to be split, each account in one file.
LEMMA DownloadKeepsActivity ==
  ASSUME ActivityInv, UNCHANGED step, step = "exporting", Download
  PROVE  ActivityInv'
<1>1. /\ dir' \in Sent /\ left' = SetToSeq(DOMAIN dir') /\ arrived' = UNION Range(dir')
      /\ at = "csv" /\ at' = "split" /\ UNCHANGED <<parts, served, shown, missed, escaped>>
      /\ rendered' = {} /\ ticked' = {} /\ master' = "hidden" /\ readable' = TRUE /\ expected' = 0
  BY Zenon DEF Download, Close
<1>2. served = {} /\ parts = {} /\ shown = 0
  <2>1. at \in Early /\ at # "load" /\ at # "split" BY <1>1 DEF Early
  <2> QED BY <2>1, Zenon DEF ActivityInv, Fresh
<1>3. /\ IsFiniteSet(DOMAIN dir') /\ DOMAIN dir' \subseteq Name
      /\ \A n \in DOMAIN dir' : dir'[n] \subseteq ticked
      /\ \A n, m \in DOMAIN dir' : \A a \in dir'[n] : a \in dir'[m] => n = m
  BY <1>1, SentHasEachOnce, Zenon DEF ActivityInv, ActivityTypeOK
<1>4. /\ left' \in Seq(DOMAIN dir') /\ Range(left') = DOMAIN dir'
      /\ \A i, j \in DOMAIN left' : left'[i] = left'[j] => i = j
  <2> DEFINE D == DOMAIN dir'
  <2>1. IsFiniteSet(D) BY <1>3, Zenon
  <2>2. left' = SetToSeq(D) BY <1>1, Zenon
  <2> HIDE DEF D
  <2>3. left' \in Seq(D) /\ Range(left') = D /\ \A i, j \in DOMAIN left' : left'[i] = left'[j] => i = j
    BY ONLY <2>1, <2>2, Ordered, Zenon
  <2> QED BY <2>3, Zenon DEF D
<1>5. ticked \subseteq Account BY Zenon DEF ActivityInv, ActivityTypeOK
<1>6. Once(served \union Range(left))'
  <2>1. served' \union Range(left') = DOMAIN dir' BY <1>1, <1>2, <1>4, Zenon
  <2>2. ASSUME NEW a \in arrived' PROVE \E n \in DOMAIN dir' : \A m \in DOMAIN dir' : a \in dir'[m] <=> m = n
    <3>1. PICK n \in DOMAIN dir' : a \in dir'[n] BY <1>1, <2>2, Zenon DEF Range
    <3> QED BY ONLY <1>3, <3>1, Zenon
  <2> QED BY ONLY <2>1, <2>2, Zenon DEF Once
<1>7. Splitting'
  <2>1. parts' = {} /\ served' = {} BY <1>1, <1>2, Zenon
  <2>2. \A n \in DOMAIN dir' : dir'[n] \subseteq Account BY ONLY <1>3, <1>5, Zenon
  <2> QED BY ONLY <1>3, <1>4, <1>6, <2>1, <2>2, Zenon DEF Splitting, Distinct
<1>8. Fresh' BY <1>1, <1>2 DEF Fresh, Early, InDialog, ActivityInv
<1>9. Served' BY <1>1 DEF Served, After
<1>10. ActivityTypeOK'
  <2>1. arrived' \subseteq Account BY <1>1, <1>3, <1>5, Zenon DEF Range
  <2>2. 0 \in 0 .. Cardinality(Account) BY RowsAreAccounts DEF ActivityInv
  <2>3. Range(left') \subseteq DOMAIN dir' /\ parts' \subseteq DOMAIN dir' BY <1>1, <1>2, <1>4, Zenon
  <2>4. shown' \in 0 .. Len(Feed) /\ missed' \in BOOLEAN /\ escaped' \in BOOLEAN BY <1>1, Zenon DEF ActivityInv, ActivityTypeOK
  <2>5. ticked' \subseteq rendered' /\ rendered' \subseteq Account BY <1>1, Zenon
  <2> QED BY ONLY <1>1, <2>1, <2>2, <2>3, <2>4, <2>5, Zenon DEF ActivityTypeOK
<1> QED BY <1>7, <1>8, <1>9, <1>10, Zenon DEF ActivityInv

\* A path that is done with has left each account in one file.
LEMMA ServeKeepsActivity ==
  ASSUME ActivityInv, at = "split", left # << >>, UNCHANGED step, NEW names, ServeFor(names),
         IsFiniteSet(DOMAIN dir'), DOMAIN dir' \subseteq Name, \A n \in DOMAIN dir' : dir'[n] \subseteq Account,
         names \union served \union (Range(left) \ {Path}) \subseteq DOMAIN dir',
         names \intersect (Range(left) \ {Path}) = {},
         \A a \in arrived : \E n \in names \union served \union (Range(left) \ {Path}) :
           \A m \in names \union served \union (Range(left) \ {Path}) : a \in dir'[m] <=> m = n
  PROVE  ActivityInv'
<1>1. /\ left' = Tail(left) /\ parts' = {} /\ served' = served \union names
      /\ UNCHANGED <<page, dialog, at, expected, arrived, shown, missed, escaped>>
  BY Zenon DEF ServeFor
<1>2. UNCHANGED <<rendered, ticked, master, readable>> BY <1>1 DEF dialog
<1>3. left \in Seq(DOMAIN dir) /\ Distinct /\ served \intersect Range(left) = {} BY Zenon DEF ActivityInv, Splitting
<1>4. /\ left' \in Seq(DOMAIN dir) /\ Range(left') = Range(left) \ {Path}
      /\ \A i, j \in DOMAIN left' : left'[i] = left'[j] => i = j
  BY ONLY <1>1, <1>3, left # << >>, TailOfPaths, Zenon
<1>5. left' \in Seq(DOMAIN dir')
  <2>1. Range(left') \subseteq DOMAIN dir' BY <1>4, Zenon
  <2> QED BY ONLY <1>4, <2>1, SMT DEF Range
<1>6. served' \union Range(left') = names \union served \union (Range(left) \ {Path}) BY ONLY <1>1, <1>4, Zenon
<1>7. Once(served \union Range(left))'
  <2> DEFINE S == names \union served \union (Range(left) \ {Path})
  <2>1. \A a \in arrived : \E n \in S : \A m \in S : a \in dir'[m] <=> m = n OBVIOUS
  <2>2. served' \union Range(left') = S /\ arrived' = arrived BY ONLY <1>1, <1>6, Zenon
  <2> HIDE DEF S
  <2> QED BY ONLY <2>1, <2>2, Zenon DEF Once
<1>8. served' \intersect Range(left') = {} BY <1>1, <1>3, <1>4, Zenon
<1>9. served' \subseteq DOMAIN dir' /\ Range(left') \subseteq DOMAIN dir' BY <1>6, Zenon
<1>10. Splitting' BY <1>1, <1>4, <1>5, <1>7, <1>8, <1>9, Zenon DEF Splitting, Distinct
<1>11. Fresh' BY <1>1 DEF ActivityInv, Fresh, Early, InDialog
<1>12. Served' BY <1>1 DEF Served, After
<1>13. ActivityTypeOK' BY <1>1, <1>2, <1>9, Zenon DEF ActivityInv, ActivityTypeOK
<1> QED BY <1>10, <1>11, <1>12, <1>13, Zenon DEF ActivityInv

\* What is known of a path that is to be split.
LEMMA ToSplit ==
  ASSUME ActivityInv, at = "split", left # << >>
  PROVE  /\ Path \in DOMAIN dir /\ Path \notin served /\ Path \notin parts /\ Path \in Range(left)
         /\ IsFiniteSet(DOMAIN dir) /\ DOMAIN dir \subseteq Name /\ \A n \in DOMAIN dir : dir[n] \subseteq Account
         /\ Range(left) \subseteq DOMAIN dir /\ served \subseteq DOMAIN dir /\ served \intersect Range(left) = {}
         /\ parts \subseteq DOMAIN dir /\ parts \intersect (served \union Range(left)) = {}
         /\ \A a \in arrived : \E n \in served \union Range(left) :
              \A m \in served \union Range(left) : a \in dir[m] <=> m = n
<1>1. left \in Seq(DOMAIN dir) /\ Distinct BY Zenon DEF ActivityInv, Splitting
<1>2. Path \in Range(left) /\ Range(left) \subseteq DOMAIN dir BY ONLY <1>1, left # << >>, TailOfPaths, Zenon
<1> QED BY <1>2, Zenon DEF ActivityInv, Splitting, Once

\* A file added to the directory is the only one that changes.
LEMMA Adding ==
  ASSUME NEW name, NEW rows
  PROVE  /\ DOMAIN WithFile(name, rows) = DOMAIN dir \union {name} /\ WithFile(name, rows)[name] = rows
         /\ \A n \in DOMAIN dir \ {name} : WithFile(name, rows)[n] = dir[n]
BY Zenon DEF WithFile

\* A file that cannot be split is served whole.
LEMMA WholeKeepsActivity == ASSUME ActivityInv, UNCHANGED step, ServeWhole PROVE ActivityInv'
<1>1. at = "split" /\ left # << >> /\ ServeFor({Path}) /\ dir' \in {dir} \union {WithFile(Part(t), {}) : t \in Types}
  BY Zenon DEF ServeWhole
<1>2. /\ IsFiniteSet(DOMAIN dir') /\ DOMAIN dir' \subseteq Name /\ DOMAIN dir \subseteq DOMAIN dir'
      /\ \A n \in DOMAIN dir : dir'[n] = dir[n]
      /\ \A n \in DOMAIN dir' \ DOMAIN dir : dir'[n] = {}
  <2>1. CASE dir' = dir BY <1>1, <2>1, ToSplit, Zenon
  <2>2. ASSUME NEW t \in Types, dir' = WithFile(Part(t), {})
        PROVE  /\ IsFiniteSet(DOMAIN dir') /\ DOMAIN dir' \subseteq Name /\ DOMAIN dir \subseteq DOMAIN dir'
               /\ \A n \in DOMAIN dir : dir'[n] = dir[n]
               /\ \A n \in DOMAIN dir' \ DOMAIN dir : dir'[n] = {}
    <3>1. Part(t) \notin DOMAIN dir /\ Part(t) \in Name BY <1>1, PartIsFree, Zenon DEF ActivityInv
    <3>2. DOMAIN dir' = DOMAIN dir \union {Part(t)} /\ dir'[Part(t)] = {} /\ \A n \in DOMAIN dir \ {Part(t)} : dir'[n] = dir[n]
      BY ONLY <2>2, SMT DEF WithFile
    <3>3. IsFiniteSet(DOMAIN dir) /\ DOMAIN dir \subseteq Name BY <1>1, ToSplit, Zenon
    <3>4. IsFiniteSet(DOMAIN dir \union {Part(t)}) BY ONLY <3>3, FS_AddElement, Zenon
    <3>5. IsFiniteSet(DOMAIN dir') BY ONLY <3>2, <3>4, Zenon
    <3> QED BY ONLY <3>1, <3>2, <3>3, <3>5, Zenon
  <2> QED BY <1>1, <2>1, <2>2, Zenon
<1>3. {Path} \union served \union (Range(left) \ {Path}) = served \union Range(left) BY <1>1, ToSplit, Zenon
<1>4. served \union Range(left) \subseteq DOMAIN dir BY <1>1, ToSplit, Zenon
<1>5. \A a \in arrived : \E n \in served \union Range(left) : \A m \in served \union Range(left) : a \in dir'[m] <=> m = n
  <2>1. \A a \in arrived : \E n \in served \union Range(left) : \A m \in served \union Range(left) : a \in dir[m] <=> m = n
    BY <1>1, ToSplit, Zenon
  <2>2. \A m \in served \union Range(left) : dir'[m] = dir[m] BY <1>2, <1>4, Zenon
  <2> QED BY ONLY <2>1, <2>2, Zenon
<1>6. \A n \in DOMAIN dir' : dir'[n] \subseteq Account
  <2>1. \A n \in DOMAIN dir : dir[n] \subseteq Account BY <1>1, ToSplit, Zenon
  <2> QED BY ONLY <1>2, <2>1, Zenon
<1>7. {Path} \union served \union (Range(left) \ {Path}) \subseteq DOMAIN dir' BY ONLY <1>2, <1>3, <1>4, Zenon
<1>8. {Path} \intersect (Range(left) \ {Path}) = {} BY ONLY Zenon
<1>9. \A a \in arrived : \E n \in {Path} \union served \union (Range(left) \ {Path}) :
        \A m \in {Path} \union served \union (Range(left) \ {Path}) : a \in dir'[m] <=> m = n
  BY ONLY <1>3, <1>5, Zenon
<1> QED BY ONLY <1>1, <1>2, <1>6, <1>7, <1>8, <1>9, ActivityInv, UNCHANGED step, ServeKeepsActivity, Zenon

\* A file of one type takes the name of its part.
LEMMA RenameKeepsActivity == ASSUME ActivityInv, UNCHANGED step, RenameFile PROVE ActivityInv'
<1>1. PICK t \in Types :
        dir' = Restrict(WithFile(Part(t), dir[Path]), (DOMAIN dir \ {Path}) \union {Part(t)}) /\ ServeFor({Part(t)})
  BY Zenon DEF RenameFile
<1>2. at = "split" /\ left # << >> BY Zenon DEF RenameFile
<1>3. Part(t) \notin DOMAIN dir /\ Part(t) \in Name BY <1>2, PartIsFree, Zenon DEF ActivityInv
<1> DEFINE N == Part(t)
           Rest == served \union (Range(left) \ {Path})
<1> HIDE DEF N
<1>4. /\ DOMAIN dir' = (DOMAIN dir \ {Path}) \union {N} /\ dir'[N] = dir[Path]
      /\ \A n \in DOMAIN dir \ {Path} : dir'[n] = dir[n]
  <2>1. dir' = Restrict(WithFile(N, dir[Path]), (DOMAIN dir \ {Path}) \union {N}) BY <1>1, Zenon DEF N
  <2>2. N \notin DOMAIN dir BY <1>3, Zenon DEF N
  <2>3. /\ DOMAIN WithFile(N, dir[Path]) = DOMAIN dir \union {N} /\ WithFile(N, dir[Path])[N] = dir[Path]
        /\ \A n \in DOMAIN dir \ {N} : WithFile(N, dir[Path])[n] = dir[n]
    BY ONLY SMT DEF WithFile
  <2>4. dir' = [n \in (DOMAIN dir \ {Path}) \union {N} |-> WithFile(N, dir[Path])[n]] BY ONLY <2>1, Zenon DEF Restrict
  <2>5. DOMAIN dir' = (DOMAIN dir \ {Path}) \union {N} /\ dir'[N] = dir[Path] BY ONLY <2>3, <2>4, Zenon
  <2>6. ASSUME NEW n \in DOMAIN dir \ {Path} PROVE dir'[n] = dir[n]
    <3>1. n # N /\ n \in DOMAIN dir \ {N} BY ONLY <2>2, <2>6, Zenon
    <3>2. WithFile(N, dir[Path])[n] = dir[n] BY ONLY <2>3, <3>1, Zenon
    <3>3. dir'[n] = WithFile(N, dir[Path])[n] BY ONLY <2>4, <2>6, Zenon
    <3> QED BY ONLY <3>2, <3>3, Zenon
  <2> QED BY ONLY <2>5, <2>6, Zenon
<1>5. IsFiniteSet(DOMAIN dir') /\ DOMAIN dir' \subseteq Name
  <2>1. IsFiniteSet(DOMAIN dir) /\ DOMAIN dir \subseteq Name BY <1>2, ToSplit, Zenon
  <2>2. IsFiniteSet(DOMAIN dir \ {Path}) BY ONLY <2>1, FS_RemoveElement, Zenon
  <2>3. IsFiniteSet((DOMAIN dir \ {Path}) \union {N}) BY ONLY <2>2, FS_AddElement, Zenon
  <2>4. IsFiniteSet(DOMAIN dir') BY ONLY <1>4, <2>3, Zenon
  <2> QED BY <1>3, <1>4, <2>1, <2>4, Zenon DEF N
<1>6. \A n \in DOMAIN dir' : dir'[n] \subseteq Account
  <2>1. Path \in DOMAIN dir /\ \A n \in DOMAIN dir : dir[n] \subseteq Account BY <1>2, ToSplit, Zenon
  <2> QED BY ONLY <1>4, <2>1, Zenon
<1>7. Rest \subseteq DOMAIN dir \ {Path} /\ N \notin Rest
  <2>1. Range(left) \subseteq DOMAIN dir /\ served \subseteq DOMAIN dir /\ Path \notin served BY <1>2, ToSplit, Zenon
  <2> QED BY <1>3, <2>1, Zenon DEF N
<1>8. \A a \in arrived : \E n \in {N} \union Rest : \A m \in {N} \union Rest : a \in dir'[m] <=> m = n
  <2>1. \A a \in arrived : \E n \in Rest \union {Path} : \A m \in Rest \union {Path} : a \in dir[m] <=> m = n
    <3>1. served \union Range(left) = Rest \union {Path} BY <1>2, ToSplit, Zenon
    <3> HIDE DEF Rest
    <3> QED BY ONLY <1>2, <3>1, ActivityInv, ToSplit, Zenon
  <2>2. \A m \in Rest : dir'[m] = dir[m] BY <1>4, <1>7, Zenon
  <2>3. Path \notin Rest BY <1>7, Zenon
  <2> HIDE DEF Rest
  <2> TAKE a \in arrived
  <2>4. PICK n \in Rest \union {Path} : \A m \in Rest \union {Path} : a \in dir[m] <=> m = n BY ONLY <2>1, a \in arrived, Zenon
  <2>5. N \notin Rest /\ dir'[N] = dir[Path] BY ONLY <1>4, <1>7, Zenon
  <2>6. CASE n = Path
    <3>1. \A m \in {N} \union Rest : a \in dir'[m] <=> m = N BY ONLY <2>2, <2>3, <2>4, <2>5, <2>6, Zenon
    <3> QED BY ONLY <3>1
  <2>7. CASE n # Path
    <3>1. \A m \in {N} \union Rest : a \in dir'[m] <=> m = n BY ONLY <2>2, <2>3, <2>4, <2>5, <2>7, Zenon
    <3>2. n \in {N} \union Rest BY ONLY n \in Rest \union {Path}, <2>7, Zenon
    <3> QED BY ONLY <3>1, <3>2
  <2> QED BY ONLY <2>6, <2>7, Zenon
<1>9. {N} \union served \union (Range(left) \ {Path}) = {N} \union Rest BY ONLY Zenon
<1>10. {N} \union served \union (Range(left) \ {Path}) \subseteq DOMAIN dir' BY ONLY <1>4, <1>7, <1>9, Zenon
<1>11. {N} \intersect (Range(left) \ {Path}) = {} BY <1>7, Zenon
<1>12. \A a \in arrived : \E n \in {N} \union served \union (Range(left) \ {Path}) :
         \A m \in {N} \union served \union (Range(left) \ {Path}) : a \in dir'[m] <=> m = n
  <2> HIDE DEF Rest
  <2> QED BY ONLY <1>8, <1>9, Zenon
<1>13. ServeFor({N}) BY <1>1, Zenon DEF N
<1> QED BY ONLY <1>2, <1>5, <1>6, <1>10, <1>11, <1>12, <1>13, ActivityInv, UNCHANGED step, ServeKeepsActivity, Zenon

\* A part holds all of the path's rows of its type, and nobody else's.
LEMMA PartKeepsActivity == ASSUME ActivityInv, UNCHANGED step, WritePart PROVE ActivityInv'
<1>1. at = "split" /\ left # << >> BY Zenon DEF WritePart
<1>2. PICK t \in Types \ {AccountType[a] : a \in UNION {dir[p] : p \in parts}} :
        /\ dir' = WithFile(Part(t), {a \in dir[Path] : AccountType[a] = t})
        /\ parts' = parts \union {Part(t)}
  BY Zenon DEF WritePart
<1>3. UNCHANGED <<page, dialog, at, expected, left, served, arrived, shown, missed, escaped, step>> BY Zenon DEF WritePart
<1>4. t \in Types BY <1>2, Zenon
<1>5. Part(t) \notin DOMAIN dir /\ Part(t) \in Name BY <1>1, <1>4, PartIsFree, Zenon DEF ActivityInv
<1> DEFINE N == Part(t)
           R == {a \in dir[Path] : AccountType[a] = t}
<1> HIDE DEF N
<1>6. DOMAIN dir' = DOMAIN dir \union {N} /\ dir'[N] = R /\ \A n \in DOMAIN dir : dir'[n] = dir[n]
  <2>1. dir' = WithFile(N, R) BY <1>2, Zenon DEF N
  <2>2. N \notin DOMAIN dir BY <1>5, Zenon DEF N
  <2> HIDE DEF R
  <2> QED BY ONLY <2>1, <2>2, SMT DEF WithFile
<1>7. /\ Path \in DOMAIN dir /\ IsFiniteSet(DOMAIN dir) /\ DOMAIN dir \subseteq Name
      /\ \A n \in DOMAIN dir : dir[n] \subseteq Account
      /\ Range(left) \subseteq DOMAIN dir /\ served \subseteq DOMAIN dir /\ served \intersect Range(left) = {}
      /\ parts \subseteq DOMAIN dir /\ parts \intersect (served \union Range(left)) = {}
  BY <1>1, ToSplit, Zenon
<1>8. N \notin DOMAIN dir /\ N \in Name /\ parts' = parts \union {N} BY <1>2, <1>5, Zenon DEF N
<1>9. R \subseteq dir[Path] BY ONLY Zenon
<1>10. \A p \in parts : \A a \in dir[p] : AccountType[a] # t BY <1>2, Zenon
<1>11. \A p \in parts : dir[p] \intersect R = {} BY ONLY <1>10, Zenon
<1>12. \A a \in R : \A b \in dir[Path] : AccountType[a] = AccountType[b] => b \in R BY ONLY Zenon
<1> HIDE DEF R
<1>13. UNCHANGED <<at, left, served, arrived, shown, missed, escaped, step, rendered, ticked, master, readable, expected>>
  BY <1>3 DEF dialog
<1>14. left \in Seq(DOMAIN dir) /\ Distinct BY <1>1, Zenon DEF ActivityInv, Splitting
<1>15. Splitting'
  <2>1. IsFiniteSet(DOMAIN dir') /\ DOMAIN dir' \subseteq Name
    <3>1. IsFiniteSet(DOMAIN dir \union {N}) BY ONLY <1>7, FS_AddElement, Zenon
    <3>2. IsFiniteSet(DOMAIN dir') BY ONLY <1>6, <3>1, Zenon
    <3> QED BY ONLY <1>6, <1>7, <1>8, <3>2, Zenon
  <2>2. \A n \in DOMAIN dir' : dir'[n] \subseteq Account BY ONLY <1>6, <1>7, <1>9, Zenon
  <2>3. left' \in Seq(DOMAIN dir') /\ Distinct'
    <3>1. left \in Seq(DOMAIN dir') BY ONLY <1>6, <1>14, SMT
    <3> QED BY ONLY <1>13, <1>14, <3>1, Zenon DEF Distinct
  <2>4. served' \subseteq DOMAIN dir' /\ served' \intersect Range(left') = {} BY ONLY <1>6, <1>7, <1>13, Zenon
  <2>5. parts' \subseteq DOMAIN dir' \ (served' \union Range(left')) BY ONLY <1>6, <1>7, <1>8, <1>13, Zenon
  <2>6. left' # << >> BY <1>1, <1>13, Zenon
  <2>7. Once(served \union Range(left))'
    <3>1. \A a \in arrived : \E n \in served \union Range(left) : \A m \in served \union Range(left) : a \in dir[m] <=> m = n
      BY <1>1, ToSplit, Zenon
    <3>2. \A m \in served \union Range(left) : dir'[m] = dir[m] BY ONLY <1>6, <1>7, Zenon
    <3> DEFINE S == served \union Range(left)
    <3>3. served' \union Range(left') = S /\ arrived' = arrived BY ONLY <1>13, Zenon
    <3> HIDE DEF S
    <3>4. \A a \in arrived' : \E n \in S : \A m \in S : a \in dir'[m] <=> m = n BY ONLY <3>1, <3>2, <3>3, Zenon DEF S
    <3> QED BY ONLY <3>3, <3>4, Zenon DEF Once
  <2>8. \A p \in parts : dir'[p] = dir[p] BY ONLY <1>6, <1>7, Zenon
  <2>9. Path' = Path /\ dir'[Path] = dir[Path] BY ONLY <1>6, <1>7, <1>13, Zenon DEF Path
  <2>10. /\ \A p \in parts : \A q \in parts : p # q => dir[p] \intersect dir[q] = {}
         /\ \A p \in parts : dir[p] \subseteq dir[Path]
         /\ \A p \in parts : \A a \in dir[p] : \A b \in dir[Path] : AccountType[a] = AccountType[b] => b \in dir[p]
    BY <1>1, Zenon DEF ActivityInv, Splitting
  <2>11. dir'[N] = R BY <1>6, Zenon
  <2>12. \A p \in parts' : \A q \in parts' : p # q => dir'[p] \intersect dir'[q] = {}
    <3> SUFFICES ASSUME NEW p \in parts', NEW q \in parts', p # q PROVE dir'[p] \intersect dir'[q] = {} OBVIOUS
    <3>1. CASE p \in parts /\ q \in parts BY ONLY <2>8, <2>10, <3>1, p # q, Zenon
    <3>2. CASE p \in parts /\ q = N BY ONLY <1>11, <2>8, <2>11, <3>2, Zenon
    <3>3. CASE p = N /\ q \in parts BY ONLY <1>11, <2>8, <2>11, <3>3, Zenon
    <3> QED BY ONLY <1>8, <3>1, <3>2, <3>3, p \in parts', q \in parts', p # q, Zenon
  <2>13. \A p \in parts' : dir'[p] \subseteq dir'[Path'] BY ONLY <1>8, <1>9, <2>8, <2>9, <2>10, <2>11, Zenon
  <2>14. \A p \in parts' : \A a \in dir'[p] : \A b \in dir'[Path'] : AccountType[a] = AccountType[b] => b \in dir'[p]
    <3>1. dir'[Path'] = dir[Path] BY ONLY <2>9, Zenon
    <3>2. ASSUME NEW p \in parts', NEW a \in dir'[p], NEW b \in dir[Path], AccountType[a] = AccountType[b]
          PROVE  b \in dir'[p]
      <4>1. CASE p \in parts BY <2>8, <2>10, <3>2, <4>1, Zenon
      <4>2. CASE p = N BY <1>12, <2>11, <3>2, <4>2, Zenon
      <4> QED BY ONLY <1>8, <4>1, <4>2, p \in parts', Zenon
    <3> QED BY ONLY <3>1, <3>2
  <2> QED BY ONLY <2>1, <2>2, <2>3, <2>4, <2>5, <2>6, <2>7, <2>12, <2>13, <2>14, Zenon DEF Splitting
<1>16. Fresh' BY <1>1, <1>13 DEF ActivityInv, Fresh, Early, InDialog
<1>17. Served' BY <1>1, <1>13 DEF Served, After
<1>18. ActivityTypeOK'
  <2>1. Range(left') \subseteq DOMAIN dir' /\ parts' \subseteq DOMAIN dir' BY ONLY <1>6, <1>7, <1>8, <1>13, Zenon
  <2> QED BY <1>13, <2>1, Zenon DEF ActivityInv, ActivityTypeOK
<1> QED BY <1>15, <1>16, <1>17, <1>18, Zenon DEF ActivityInv

\* Once its parts hold all of a path, the path can go.
LEMMA DropKeepsActivity == ASSUME ActivityInv, UNCHANGED step, DropOriginal PROVE ActivityInv'
<1>1. /\ at = "split" /\ left # << >> /\ parts # {} /\ UNION {dir[p] : p \in parts} = dir[Path]
      /\ dir' = Restrict(dir, DOMAIN dir \ {Path}) /\ ServeFor(parts)
  BY Zenon DEF DropOriginal
<1>2. /\ Path \in DOMAIN dir /\ Path \notin served /\ Path \notin parts /\ Path \in Range(left)
      /\ IsFiniteSet(DOMAIN dir) /\ DOMAIN dir \subseteq Name /\ \A n \in DOMAIN dir : dir[n] \subseteq Account
      /\ Range(left) \subseteq DOMAIN dir /\ served \subseteq DOMAIN dir
      /\ parts \subseteq DOMAIN dir /\ parts \intersect (served \union Range(left)) = {}
  BY <1>1, ToSplit, Zenon
<1>3. DOMAIN dir' = DOMAIN dir \ {Path} /\ \A n \in DOMAIN dir \ {Path} : dir'[n] = dir[n]
  <2>1. dir' = [n \in DOMAIN dir \ {Path} |-> dir[n]] BY ONLY <1>1, Zenon DEF Restrict
  <2> QED BY ONLY <2>1, Zenon
<1> DEFINE Rest == served \union (Range(left) \ {Path})
<1>4. IsFiniteSet(DOMAIN dir') /\ DOMAIN dir' \subseteq Name /\ \A n \in DOMAIN dir' : dir'[n] \subseteq Account
  <2>1. IsFiniteSet(DOMAIN dir') BY ONLY <1>2, <1>3, FS_RemoveElement, Zenon
  <2> QED BY ONLY <1>2, <1>3, <2>1, Zenon
<1>5. Rest \subseteq DOMAIN dir' /\ parts \subseteq DOMAIN dir' /\ Path \notin Rest /\ parts \intersect Rest = {}
  BY ONLY <1>2, <1>3, Zenon
<1>6. parts \intersect (Range(left) \ {Path}) = {} BY ONLY <1>2, Zenon
<1>7. served \union Range(left) = Rest \union {Path} BY ONLY <1>2, Zenon
<1>8. parts \union served \union (Range(left) \ {Path}) = parts \union Rest BY ONLY Zenon
<1> HIDE DEF Rest
<1>9. \A a \in arrived : \E n \in parts \union Rest : \A m \in parts \union Rest : a \in dir'[m] <=> m = n
  <2>1. \A a \in arrived : \E n \in Rest \union {Path} : \A m \in Rest \union {Path} : a \in dir[m] <=> m = n
    BY ONLY <1>1, <1>7, ActivityInv, ToSplit, Zenon
  <2>2. \A m \in parts \union Rest : dir'[m] = dir[m] BY ONLY <1>3, <1>5, Zenon
  <2>3. \A p \in parts : \A q \in parts : p # q => dir[p] \intersect dir[q] = {}
    BY <1>1, Zenon DEF ActivityInv, Splitting
  <2> TAKE a \in arrived
  <2>4. PICK n \in Rest \union {Path} : \A m \in Rest \union {Path} : a \in dir[m] <=> m = n BY ONLY <2>1, a \in arrived, Zenon
  <2>5. \A m \in parts : a \in dir[m] => a \in dir[Path] BY ONLY <1>1, Zenon
  <2>6. CASE n = Path
    <3>1. PICK p \in parts : a \in dir[p] BY ONLY <1>1, <2>4, <2>6, Zenon
    <3>2. \A m \in parts : a \in dir'[m] <=> m = p BY ONLY <2>2, <2>3, <3>1, Zenon
    <3>3. \A m \in Rest : a \notin dir'[m] /\ m # p BY ONLY <1>5, <2>2, <2>4, <2>6, p \in parts, Zenon
    <3>4. \A m \in parts \union Rest : a \in dir'[m] <=> m = p BY ONLY <3>2, <3>3, Zenon
    <3> QED BY ONLY <3>4, p \in parts
  <2>7. CASE n # Path
    <3>1. \A m \in parts : a \notin dir'[m] BY ONLY <2>2, <2>4, <2>5, <2>7, Zenon
    <3>2. n \in Rest BY ONLY n \in Rest \union {Path}, <2>7, Zenon
    <3>3. \A m \in Rest : a \in dir'[m] <=> m = n BY ONLY <2>2, <2>4, Zenon
    <3>4. \A m \in parts : m # n BY ONLY <1>5, <3>2, Zenon
    <3>5. \A m \in parts \union Rest : a \in dir'[m] <=> m = n BY ONLY <3>1, <3>3, <3>4, Zenon
    <3> QED BY ONLY <3>2, <3>5
  <2> QED BY ONLY <2>6, <2>7, Zenon
<1>10. parts \union served \union (Range(left) \ {Path}) \subseteq DOMAIN dir' BY ONLY <1>5, <1>8, Zenon
<1>11. \A a \in arrived : \E n \in parts \union served \union (Range(left) \ {Path}) :
         \A m \in parts \union served \union (Range(left) \ {Path}) : a \in dir'[m] <=> m = n
  BY ONLY <1>8, <1>9, Zenon
<1> QED BY ONLY <1>1, <1>4, <1>6, <1>10, <1>11, ActivityInv, UNCHANGED step, ServeKeepsActivity, Zenon

\* Once no path is to come, each account is in one of the files served.
LEMMA EndKeepsActivity == ASSUME ActivityInv, UNCHANGED step, step = "exporting", EndSplit PROVE ActivityInv'
<1>1. at = "split" /\ left = << >> /\ at' = "earnings" /\ UNCHANGED <<page, files, shown, missed, escaped, dialog, expected>>
  BY Zenon DEF EndSplit, Go
<1>2. UNCHANGED <<dir, left, parts, served, arrived, shown, missed, escaped, expected, rendered, ticked, master, readable>>
  BY <1>1 DEF files, dialog
<1>3. parts = {} /\ served \subseteq DOMAIN dir /\ DOMAIN dir \subseteq Name /\ Once(served \union Range(left))
  BY <1>1, Zenon DEF ActivityInv, Splitting
<1>4. Range(left) = {} BY ONLY <1>1, SMT DEF Range
<1>5. FeedFile \notin served BY ONLY <1>3, Zenon DEF FeedFile, Name
<1>6. Served'
  <2>1. served \union Range(left) = served BY <1>4
  <2>2. Once(served) BY ONLY <1>3, <2>1, Zenon
  <2>3. Once(served)' BY ONLY <1>2, <2>2, Zenon DEF Once
  <2>4. served' \subseteq DOMAIN dir' /\ FeedFile \notin served' BY ONLY <1>2, <1>3, <1>5, Zenon
  <2> QED BY ONLY <2>3, <2>4, Zenon DEF Served
<1>7. Fresh' BY <1>1, <1>2, <1>3 DEF Fresh, Early, InDialog
<1>8. Splitting' BY <1>1 DEF Splitting
<1>9. ActivityTypeOK' BY <1>2, Zenon DEF ActivityInv, ActivityTypeOK
<1> QED BY <1>6, <1>7, <1>8, <1>9, Zenon DEF ActivityInv

\* If the feed is read far enough, what it does not show is older.
LEMMA FeedKeepsActivity == ASSUME ActivityInv, UNCHANGED step, step = "exporting", ReadFeed PROVE ActivityInv'
<1>1. /\ at = "load" /\ missed' = (~FarEnough /\ shown < Len(Feed)) /\ served' = {FeedFile} /\ at' = "earnings"
      /\ dir' = [n \in {FeedFile} |-> {i \in 1 .. shown : Feed[i] >= Since}]
      /\ UNCHANGED <<page, dialog, expected, left, parts, arrived, shown, escaped>>
  BY Zenon DEF ReadFeed
<1>2. UNCHANGED <<left, parts, arrived, shown, escaped, expected, rendered, ticked, master, readable>> BY <1>1 DEF dialog
<1>3. left = << >> /\ parts = {} /\ shown \in 0 .. Len(Feed) BY <1>1, Zenon DEF ActivityInv, Fresh, ActivityTypeOK
<1>4. DOMAIN dir' = {FeedFile} /\ dir'[FeedFile] = {i \in 1 .. shown : Feed[i] >= Since} BY ONLY <1>1, Zenon
<1>5. ASSUME shown > 0, Feed[shown] # Undated, ~missed', NEW i \in DOMAIN Feed, Feed[i] > Since
      PROVE  i \in {j \in 1 .. shown : Feed[j] >= Since}
  <2>1. /\ Feed \in Seq(Nat \union {Undated}) /\ Since \in Nat
        /\ \A k, j \in DOMAIN Feed : k < j => Feed[j] <= Feed[k] \/ Feed[k] = Undated
    BY ActivityAssumption DEF ActivityAssumption
  <2>2. DOMAIN Feed = 1 .. Len(Feed) /\ Len(Feed) \in Nat /\ \A j \in 1 .. Len(Feed) : Feed[j] \in Int
    BY ONLY <2>1, SMT DEF Undated
  <2>3. i \in 1 .. shown
    <3>1. CASE ~(shown < Len(Feed)) BY ONLY <1>3, <2>2, <3>1, i \in DOMAIN Feed, SMT
    <3>2. CASE Feed[shown] <= Since
      <4>1. shown \in DOMAIN Feed /\ shown \in Nat /\ i \in Nat BY ONLY <1>3, <1>5, <2>2, SMT
      <4>2. ~(shown < i) \/ Feed[i] <= Feed[shown] BY ONLY <1>5, <2>1, <4>1, i \in DOMAIN Feed, Zenon
      <4>3. Feed[i] \in Int /\ Feed[shown] \in Int BY ONLY <2>2, <4>1, i \in DOMAIN Feed, SMT
      <4>4. ~(shown < i) BY ONLY <1>5, <2>1, <3>2, <4>2, <4>3, SMT
      <4> QED BY ONLY <2>2, <4>1, <4>4, i \in DOMAIN Feed, SMT
    <3> QED BY <1>1, <1>5, <3>1, <3>2, Zenon DEF FarEnough
  <2>4. Feed[i] >= Since BY ONLY <1>5, <2>1, <2>2, i \in DOMAIN Feed, SMT
  <2> QED BY ONLY <2>3, <2>4, Zenon
<1>6. Served'
  <2>1. shown > 0 /\ Feed[shown] # Undated /\ ~missed' => {i \in DOMAIN Feed : Feed[i] > Since} \subseteq dir'[FeedFile]
    BY ONLY <1>4, <1>5, Zenon
  <2>2. served' \subseteq DOMAIN dir' /\ FeedFile \in served' BY ONLY <1>1, <1>4, Zenon
  <2> QED BY ONLY <1>2, <2>1, <2>2, Zenon DEF Served
<1>7. Fresh' BY <1>1, <1>2, <1>3 DEF Fresh, Early, InDialog
<1>8. Splitting' BY <1>1 DEF Splitting
<1>9. ActivityTypeOK'
  <2>1. Range(left') \subseteq DOMAIN dir' /\ parts' \subseteq DOMAIN dir'
    <3>1. Range(left) = {} BY ONLY <1>3, SMT DEF Range
    <3> QED BY ONLY <1>2, <1>3, <3>1, Zenon
  <2>2. missed' \in BOOLEAN BY ONLY <1>1, Zenon DEF FarEnough
  <2> QED BY <1>2, <2>1, <2>2, Zenon DEF ActivityInv, ActivityTypeOK
<1> QED BY <1>6, <1>7, <1>8, <1>9, Zenon DEF ActivityInv

\* An export starts with no files.
LEMMA StartKeepsActivity == ASSUME ActivityInv, StartExport PROVE ActivityInv'
<1>1. /\ step = "idle" /\ step' = "exporting" /\ at' = "activity"
      /\ master' \in {"hidden", "off", "on"} /\ readable' \in BOOLEAN
      /\ UNCHANGED <<rendered, ticked, expected, dir, left, parts, served, arrived, shown, missed, escaped>>
  BY Zenon DEF StartExport
<1>2. at = "none" BY <1>1 DEF ActivityInv, Fresh
<1>3. Fresh' BY <1>1, <1>2 DEF ActivityInv, Fresh, Early, InDialog
<1>4. Splitting' /\ Served' BY <1>1 DEF Splitting, Served, After
<1>5. ActivityTypeOK' BY <1>1, Zenon DEF ActivityInv, ActivityTypeOK
<1> QED BY <1>3, <1>4, <1>5, Zenon DEF ActivityInv

\* Only an export begins or ends one.
LEMMA NoExportBegins ==
  ASSUME Bank \/ StartAuth \/ ContinueAuth \/ Call \/ Break
  PROVE  (step = "exporting") <=> (step' = "exporting")
<1>1. CASE Bank
  BY <1>1, Zenon DEF Bank, ShowForm, AnswerLogin, AnswerOther, AutoSubmit, AnswerCode, UserDecides, UserSignsIn, scraper
<1>2. CASE StartAuth \/ ContinueAuth
  BY <1>2 DEF StartAuth, ContinueAuth, Goto, Raise, TellSignedIn, Return
<1>3. CASE FindForm \/ TypeLogin \/ SubmitLogin \/ CheckForWrongLogin
  BY <1>3 DEF FindForm, TypeLogin, SubmitLogin, CheckForWrongLogin, Goto, Raise
<1>4. CASE SkipPasskey \/ TryAnotherWay \/ CodeField \/ Approval
  BY <1>4 DEF SkipPasskey, TryAnotherWay, CodeField, Approval, TellApproval, TellCode, TellSignedIn, Return, Goto
<1>5. CASE IsDevice \/ TypeCode \/ NotSent \/ FindButton \/ ClickCode \/ CodeOutcome \/ MaybeLater \/ Confirm
  BY <1>5 DEF IsDevice, TypeCode, NotSent, FindButton, ClickCode, CodeOutcome, MaybeLater, Confirm, TellApproval, TellSignedIn,
              Return, Goto, Raise
<1>6. CASE NotYet BY <1>6 DEF NotYet
<1>7. CASE GiveUp
  <2>1. step' = "gone" /\ step # "exporting"
    <3>1. "exporting" \notin Waits BY DEF Waits, Looks
    <3> QED BY <1>7, <3>1 DEF GiveUp, TimesOut, Raise, Goto
  <2> QED BY <2>1
<1>8. CASE Break BY <1>8 DEF Break, InCall, Raise, Goto
<1> QED BY <1>1, <1>2, <1>3, <1>4, <1>5, <1>6, <1>7, <1>8, Zenon DEF Call

\* What touches nothing of the activity files keeps what is known of them.
LEMMA AsideKeepsActivity ==
  ASSUME ActivityInv, UNCHANGED <<activity, at>>, escaped' \in BOOLEAN, (step = "exporting") <=> (step' = "exporting")
  PROVE  ActivityInv'
<1>1. UNCHANGED <<rendered, ticked, master, readable, expected, dir, left, parts, served, arrived, shown, missed, at>>
  BY DEF activity, dialog
<1>2. Fresh' BY <1>1, Zenon DEF ActivityInv, Fresh
<1>3. Splitting'
  <2> SUFFICES ASSUME at' = "split" PROVE Splitting' BY Zenon DEF Splitting
  <2>1. Once(served \union Range(left)) => Once(served \union Range(left))' BY ONLY <1>1, Zenon DEF Once
  <2>2. at = "split" /\ Path' = Path /\ (Distinct => Distinct') BY ONLY <1>1, at' = "split", Zenon DEF Path, Distinct
  <2>3. Splitting BY Zenon DEF ActivityInv
  <2>4. /\ parts' \subseteq DOMAIN dir' \ (served' \union Range(left')) /\ (parts' # {} => left' # << >>)
        /\ \A p \in parts' : \A q \in parts' : p # q => dir'[p] \intersect dir'[q] = {}
        /\ \A p \in parts' : dir'[p] \subseteq dir'[Path']
        /\ \A p \in parts' : \A a \in dir'[p] : \A b \in dir'[Path'] : AccountType[a] = AccountType[b] => b \in dir'[p]
    <3>1. parts' = parts /\ dir' = dir /\ left' = left /\ served' = served BY ONLY <1>1, Zenon
    <3>2. \A p \in parts : \A a \in dir[p] : \A b \in dir[Path] : AccountType[a] = AccountType[b] => b \in dir[p]
      BY ONLY <2>2, <2>3, Zenon DEF Splitting
    <3>3. \A p \in parts' : \A a \in dir'[p] : \A b \in dir'[Path'] : AccountType[a] = AccountType[b] => b \in dir'[p]
      BY ONLY <2>2, <3>1, <3>2
    <3>4. /\ parts \subseteq DOMAIN dir \ (served \union Range(left)) /\ (parts # {} => left # << >>)
          /\ \A p \in parts : \A q \in parts : p # q => dir[p] \intersect dir[q] = {}
          /\ \A p \in parts : dir[p] \subseteq dir[Path]
      BY ONLY <2>2, <2>3, Zenon DEF Splitting
    <3>5. /\ parts' \subseteq DOMAIN dir' \ (served' \union Range(left')) /\ (parts' # {} => left' # << >>)
          /\ \A p \in parts' : \A q \in parts' : p # q => dir'[p] \intersect dir'[q] = {}
          /\ \A p \in parts' : dir'[p] \subseteq dir'[Path']
      BY ONLY <2>2, <3>1, <3>4
    <3> QED BY ONLY <3>3, <3>5, Zenon
  <2>5. /\ IsFiniteSet(DOMAIN dir') /\ DOMAIN dir' \subseteq Name /\ \A n \in DOMAIN dir' : dir'[n] \subseteq Account
        /\ left' \in Seq(DOMAIN dir') /\ Distinct' /\ served' \subseteq DOMAIN dir' /\ served' \intersect Range(left') = {}
        /\ Once(served \union Range(left))'
    BY ONLY <1>1, <2>1, <2>2, <2>3, Zenon DEF Splitting
  <2> QED BY ONLY <2>4, <2>5, Zenon DEF Splitting
<1>4. Served'
  <2>1. Once(served) => Once(served)' BY ONLY <1>1, Zenon DEF Once
  <2> QED BY <1>1, <2>1, Zenon DEF ActivityInv, Served
<1>5. ActivityTypeOK' BY <1>1, Zenon DEF ActivityInv, ActivityTypeOK
<1> QED BY <1>2, <1>3, <1>4, <1>5, Zenon DEF ActivityInv

\* The earnings leave the activity files as they are.
LEMMA EarningsKeepActivity ==
  ASSUME ActivityInv, UNCHANGED <<activity, step>>, step = "exporting", escaped' \in BOOLEAN,
         at' = at \/ (at \in After /\ at' \in After \union {"failed"})
  PROVE  ActivityInv'
<1>1. CASE at' = at BY <1>1, AsideKeepsActivity, Zenon
<1>2. CASE at \in After /\ at' \in After \union {"failed"}
  <2>1. UNCHANGED <<rendered, ticked, master, readable, expected, dir, left, parts, served, arrived, shown, missed>>
    BY DEF activity, dialog
  <2>2. Fresh' BY <1>2, <2>1 DEF ActivityInv, Fresh, Early, InDialog, After
  <2>3. Splitting' BY <1>2 DEF Splitting, After
  <2>4. Served'
    <3>1. Once(served) => Once(served)' BY ONLY <2>1, Zenon DEF Once
    <3>2. /\ served \subseteq DOMAIN dir /\ (FeedFile \notin served => Once(served))
          /\ FeedFile \in served /\ shown > 0 /\ Feed[shown] # Undated /\ ~missed =>
               {i \in DOMAIN Feed : Feed[i] > Since} \subseteq dir[FeedFile]
      BY <1>2, Zenon DEF ActivityInv, Served
    <3> QED BY ONLY <2>1, <3>1, <3>2, Zenon DEF Served
  <2>5. ActivityTypeOK' BY <2>1, Zenon DEF ActivityInv, ActivityTypeOK
  <2> QED BY <2>2, <2>3, <2>4, <2>5, Zenon DEF ActivityInv
<1> QED BY <1>1, <1>2

-----------------------------------------------------------------------------
(* The earnings files.                                                     *)

\* The ring holds the last requests, and no more of them than its limit.
LEMMA RingStaysBounded ==
  ASSUME ring \in Seq(Request), Len(ring) <= Limit, NEW r \in Request
  PROVE  Kept(r) \in Seq(Request) /\ Len(Kept(r)) <= Limit
<1>1. Limit \in Nat \ {0} BY GraphAssumption DEF GraphAssumption
<1>2. CASE Len(ring) < Limit
  <2>1. Kept(r) = Append(ring, r) BY <1>2, Zenon DEF Kept
  <2> QED BY ONLY <1>1, <1>2, <2>1, ring \in Seq(Request), r \in Request, SMT
<1>3. CASE ~(Len(ring) < Limit)
  <2>1. Kept(r) = Append(Tail(ring), r) BY <1>3, Zenon DEF Kept
  <2>2. ring # << >> BY ONLY <1>1, <1>3, ring \in Seq(Request), SMT
  <2>3. Tail(ring) \in Seq(Request) /\ Len(Tail(ring)) = Len(ring) - 1 BY ONLY <2>2, ring \in Seq(Request), SMT
  <2>4. Append(Tail(ring), r) \in Seq(Request) /\ Len(Append(Tail(ring), r)) = Len(Tail(ring)) + 1
    BY ONLY <2>3, r \in Request, SMT
  <2>5. Len(ring) \in Nat BY ONLY ring \in Seq(Request), SMT
  <2> QED BY ONLY <1>1, <2>1, <2>3, <2>4, <2>5, Len(ring) <= Limit, SMT
<1> QED BY <1>2, <1>3

\* The best request of a ring is one of it, and a graph query of ours if there is one.
LEMMA BestIsRequest ==
  ASSUME ring \in Seq(Request), Usable # {}
  PROVE  Best \in Request /\ Best.usable /\ (IsGraph => Best.graph /\ Best.auth)
<1> DEFINE S == IF GraphAuth # {} THEN GraphAuth ELSE IF WithAuth # {} THEN WithAuth ELSE Usable
<1>1. Len(ring) \in Nat /\ DOMAIN ring = 1 .. Len(ring) /\ \A i \in 1 .. Len(ring) : ring[i] \in Request
  BY ONLY ring \in Seq(Request), SMT
<1>2. GraphAuth \subseteq WithAuth /\ WithAuth \subseteq DOMAIN ring /\ Usable \subseteq DOMAIN ring
  BY ONLY Zenon DEF GraphAuth, WithAuth, Usable
<1>3. S \in SUBSET (1 .. Len(ring)) /\ S # {} BY ONLY <1>1, <1>2, Usable # {}, Zenon
<1>4. Best = ring[Max(S)] BY ONLY Zenon DEF Best
<1>5. IsGraph => S = GraphAuth BY ONLY Zenon DEF IsGraph
<1>6. S = GraphAuth \/ S = WithAuth \/ S = Usable BY ONLY Zenon
<1> HIDE DEF S
<1>7. Max(S) \in S BY ONLY <1>1, <1>3, Greatest, Zenon
<1>8. ring[Max(S)] \in Request BY ONLY <1>1, <1>3, <1>7, Zenon
<1>9. IsGraph => ring[Max(S)].graph /\ ring[Max(S)].auth
  <2> SUFFICES ASSUME IsGraph PROVE ring[Max(S)].graph /\ ring[Max(S)].auth OBVIOUS
  <2>1. Max(S) \in GraphAuth BY ONLY <1>5, <1>7, IsGraph, Zenon
  <2> QED BY ONLY <2>1, Zenon DEF GraphAuth, WithAuth
<1>10. ring[Max(S)].usable
  <2>1. ring[Max(S)].auth \/ ring[Max(S)].usable BY ONLY <1>6, <1>7, Zenon DEF GraphAuth, WithAuth, Usable
  <2>2. ring[Max(S)].auth => ring[Max(S)].usable BY ONLY <1>8, Zenon DEF Request
  <2> QED BY ONLY <2>1, <2>2, Zenon
<1> QED BY ONLY <1>4, <1>8, <1>9, <1>10, Zenon

\* The number of accounts is a number.
LEMMA IdsAreCounted == Len(Ids) \in Nat
BY GraphAssumption DEF GraphAssumption

\* The earnings: what answers is written, and only what nobody catches or a window fails them.
LEMMA EarningsKeepGraph == ASSUME GraphInv, served' = served, Earnings PROVE GraphInv'
<1> USE IdsAreCounted DEF GraphInv, GraphTypeOK, Even, Chosen, Excused
<1>1. CASE Begin
  <2> USE <1>1 DEF Begin, Turn
  <2>1. GraphTypeOK' OBVIOUS
  <2>2. Even' OBVIOUS
  <2>3. Chosen' /\ Excused' OBVIOUS
  <2> QED BY <2>1, <2>2, <2>3
<1>2. CASE StartRecording
  <2> USE <1>2 DEF StartRecording, Turn, Alone
  <2>1. GraphTypeOK' OBVIOUS
  <2>2. Even' OBVIOUS
  <2>3. Chosen' /\ Excused' OBVIOUS
  <2> QED BY <2>1, <2>2, <2>3
<1>3. CASE OpenPage
  <2> USE <1>3 DEF OpenPage, Turn, Alone, Escape
  <2>1. GraphTypeOK' OBVIOUS
  <2>2. Even' OBVIOUS
  <2>3. Chosen' /\ Excused' OBVIOUS
  <2> QED BY <2>1, <2>2, <2>3
<1>4. CASE Watch
  <2> USE <1>4 DEF Watch, Turn
  <2>1. GraphTypeOK' OBVIOUS
  <2>2. Even' OBVIOUS
  <2>3. Chosen' /\ Excused' OBVIOUS
  <2> QED BY <2>1, <2>2, <2>3
<1>5. CASE Select
  <2>1. at = "select" /\ recording' = FALSE /\ ring' = << >> /\ UNCHANGED <<future, answered, earned>>
    BY <1>5, Zenon DEF Select
  <2>2. ring \in Seq(Request) /\ answered = {} /\ hash = FALSE /\ earned = {} BY <2>1
  <2>3. \/ (at' = "done" \/ (at' = "failed" /\ escaped' = TRUE)) /\ UNCHANGED <<next, chosen, hash>>
        \/ /\ at' = "query" /\ chosen' \in Request /\ chosen'.usable /\ next' = 1 /\ hash' \in BOOLEAN
           /\ hash' => chosen'.graph /\ chosen'.auth
    <3>1. CASE (at' = Alone \/ Escape) /\ UNCHANGED <<next, chosen, hash>> BY <3>1, Zenon DEF Alone, Escape
    <3>2. CASE Usable # {} /\ at' = "query" /\ chosen' = Best /\ hash' = IsGraph /\ next' = 1
      <4>1. Best \in Request /\ Best.usable /\ (IsGraph => Best.graph /\ Best.auth) BY ONLY <2>2, <3>2, BestIsRequest, Zenon
      <4>2. hash' \in BOOLEAN BY ONLY <3>2, Zenon DEF IsGraph
      <4>3. hash' => Best.graph /\ Best.auth BY ONLY <3>2, <4>1, Zenon
      <4> QED BY ONLY <3>2, <4>1, <4>2, <4>3, Zenon
    <3> QED BY <1>5, <3>1, <3>2, Zenon DEF Select
  <2>4. ring' \in Seq(Request) /\ Len(ring') <= Limit
    <3>1. Limit \in Nat BY GraphAssumption DEF GraphAssumption
    <3> QED BY ONLY <2>1, <3>1, SMT
  <2>5. next' \in 1 .. Len(Ids) + 1 BY <2>3
  <2>6. GraphTypeOK' BY <2>1, <2>3, <2>4, <2>5, Zenon DEF GraphInv, GraphTypeOK
  <2>7. Even' BY <2>1, <2>2, <2>3
  <2>8. Chosen' BY ONLY <2>2, <2>3, <2>4, Zenon DEF Chosen
  <2>9. Excused' BY <2>1, <2>3
  <2> QED BY ONLY <2>6, <2>7, <2>8, <2>9, Zenon DEF GraphInv
<1>6. CASE Query
  <2> USE <1>6 DEF Query, Escape
  <2>1. GraphTypeOK' OBVIOUS
  <2>2. Even' OBVIOUS
  <2>3. Chosen' /\ Excused' OBVIOUS
  <2> QED BY <2>1, <2>2, <2>3
<1>7. CASE WriteEarnings
  <2> USE <1>7 DEF WriteEarnings, Escape
  <2>1. GraphTypeOK' OBVIOUS
  <2>2. Even' OBVIOUS
  <2>3. Chosen' /\ Excused' OBVIOUS
  <2> QED BY <2>1, <2>2, <2>3
<1>8. CASE EndEarnings
  <2> USE <1>8 DEF EndEarnings, Turn, Alone
  <2>1. GraphTypeOK' OBVIOUS
  <2>2. Even' OBVIOUS
  <2>3. Chosen' /\ Excused' OBVIOUS
  <2> QED BY <2>1, <2>2, <2>3
<1> QED BY ONLY <1>1, <1>2, <1>3, <1>4, <1>5, <1>6, <1>7, <1>8, Earnings, Zenon DEF Earnings

\* The browser goes on recording.
LEMMA RecordKeepsGraph == ASSUME GraphInv, served' = served, Record PROVE GraphInv'
<1>1. PICK r \in Request : ring' = Kept(r) BY Zenon DEF Record
<1>2. UNCHANGED <<at, escaped, future, recording, next, chosen, hash, answered, earned>> BY Zenon DEF Record
<1>3. ring \in Seq(Request) /\ Len(ring) <= Limit BY Zenon DEF GraphInv, GraphTypeOK, Chosen
<1>4. ring' \in Seq(Request) /\ Len(ring') <= Limit BY ONLY <1>1, <1>3, r \in Request, RingStaysBounded, Zenon
<1> QED BY <1>2, <1>4, Zenon DEF GraphInv, GraphTypeOK, Even, Chosen, Excused

\* The activity files come before any graph, and fail with nothing served.
LEMMA ActivityKeepsGraph ==
  ASSUME GraphInv, ActivityInv, Activity \/ RenderRow, UNCHANGED graph, step = "exporting"
  PROVE  GraphInv'
<1>1. UNCHANGED <<future, ring, recording, next, chosen, hash, answered, earned>> BY DEF graph
<1>2. /\ at \in Early \union {"split"}
      /\ at' \in Early \union {"split", "earnings"} \/ (at \in Early /\ at' = "failed" /\ served' = served)
  BY DEF Activity, OpenDialog, Period, AwaitAccounts, ClickAll, AccountsTicked, TickEach, Recount, Download, FallBack,
         DialogBreaks, ServeWhole, RenameFile, WritePart, DropOriginal, EndSplit, OpenFeed, LoadMore, ReadFeed, FeedFails, RenderRow,
         Go, ServeFor, Early, InDialog, files
<1>3. at' = "failed" => served' = {} BY <1>2 DEF ActivityInv, Fresh, Early, InDialog
<1>4. GraphTypeOK' BY <1>1, Zenon DEF GraphInv, GraphTypeOK
<1>5. Even' BY <1>1, <1>2 DEF GraphInv, Even, Early, InDialog
<1>6. Chosen' BY <1>1, Zenon DEF GraphInv, Chosen
<1>7. Excused' BY <1>3, Zenon DEF Excused
<1> QED BY <1>4, <1>5, <1>6, <1>7, Zenon DEF GraphInv

\* So does the beginning of an export.
LEMMA StartKeepsGraph == ASSUME GraphInv, ActivityInv, StartExport PROVE GraphInv'
<1>1. /\ step = "idle" /\ at' = "activity" /\ future' \in BOOLEAN
      /\ UNCHANGED <<ring, recording, next, chosen, hash, answered, earned>>
  BY Zenon DEF StartExport
<1>2. at = "none" BY <1>1 DEF ActivityInv, Fresh
<1>3. GraphTypeOK' BY <1>1, Zenon DEF GraphInv, GraphTypeOK
<1>4. Even' BY <1>1, <1>2 DEF GraphInv, Even
<1>5. Chosen' BY <1>1, Zenon DEF GraphInv, Chosen
<1>6. Excused' BY <1>1 DEF Excused
<1> QED BY <1>3, <1>4, <1>5, <1>6, Zenon DEF GraphInv

-----------------------------------------------------------------------------
(* The theorems.                                                           *)

\* A step of the activity or of the earnings, each with what it leaves alone.
LEMMA ExportKeepsActivity ==
  ASSUME ActivityInv, ActivityStep \/ EarningsStep \/ Beside
  PROVE  ActivityInv'
<1>1. CASE (ActivityStep \/ Beside) /\ (Activity \/ RenderRow) /\ UNCHANGED signInOnly /\ step = "exporting"
  <2>1. UNCHANGED step BY <1>1 DEF signInOnly, scraper
  <2>2. CASE Dialog \/ OpenFeed \/ LoadMore \/ FeedFails BY <1>1, <2>1, <2>2, DialogKeepsActivity, Zenon
  <2>3. CASE Download BY <1>1, <2>1, <2>3, DownloadKeepsActivity, Zenon
  <2>4. CASE ServeWhole BY <1>1, <2>1, <2>4, WholeKeepsActivity, Zenon
  <2>5. CASE RenameFile BY <1>1, <2>1, <2>5, RenameKeepsActivity, Zenon
  <2>6. CASE WritePart BY <1>1, <2>1, <2>6, PartKeepsActivity, Zenon
  <2>7. CASE DropOriginal BY <1>1, <2>1, <2>7, DropKeepsActivity, Zenon
  <2>8. CASE EndSplit BY <1>1, <2>1, <2>8, EndKeepsActivity, Zenon
  <2>9. CASE ReadFeed BY <1>1, <2>1, <2>9, FeedKeepsActivity, Zenon
  <2> QED BY ONLY <1>1, <2>2, <2>3, <2>4, <2>5, <2>6, <2>7, <2>8, <2>9, Zenon DEF Activity, Dialog
<1>2. CASE (Earnings \/ Record) /\ UNCHANGED <<page, signInOnly, activity>> /\ step = "exporting"
  <2>1. UNCHANGED <<activity, step>> BY <1>2 DEF signInOnly, scraper
  <2>2. escaped \in BOOLEAN BY Zenon DEF ActivityInv, ActivityTypeOK
  <2>3. escaped' \in BOOLEAN /\ (at' = at \/ (at \in After /\ at' \in After \union {"failed"}))
    BY <1>2, <2>2 DEF Earnings, Begin, StartRecording, OpenPage, Watch, Select, Query, WriteEarnings, EndEarnings, Record,
                      Turn, Alone, Escape, After
  <2> QED BY ONLY <1>2, <2>1, <2>3, ActivityInv, EarningsKeepActivity, Zenon
<1> QED BY ONLY <1>1, <1>2, ActivityStep \/ EarningsStep \/ Beside, Zenon DEF ActivityStep, EarningsStep, Beside, Exporting

\* The same of what is known of the earnings.
LEMMA ExportKeepsGraph ==
  ASSUME GraphInv, ActivityInv, ActivityStep \/ EarningsStep \/ Beside
  PROVE  GraphInv'
<1>1. CASE (Activity \/ RenderRow) /\ UNCHANGED graph /\ step = "exporting" BY <1>1, ActivityKeepsGraph, Zenon
<1>2. CASE (Earnings \/ Record) /\ UNCHANGED activity
  <2>1. served' = served BY <1>2 DEF activity
  <2> QED BY <1>2, <2>1, EarningsKeepGraph, RecordKeepsGraph, Zenon
<1> QED BY ONLY <1>1, <1>2, ActivityStep \/ EarningsStep \/ Beside, Zenon DEF ActivityStep, EarningsStep, Beside, Exporting

\* The sign-in touches nothing of the earnings.
LEMMA SignInKeepsGraph == ASSUME GraphInv, UNCHANGED exportVars PROVE GraphInv'
<1>1. UNCHANGED <<served, at, escaped, future, ring, recording, next, chosen, hash, answered, earned>>
  BY DEF exportVars, activity, graph
<1> QED BY <1>1, Zenon DEF GraphInv, GraphTypeOK, Even, Chosen, Excused

\* What is known holds of a new session.
LEMMA InitInv == SessionInit => IInv
<1> SUFFICES ASSUME SessionInit PROVE IInv OBVIOUS
<1>1. SignInInv
  <2>1. TypeOK
    <3>1. {overlay, alert, typed, accepted, stood, dropped, authenticated, awaiting} \subseteq BOOLEAN
      BY Zenon DEF SessionInit, Init
    <3>2. sends \in 0 .. 2 /\ waited \in 0 .. Patience /\ look \in 1 .. 4 /\ attempt \in 1 .. MaxAttempts /\ tries \in 0 .. MaxTries
      BY SignInAssumption DEF SessionInit, Init, SignInAssumption
    <3>3. page = "blank" /\ submitted = "nothing" /\ answer = "none" BY Zenon DEF SessionInit, Init
    <3> QED BY ONLY <3>1, <3>2, <3>3, Zenon DEF TypeOK
  <2>2. Entered /\ Coming /\ Standing /\ SentOnce
    BY DEF SessionInit, Init, Entered, Coming, Before, Standing, SentOnce
  <2> QED BY <2>1, <2>2 DEF SignInInv
<1>2. ActivityInv
  <2>1. IsFiniteSet(Account) /\ Feed \in Seq(Nat \union {Undated}) BY ActivityAssumption, Zenon DEF ActivityAssumption
  <2>2. Cardinality(Account) \in Nat BY ONLY <2>1, FS_CardinalityType
  <2>3. 0 \in 0 .. Cardinality(Account) /\ 0 \in 0 .. Len(Feed) BY ONLY <2>1, <2>2, SMT
  <2>4. left = << >> /\ Range(left) = {} BY DEF SessionInit, ActivityInit, Range
  <2>5. ActivityTypeOK BY <2>3, <2>4, Zenon DEF SessionInit, ActivityInit, ActivityTypeOK
  <2>6. Fresh BY DEF SessionInit, Init, ActivityInit, Fresh, Early, InDialog
  <2>7. Splitting /\ Served BY DEF SessionInit, ActivityInit, Splitting, Served, After
  <2> QED BY <2>5, <2>6, <2>7 DEF ActivityInv
<1>3. GraphInv
  <2>1. ring = << >> /\ ring \in Seq(Request) BY DEF SessionInit, GraphInit
  <2>2. Len(ring) <= Limit BY ONLY <2>1, GraphAssumption, SMT DEF GraphAssumption
  <2>3. next \in 1 .. Len(Ids) + 1 BY IdsAreCounted DEF SessionInit, GraphInit
  <2>4. GraphTypeOK BY <2>2, <2>3, Zenon DEF SessionInit, GraphInit, GraphTypeOK
  <2>5. Even BY DEF SessionInit, ActivityInit, GraphInit, Even
  <2>6. Chosen BY <2>1, Zenon DEF SessionInit, GraphInit, Chosen
  <2>7. Excused BY DEF SessionInit, ActivityInit, Excused
  <2> QED BY <2>4, <2>5, <2>6, <2>7, Zenon DEF GraphInv
<1> QED BY <1>1, <1>2, <1>3 DEF IInv

\* Every step keeps what is known.
LEMMA StepInv == IInv /\ [SessionNext]_allVars => IInv'
<1> SUFFICES ASSUME IInv, [SessionNext]_allVars PROVE IInv' OBVIOUS
<1>1. SignInInv /\ ActivityInv /\ GraphInv BY Zenon DEF IInv
<1>2. CASE SignInStep
  <2>1. (Bank \/ StartAuth \/ ContinueAuth \/ Call \/ Break) /\ UNCHANGED exportVars BY <1>2, Zenon DEF SignInStep
  <2>2. UNCHANGED <<activity, at>> /\ escaped' \in BOOLEAN
    BY <1>1, <2>1, Zenon DEF exportVars, ActivityInv, ActivityTypeOK
  <2>3. SignInInv' BY ONLY <1>1, <2>1, BankKeepsSignIn, CallsKeepSignIn, Zenon
  <2>4. ActivityInv' BY ONLY <1>1, <2>1, <2>2, NoExportBegins, AsideKeepsActivity, Zenon
  <2>5. GraphInv' BY ONLY <1>1, <2>1, SignInKeepsGraph, Zenon
  <2> QED BY <2>3, <2>4, <2>5, Zenon DEF IInv
<1>3. CASE StartExport
  BY <1>1, <1>3, ExportKeepsSignIn, StartKeepsActivity, StartKeepsGraph, Zenon DEF IInv
<1>4. CASE ActivityStep \/ EarningsStep \/ Beside
  BY <1>1, <1>4, ExportKeepsSignIn, ExportKeepsActivity, ExportKeepsGraph, Zenon DEF IInv
<1>5. CASE UNCHANGED allVars
  <2>1. UNCHANGED exportVars /\ UNCHANGED vars BY <1>5 DEF allVars
  <2>2. UNCHANGED <<activity, at>> /\ escaped' \in BOOLEAN
    BY <1>1, <2>1, Zenon DEF exportVars, ActivityInv, ActivityTypeOK
  <2>3. UNCHANGED <<bank, scraper, tries>> BY <2>1 DEF vars
  <2>4. SignInInv' BY <1>1, <2>3 DEF SignInInv, TypeOK, Entered, Coming, Before, Standing, SentOnce, bank, scraper
  <2>5. step' = step BY <2>3 DEF scraper
  <2>6. ActivityInv' BY ONLY <1>1, <2>2, <2>5, AsideKeepsActivity, Zenon
  <2>7. GraphInv' BY ONLY <1>1, <2>1, SignInKeepsGraph, Zenon
  <2> QED BY <2>4, <2>6, <2>7, Zenon DEF IInv
<1> QED BY <1>2, <1>3, <1>4, <1>5, Zenon DEF SessionNext

\* In every reachable state of a session with Wealthsimple what is listed above holds of the
\* sign-in (start_auth, continue_auth), of the files of an export (download_transaction_files,
\* split_exports_by_account_type) and of its earnings (download_account_earnings).
THEOREM Invariant == Spec => []IInv
BY InitInv, StepInv, PTL DEF Spec

\* Every variable of the session has its type: in particular no more rows are expected of the
\* export dialog than there are accounts, the files to come and the parts are in the directory,
\* and the RequestLog never outgrows its limit.
THEOREM TypeCorrect == Spec => []WsTypeOK
<1>1. IInv => WsTypeOK BY Zenon DEF IInv, SignInInv, ActivityInv, GraphInv, WsTypeOK
<1> QED BY <1>1, Invariant, PTL

\* start_auth and continue_auth say "authenticated" only of a session that the bank has let in,
\* although they look for one thing after the other while the page moves; a poll that begins with
\* the trusted-device page does not give the approval up for a code; and a code is not sent again
\* while the bank has it or after it took it, whoever sends it, between any look and its click.
THEOREM SaysWhatTheBankSaid == Spec => []SignInIsTrue
<1>1. IInv => SignInIsTrue BY DEF IInv, SignInInv, Entered, Standing, SentOnce, SignInIsTrue
<1> QED BY <1>1, Invariant, PTL

\* Whatever fails while split_exports_by_account_type writes, renames and removes files, each
\* account's rows that were downloaded are in exactly one of the files served; and the fallback
\* has every row after since_date if it saw a row, the last one shown names its day, and "Load
\* more" was found as long as there was more (_load_more_until).
THEOREM EachAccountOnce == Spec => []RowsServedOnce
<1>1. ActivityInv => RowsServedOnce BY DEF ActivityInv, Served, After, Once, RowsServedOnce
<1>2. IInv => RowsServedOnce BY <1>1, Zenon DEF IInv
<1> QED BY <1>2, Invariant, PTL

\* The operation hash that select_graph_headers sends along is that of the graph query of the
\* request it borrows from, however the ring has turned since the wait for it ended; and without
\* a request seen nothing is queried.
THEOREM HashIsOfItsQuery == Spec => []HashFitsQuery
<1>1. IInv => HashFitsQuery BY Zenon DEF IInv, GraphInv, Even, Chosen, HashFitsQuery
<1> QED BY <1>1, Invariant, PTL

\* Once there are activity files the export fails only for a window after today or an exception
\* that _earnings_alongside_activity and the loop over the accounts do not catch, such as one of
\* the disk or the browser; and if it does not fail, every graph that answered has its file.
THEOREM EarningsCostNoMore == Spec => []FailureCostsOnlyItself
<1>1. GraphInv => FailureCostsOnlyItself BY DEF GraphInv, Even, Excused, FailureCostsOnlyItself
<1>2. IInv => FailureCostsOnlyItself BY <1>1, Zenon DEF IInv
<1> QED BY <1>2, Invariant, PTL

-----------------------------------------------------------------------------
(* The window of an export (WsData): windows are compared by the number of *)
(* months between two days (Apart) and then by their days of the month.    *)


\* How many months since is before today.
Apart(since, today) == (today.y - since.y) * 12 + today.m - since.m

\* A month has from 28 to 31 days.
LEMMA MonthLengths == ASSUME NEW y \in Int, NEW m \in 1 .. 12 PROVE MonthLength(y, m) \in 28 .. 31
BY DEF MonthLength

\* A date, by its parts.
LEMMA DateHas ==
  ASSUME NEW y \in Int, NEW m \in 1 .. 12, NEW d \in 1 .. MonthLength(y, m), NEW t, t = Date(y, m, d)
  PROVE  IsDate(t) /\ t.y = y /\ t.m = m /\ t.d = d
<1>1. MonthLength(y, m) \in 28 .. 31 BY MonthLengths
<1> DEFINE L == MonthLength(y, m)
<1>2. L \in 28 .. 31 /\ d \in 1 .. L BY <1>1
<1> HIDE DEF L
<1>3. d \in 1 .. 31 /\ d <= L BY ONLY <1>2, SMT
<1> QED BY <1>3 DEF IsDate, Date, L

LEMMA DateIs ==
  ASSUME NEW t, IsDate(t)
  PROVE  /\ t.y \in Int /\ t.m \in 1 .. 12 /\ t.d \in 1 .. MonthLength(t.y, t.m) /\ t = Date(t.y, t.m, t.d)
         /\ MonthLength(t.y, t.m) \in 28 .. 31
<1>1. t \in [y : Int, m : 1 .. 12, d : 1 .. 31] /\ t.d <= MonthLength(t.y, t.m) BY Zenon DEF IsDate
<1>2. t.y \in Int /\ t.m \in 1 .. 12 /\ t.d \in 1 .. 31 /\ t = [y |-> t.y, m |-> t.m, d |-> t.d] BY ONLY <1>1, SMT
<1>3. MonthLength(t.y, t.m) \in 28 .. 31 BY ONLY <1>2, MonthLengths
<1> DEFINE L == MonthLength(t.y, t.m)
<1> HIDE DEF L
<1>4. t.d \in 1 .. L BY ONLY <1>1, <1>2, <1>3, SMT DEF L
<1> QED BY ONLY <1>2, <1>3, <1>4, Zenon DEF Date, L

\* Counting months back.
LEMMA MonthsBack ==
  ASSUME NEW t, IsDate(t), NEW n \in Nat
  PROVE  /\ MonthBack(t, n).y \in Int /\ MonthBack(t, n).m \in 1 .. 12 /\ MonthBack(t, n).d = t.d
         /\ Apart(MonthBack(t, n), t) = n
         /\ MonthBack(t, n) = Date(MonthBack(t, n).y, MonthBack(t, n).m, t.d)
<1>1. t.y \in Int /\ t.m \in 1 .. 12 BY ONLY IsDate(t), DateIs, Zenon
<1> DEFINE index == t.m - 1 - n
           q == index \div 12
           r == index % 12
<1>2. index \in Int BY ONLY <1>1, n \in Nat, SMT
<1>3. q \in Int /\ r \in 0 .. 11 /\ 12 * q + r = index
  <2> HIDE DEF index
  <2> QED BY ONLY <1>2, SMT
<1>4. MonthBack(t, n) = [y |-> t.y + q, m |-> r + 1, d |-> t.d] BY ONLY Zenon DEF MonthBack, Date
<1> HIDE DEF q, r
<1>5. MonthBack(t, n).y = t.y + q /\ MonthBack(t, n).m = r + 1 /\ MonthBack(t, n).d = t.d BY ONLY <1>4, SMT
<1>6. (t.y - (t.y + q)) * 12 + t.m - (r + 1) = n BY ONLY <1>1, <1>2, <1>3, n \in Nat, SMT
<1>7. Apart(MonthBack(t, n), t) = n BY ONLY <1>5, <1>6, Zenon DEF Apart
<1>8. t.y + q \in Int /\ r + 1 \in 1 .. 12 BY ONLY <1>1, <1>3, SMT
<1>9. MonthBack(t, n) = Date(t.y + q, r + 1, t.d) BY ONLY <1>4, Zenon DEF Date
<1> QED BY ONLY <1>5, <1>7, <1>8, <1>9, Zenon

\* The server's comparison: a window of n months back reaches since.
LEMMA Reaches ==
  ASSUME NEW t, IsDate(t), NEW s, IsDate(s), NEW n \in Nat
  PROVE  Number(SubtractMonths(t, n)) <= Number(s) <=> Within(s, t, n)
<1> DEFINE b == MonthBack(t, n)
           L == MonthLength(b.y, b.m)
           K == MonthLength(s.y, s.m)
           e == IF t.d <= L THEN t.d ELSE L
<1>1. b.y \in Int /\ b.m \in 1 .. 12 /\ b.d = t.d /\ Apart(b, t) = n /\ b = Date(b.y, b.m, t.d)
  BY ONLY IsDate(t), n \in Nat, MonthsBack, Zenon
<1>2. t.y \in Int /\ t.m \in 1 .. 12 /\ t.d \in 1 .. MonthLength(t.y, t.m) /\ MonthLength(t.y, t.m) \in 28 .. 31
  BY ONLY IsDate(t), DateIs, Zenon
<1>3. s.y \in Int /\ s.m \in 1 .. 12 /\ s.d \in 1 .. K /\ K \in 28 .. 31 BY ONLY IsDate(s), DateIs, Zenon
<1>4. t.d \in 1 .. 31 BY ONLY <1>2, SMT
<1>5. L \in 28 .. 31 BY ONLY <1>1, MonthLengths
<1>6. SubtractMonths(t, n) = [y |-> b.y, m |-> b.m, d |-> e]
  <2> HIDE DEF L
  <2>1. SubtractMonths(t, n) = [b EXCEPT !.d = IF b.d <= L THEN b.d ELSE L] BY ONLY Zenon DEF SubtractMonths, L
  <2> HIDE DEF b
  <2> QED BY ONLY <1>1, <2>1, SMT DEF Date
<1> HIDE DEF b
<1>7. Number(SubtractMonths(t, n)) = (b.y * 100 + b.m) * 100 + e
  <2> HIDE DEF e
  <2> QED BY ONLY <1>6, SMT DEF Number
<1>8. b.y = s.y /\ b.m = s.m => L = K BY ONLY Zenon
<1> HIDE DEF L, K
<1>9. (t.y - b.y) * 12 + t.m - b.m = n BY ONLY <1>1, Zenon DEF Apart
<1>10. Within(s, t, n) <=> \/ (t.y - s.y) * 12 + t.m - s.m < n
                           \/ (t.y - s.y) * 12 + t.m - s.m = n /\ (s.d >= t.d \/ s.d = K)
  BY ONLY Zenon DEF Within, K
<1>11. Number(s) = (s.y * 100 + s.m) * 100 + s.d BY ONLY Zenon DEF Number
<1> DEFINE by == b.y
           bm == b.m
           sy == s.y
           sm == s.m
           sd == s.d
           ty == t.y
           tm == t.m
           td == t.d
<1>12. {by, sy, ty} \subseteq Int /\ {bm, sm, tm} \subseteq 1 .. 12 /\ sd \in 1 .. K /\ td \in 1 .. 31
  BY ONLY <1>1, <1>2, <1>3, <1>4, Zenon
<1>13. (ty - by) * 12 + tm - bm = n /\ (by = sy /\ bm = sm => L = K) BY ONLY <1>8, <1>9, Zenon
<1>14. e = IF td <= L THEN td ELSE L BY ONLY Zenon
<1>15. K \in 28 .. 31 BY ONLY <1>3, Zenon
<1> HIDE DEF by, bm, sy, sm, sd, ty, tm, td, e
<1>16. /\ (ty - sy) * 12 + tm - sm < n <=> by < sy \/ (by = sy /\ bm < sm)
       /\ (ty - sy) * 12 + tm - sm = n <=> by = sy /\ bm = sm
  BY ONLY <1>12, <1>13, n \in Nat, SMT
<1>17. by = sy /\ bm = sm => (e <= sd <=> sd >= td \/ sd = K) BY ONLY <1>5, <1>12, <1>13, <1>14, <1>15, SMT
<1>18. e \in 1 .. 31 /\ sd \in 1 .. 31 BY ONLY <1>5, <1>12, <1>14, <1>15, SMT
<1>19. (by * 100 + bm) * 100 + e <= (sy * 100 + sm) * 100 + sd
         <=> by < sy \/ (by = sy /\ bm < sm) \/ (by = sy /\ bm = sm /\ e <= sd)
  BY ONLY <1>12, <1>18, SMT
<1>20. Within(s, t, n) <=> (ty - sy) * 12 + tm - sm < n \/ ((ty - sy) * 12 + tm - sm = n /\ (sd >= td \/ sd = K))
  BY ONLY <1>10, Zenon DEF sy, sm, sd, ty, tm, td
<1>21. Number(SubtractMonths(t, n)) = (by * 100 + bm) * 100 + e /\ Number(s) = (sy * 100 + sm) * 100 + sd
  BY ONLY <1>7, <1>11, Zenon DEF by, bm, sy, sm, sd
<1> QED BY ONLY <1>16, <1>17, <1>19, <1>20, <1>21, Zenon

LEMMA NextDay ==
  ASSUME NEW t, IsDate(t), NEW today, IsDate(today)
  PROVE  /\ IsDate(Tomorrow(t))
         /\ \/ Apart(Tomorrow(t), today) = Apart(t, today) /\ t.d < MonthLength(t.y, t.m) /\ Tomorrow(t).d = t.d + 1
            \/ Apart(Tomorrow(t), today) = Apart(t, today) - 1 /\ t.d = MonthLength(t.y, t.m) /\ Tomorrow(t).d = 1
<1> DEFINE L == MonthLength(t.y, t.m)
<1>1. t.y \in Int /\ t.m \in 1 .. 12 /\ t.d \in 1 .. L /\ t = Date(t.y, t.m, t.d) /\ L \in 28 .. 31
  BY ONLY IsDate(t), DateIs, Zenon
<1>2. today.y \in Int /\ today.m \in 1 .. 12 BY ONLY IsDate(today), DateIs, Zenon
<1>3. CASE t.d < L
  <2>1. Tomorrow(t) = [t EXCEPT !.d = t.d + 1] BY ONLY <1>3, Zenon DEF Tomorrow
  <2>2. Tomorrow(t) = Date(t.y, t.m, t.d + 1)
    <3> HIDE DEF L
    <3> QED BY ONLY <1>1, <2>1, SMT DEF Date
  <2>3. t.d + 1 \in 1 .. L
    <3> HIDE DEF L
    <3> QED BY ONLY <1>1, <1>3, SMT
  <2>4. t.y \in Int /\ t.m \in 1 .. 12 BY ONLY <1>1, Zenon
  <2>5. IsDate(Tomorrow(t)) /\ Tomorrow(t).y = t.y /\ Tomorrow(t).m = t.m /\ Tomorrow(t).d = t.d + 1
    <3> DEFINE y == t.y
               m == t.m
               d == t.d + 1
    <3>1. y \in Int /\ m \in 1 .. 12 /\ d \in 1 .. MonthLength(y, m) /\ Tomorrow(t) = Date(y, m, d)
      BY ONLY <2>2, <2>3, <2>4, Zenon
    <3> HIDE DEF y, m, d
    <3>2. IsDate(Tomorrow(t)) /\ Tomorrow(t).y = y /\ Tomorrow(t).m = m /\ Tomorrow(t).d = d BY ONLY <3>1, DateHas
    <3> QED BY ONLY <3>2, Zenon DEF y, m, d
  <2> QED BY ONLY <1>3, <2>5, Zenon DEF Apart
<1>4. CASE ~(t.d < L) /\ t.m < 12
  <2>1. Tomorrow(t) = Date(t.y, t.m + 1, 1) BY ONLY <1>4, Zenon DEF Tomorrow
  <2>2. t.m + 1 \in 1 .. 12 BY ONLY <1>1, <1>4, SMT
  <2>3. 1 \in 1 .. MonthLength(t.y, t.m + 1) BY ONLY <1>1, <2>2, MonthLengths, SMT
  <2>4. IsDate(Tomorrow(t)) /\ Tomorrow(t).y = t.y /\ Tomorrow(t).m = t.m + 1 /\ Tomorrow(t).d = 1
    BY ONLY <1>1, <2>1, <2>2, <2>3, DateHas
  <2>5. (today.y - t.y) * 12 + today.m - (t.m + 1) = (today.y - t.y) * 12 + today.m - t.m - 1 BY ONLY <1>1, <1>2, SMT
  <2>6. Apart(Tomorrow(t), today) = Apart(t, today) - 1 BY ONLY <1>1, <1>2, <2>4, <2>5, SMT DEF Apart
  <2>7. t.d = L
    <3> HIDE DEF L
    <3> QED BY ONLY <1>1, <1>4, SMT
  <2> QED BY ONLY <2>4, <2>6, <2>7, Zenon
<1>5. CASE ~(t.d < L) /\ ~(t.m < 12)
  <2>1. Tomorrow(t) = Date(t.y + 1, 1, 1) BY ONLY <1>5, Zenon DEF Tomorrow
  <2>2. t.y + 1 \in Int /\ 1 \in 1 .. 12 /\ t.m = 12 BY ONLY <1>1, <1>5, SMT
  <2>3. 1 \in 1 .. MonthLength(t.y + 1, 1) BY ONLY <2>2, MonthLengths, SMT
  <2>4. IsDate(Tomorrow(t)) /\ Tomorrow(t).y = t.y + 1 /\ Tomorrow(t).m = 1 /\ Tomorrow(t).d = 1
    BY ONLY <2>1, <2>2, <2>3, DateHas
  <2>5. (today.y - (t.y + 1)) * 12 + today.m - 1 = (today.y - t.y) * 12 + today.m - t.m - 1 BY ONLY <1>1, <1>2, <2>2, SMT
  <2>6. Apart(Tomorrow(t), today) = Apart(t, today) - 1 BY ONLY <1>1, <1>2, <2>4, <2>5, SMT DEF Apart
  <2>7. t.d = L
    <3> HIDE DEF L
    <3> QED BY ONLY <1>1, <1>5, SMT
  <2> QED BY ONLY <2>4, <2>6, <2>7, Zenon
<1> QED BY ONLY <1>3, <1>4, <1>5, Zenon

LEMMA DayBefore ==
  ASSUME NEW t, IsDate(t), NEW today, IsDate(today)
  PROVE  IsDate(Yesterday(t)) /\ Apart(Yesterday(t), today) \in {Apart(t, today), Apart(t, today) + 1}
<1>1. t.y \in Int /\ t.m \in 1 .. 12 /\ t.d \in 1 .. MonthLength(t.y, t.m) /\ t = Date(t.y, t.m, t.d) /\ MonthLength(t.y, t.m) \in 28 .. 31
  BY ONLY IsDate(t), DateIs, Zenon
<1>2. today.y \in Int /\ today.m \in 1 .. 12 BY ONLY IsDate(today), DateIs, Zenon
<1>3. CASE t.d > 1
  <2>1. Yesterday(t) = [t EXCEPT !.d = t.d - 1] BY ONLY <1>3, Zenon DEF Yesterday
  <2>2. Yesterday(t) = Date(t.y, t.m, t.d - 1) BY ONLY <1>1, <2>1, SMT DEF Date
  <2>3. t.d - 1 \in 1 .. MonthLength(t.y, t.m)
    <3> DEFINE L == MonthLength(t.y, t.m)
    <3> HIDE DEF L
    <3>1. t.d \in 1 .. L /\ L \in 28 .. 31 BY <1>1 DEF L
    <3>2. t.d - 1 \in 1 .. L BY ONLY <1>3, <3>1, SMT
    <3> QED BY <3>2 DEF L
  <2>4. IsDate(Yesterday(t)) /\ Yesterday(t).y = t.y /\ Yesterday(t).m = t.m
    <3> DEFINE y == t.y
               m == t.m
               d == t.d - 1
    <3>1. y \in Int /\ m \in 1 .. 12 /\ d \in 1 .. MonthLength(y, m) /\ Yesterday(t) = Date(y, m, d)
      BY ONLY <1>1, <2>2, <2>3, Zenon
    <3> HIDE DEF y, m, d
    <3>2. IsDate(Yesterday(t)) /\ Yesterday(t).y = y /\ Yesterday(t).m = m BY ONLY <3>1, DateHas
    <3> QED BY ONLY <3>2, Zenon DEF y, m
  <2> QED BY ONLY <2>4, Zenon DEF Apart
<1>4. CASE ~(t.d > 1)
  <2> DEFINE b == MonthBack(t, 1)
             L == MonthLength(b.y, b.m)
  <2>1. b.y \in Int /\ b.m \in 1 .. 12 /\ Apart(b, t) = 1 /\ b = Date(b.y, b.m, t.d) BY ONLY IsDate(t), 1 \in Nat, MonthsBack, Zenon
  <2>2. Yesterday(t) = [b EXCEPT !.d = L] BY ONLY <1>4, Zenon DEF Yesterday
  <2> HIDE DEF b
  <2>3. L \in 28 .. 31 BY ONLY <2>1, MonthLengths
  <2>4. Yesterday(t) = Date(b.y, b.m, L)
    <3> HIDE DEF L
    <3> QED BY ONLY <2>1, <2>2, SMT DEF Date
  <2>5. L \in 1 .. MonthLength(b.y, b.m) BY ONLY <2>3, SMT
  <2>6. IsDate(Yesterday(t)) /\ Yesterday(t).y = b.y /\ Yesterday(t).m = b.m BY ONLY <2>1, <2>4, <2>5, DateHas
  <2>7. (t.y - b.y) * 12 + t.m - b.m = 1 BY ONLY <2>1, Zenon DEF Apart
  <2>8. (today.y - b.y) * 12 + today.m - b.m = (today.y - t.y) * 12 + today.m - t.m + 1
    <3> DEFINE by == b.y
               bm == b.m
               ty == t.y
               tm == t.m
               y == today.y
               m == today.m
    <3>1. {by, ty, y} \subseteq Int /\ {bm, tm, m} \subseteq 1 .. 12 BY ONLY <1>1, <1>2, <2>1, Zenon
    <3>2. (ty - by) * 12 + tm - bm = 1 BY ONLY <2>7, Zenon
    <3> HIDE DEF by, bm, ty, tm, y, m
    <3>3. (y - by) * 12 + m - bm = (y - ty) * 12 + m - tm + 1 BY ONLY <3>1, <3>2, SMT
    <3> QED BY ONLY <3>3, Zenon DEF by, bm, ty, tm, y, m
  <2>9. Apart(Yesterday(t), today) = Apart(t, today) + 1 BY ONLY <1>1, <1>2, <2>6, <2>8, SMT DEF Apart
  <2> QED BY ONLY <2>6, <2>9, Zenon
<1> QED BY ONLY <1>3, <1>4, Zenon

\* The day that the page's date becomes in UTC.
LEMMA Shifted ==
  ASSUME NEW day
  PROVE  /\ UtcDay(day, "none") = day
         /\ UtcDay(day, "evening in the west") = Tomorrow(day)
         /\ UtcDay(day, "morning in the east") = Yesterday(day)
<1>1. "none" # "evening in the west" /\ "none" # "morning in the east" /\ "evening in the west" # "morning in the east"
  BY SMT
<1>2. UtcDay(day, "none") = day BY ONLY <1>1, Zenon DEF UtcDay
<1>3. UtcDay(day, "evening in the west") = Tomorrow(day) BY ONLY <1>1, Zenon DEF UtcDay
<1>4. UtcDay(day, "morning in the east") = Yesterday(day) BY ONLY <1>1, Zenon DEF UtcDay
<1> QED BY ONLY <1>2, <1>3, <1>4

\* The page's option for a window of n months.
LEMMA OptionIsNear ==
  ASSUME NEW t, IsDate(t), NEW n \in Periods, NEW shift \in Shifts
  PROVE  /\ IsDate(Option(t, n, shift))
         /\ Apart(Option(t, n, shift), t) \in n - 1 .. n + 1
         /\ shift # "morning in the east" => Within(Option(t, n, shift), t, n)
<1> DEFINE s == SetMonthBack(t, n)
           b == MonthBack(t, n)
           L == MonthLength(b.y, b.m)
<1>1. n \in 3 .. 12 /\ n \in Nat BY ONLY n \in Periods, SMT DEF Periods
<1>2. t.d \in 1 .. 31 /\ t.y \in Int /\ t.m \in 1 .. 12
  <2>1. t.d \in 1 .. MonthLength(t.y, t.m) /\ MonthLength(t.y, t.m) \in 28 .. 31 /\ t.y \in Int /\ t.m \in 1 .. 12
    BY ONLY IsDate(t), DateIs, Zenon
  <2> QED BY ONLY <2>1, SMT
<1>3. b.y \in Int /\ b.m \in 1 .. 12 /\ b.d = t.d /\ Apart(b, t) = n /\ b = Date(b.y, b.m, t.d)
  BY ONLY IsDate(t), <1>1, MonthsBack, Zenon
<1>4. L \in 28 .. 31 BY ONLY <1>3, MonthLengths
<1>5. /\ IsDate(s)
      /\ \/ Apart(s, t) = n /\ s.d = t.d
         \/ Apart(s, t) = n - 1 /\ s.d \in 1 .. 3
  <2>1. CASE t.d <= L
    <3>1. b.d - L <= 0 BY ONLY <1>2, <1>3, <1>4, <2>1, SMT
    <3>2. s = b BY ONLY <3>1, Zenon DEF SetMonthBack
    <3>3. t.d \in 1 .. L
      <4> HIDE DEF L
      <4> QED BY ONLY <1>2, <1>4, <2>1, SMT
    <3>4. b.y \in Int /\ b.m \in 1 .. 12 /\ t.d \in 1 .. MonthLength(b.y, b.m) /\ b = Date(b.y, b.m, t.d)
      BY ONLY <1>3, <3>3, Zenon
    <3> HIDE DEF b
    <3>5. IsDate(b)
      <4> DEFINE by == b.y
                 bm == b.m
      <4>1. by \in Int /\ bm \in 1 .. 12 /\ t.d \in 1 .. MonthLength(by, bm) /\ b = Date(by, bm, t.d) BY ONLY <3>4, Zenon
      <4> HIDE DEF by, bm
      <4> QED BY ONLY <4>1, DateHas
    <3> QED BY ONLY <1>3, <3>2, <3>5, Zenon
  <2>2. CASE ~(t.d <= L)
    <3> DEFINE c == [b EXCEPT !.d = L]
               over == t.d - L
    <3>1. over \in 1 .. 3 /\ ~(over <= 0)
      <4> HIDE DEF L
      <4> QED BY ONLY <1>2, <1>4, <2>2, SMT
    <3>2. s = [Tomorrow(c) EXCEPT !.d = over] BY ONLY <1>3, <3>1, Zenon DEF SetMonthBack
    <3>3. IsDate(c) /\ c.d = L /\ MonthLength(c.y, c.m) = L /\ Apart(c, t) = n
      <4> DEFINE by == b.y
                 bm == b.m
      <4>1. by \in Int /\ bm \in 1 .. 12 /\ b = Date(by, bm, t.d) /\ L = MonthLength(by, bm) /\ (t.y - by) * 12 + t.m - bm = n
        BY ONLY <1>3, Zenon DEF Apart
      <4> HIDE DEF b, by, bm, L
      <4>2. c = Date(by, bm, L) BY ONLY <4>1, SMT DEF Date
      <4>3. L \in 1 .. MonthLength(by, bm) BY ONLY <1>4, <4>1, SMT
      <4> HIDE DEF c
      <4>4. IsDate(c) /\ c.y = by /\ c.m = bm /\ c.d = L BY ONLY <4>1, <4>2, <4>3, DateHas
      <4> QED BY ONLY <4>1, <4>4, Zenon DEF Apart
    <3> HIDE DEF c
    <3>4. /\ IsDate(Tomorrow(c))
          /\ \/ Apart(Tomorrow(c), t) = Apart(c, t) /\ c.d < MonthLength(c.y, c.m) /\ Tomorrow(c).d = c.d + 1
             \/ Apart(Tomorrow(c), t) = Apart(c, t) - 1 /\ c.d = MonthLength(c.y, c.m) /\ Tomorrow(c).d = 1
      BY ONLY <3>3, IsDate(t), NextDay, Zenon
    <3>5. ~(L < L) BY ONLY <1>4, SMT
    <3>6. Apart(Tomorrow(c), t) = n - 1 BY ONLY <3>3, <3>4, <3>5, Zenon
    <3>7. IsDate(s) /\ s.d = over /\ Apart(s, t) = n - 1
      <4> DEFINE o == Tomorrow(c)
                 y == o.y
                 m == o.m
      <4>1. o = Date(o.y, o.m, o.d) /\ o.y \in Int /\ o.m \in 1 .. 12 BY ONLY <3>4, DateIs, Zenon
      <4>2. s = [o EXCEPT !.d = over] BY ONLY <3>2, Zenon
      <4>3. (t.y - y) * 12 + t.m - m = n - 1 BY ONLY <3>6, Zenon DEF Apart
      <4>4. y \in Int /\ m \in 1 .. 12 /\ o = Date(y, m, o.d) BY ONLY <4>1, Zenon
      <4> HIDE DEF o, y, m, over, s
      <4>5. s = Date(y, m, over) BY ONLY <4>2, <4>4, SMT DEF Date
      <4>6. over \in 1 .. MonthLength(y, m)
        <5>1. MonthLength(y, m) \in 28 .. 31 BY ONLY <4>4, MonthLengths
        <5> QED BY ONLY <3>1, <5>1, SMT
      <4>7. IsDate(s) /\ s.y = y /\ s.m = m /\ s.d = over BY ONLY <4>4, <4>5, <4>6, DateHas
      <4> QED BY ONLY <4>3, <4>7, Zenon DEF Apart
    <3> QED BY ONLY <3>1, <3>7, Zenon
  <2> QED BY ONLY <2>1, <2>2, Zenon
<1> HIDE DEF s, b, L
<1>6. \A o : Within(o, t, n) <=> Apart(o, t) < n \/ (Apart(o, t) = n /\ (o.d >= t.d \/ o.d = MonthLength(o.y, o.m)))
  BY ONLY Zenon DEF Within, Apart
<1>7. n - 1 \in n - 1 .. n + 1 /\ n \in n - 1 .. n + 1 /\ n + 1 \in n - 1 .. n + 1 /\ n - 1 < n /\ n - 1 + 1 = n /\ t.d >= t.d
  BY ONLY <1>1, <1>2, SMT
<1>8. CASE shift = "none"
  <2>1. Option(t, n, shift) = s BY ONLY <1>8, Shifted, Zenon DEF Option, s
  <2>2. Within(s, t, n) BY ONLY <1>5, <1>6, <1>7, Zenon
  <2> QED BY ONLY <1>5, <1>7, <2>1, <2>2, Zenon
<1>9. CASE shift = "evening in the west"
  <2>1. Option(t, n, shift) = Tomorrow(s) BY ONLY <1>9, Shifted, Zenon DEF Option, s
  <2>2. /\ IsDate(Tomorrow(s))
        /\ \/ Apart(Tomorrow(s), t) = Apart(s, t) /\ s.d < MonthLength(s.y, s.m) /\ Tomorrow(s).d = s.d + 1
           \/ Apart(Tomorrow(s), t) = Apart(s, t) - 1 /\ s.d = MonthLength(s.y, s.m) /\ Tomorrow(s).d = 1
    BY ONLY <1>5, IsDate(t), NextDay, Zenon
  <2>3. MonthLength(s.y, s.m) \in 28 .. 31 BY ONLY <1>5, DateIs, Zenon
  <2>4. s.d \in 1 .. 3 => s.d # MonthLength(s.y, s.m) BY ONLY <2>3, SMT
  <2>5. t.d + 1 >= t.d BY ONLY <1>2, SMT
  <2>6. Apart(Tomorrow(s), t) = n - 1 \/ (Apart(Tomorrow(s), t) = n /\ Tomorrow(s).d >= t.d)
    BY ONLY <1>5, <2>2, <2>4, <2>5, Zenon
  <2>7. Within(Tomorrow(s), t, n) BY ONLY <1>6, <1>7, <2>6, Zenon
  <2> QED BY ONLY <1>7, <2>1, <2>2, <2>6, <2>7, Zenon
<1>10. CASE shift = "morning in the east"
  <2>1. Option(t, n, shift) = Yesterday(s) BY ONLY <1>10, Shifted, Zenon DEF Option, s
  <2>2. IsDate(Yesterday(s)) /\ Apart(Yesterday(s), t) \in {Apart(s, t), Apart(s, t) + 1}
    BY ONLY <1>5, IsDate(t), DayBefore, Zenon
  <2>3. Apart(Yesterday(s), t) \in n - 1 .. n + 1 BY ONLY <1>5, <1>7, <2>2, Zenon
  <2> QED BY ONLY <1>10, <2>1, <2>2, <2>3, Zenon
<1> QED BY ONLY <1>8, <1>9, <1>10, shift \in Shifts, Zenon DEF Shifts

\* The window that the server chooses for it.
LEMMA WindowIsRight ==
  ASSUME NEW t, IsDate(t), NEW n \in Periods, NEW shift \in Shifts
  PROVE  LET s == Option(t, n, shift)
             r == SelectExportPeriod(s, t)
         IN /\ Within(s, t, r) \/ r = 12
            /\ \A p \in Periods : p < r => ~Within(s, t, p)
            /\ r >= n
            /\ shift # "morning in the east" => r = n
<1> DEFINE s == Option(t, n, shift)
           r == SelectExportPeriod(s, t)
           Reaching == {p \in Periods : Number(SubtractMonths(t, p)) <= Number(s)}
           IsLeast(p) == \A q \in Reaching : p <= q
           a == Apart(s, t)
<1>1. IsDate(s) /\ a \in n - 1 .. n + 1 /\ (shift # "morning in the east" => Within(s, t, n))
  BY ONLY IsDate(t), n \in Periods, shift \in Shifts, OptionIsNear, Zenon
<1> HIDE DEF s
<1>2. \A p \in Periods : p \in Reaching <=> Within(s, t, p)
  <2> TAKE p \in Periods
  <2>1. p \in Nat BY ONLY p \in Periods, SMT DEF Periods
  <2>2. Number(SubtractMonths(t, p)) <= Number(s) <=> Within(s, t, p) BY ONLY <1>1, <2>1, IsDate(t), Reaches, Zenon
  <2> QED BY ONLY <2>2, p \in Periods, Zenon
<1>3. r = IF Reaching = {} THEN 12 ELSE CHOOSE p \in Reaching : IsLeast(p) BY ONLY Zenon DEF SelectExportPeriod
<1>4. Reaching \subseteq Periods BY ONLY Zenon
<1>5. Periods = {3, 6, 12} BY DEF Periods
<1> HIDE DEF Reaching
<1>6. Reaching # {} => \E p \in Reaching : IsLeast(p)
  <2>1. CASE 3 \in Reaching
    <3>1. IsLeast(3) BY <1>4, <1>5, SMT
    <3> QED BY <2>1, <3>1
  <2>2. CASE 3 \notin Reaching /\ 6 \in Reaching
    <3>1. IsLeast(6) BY <1>4, <1>5, <2>2, SMT
    <3> QED BY <2>2, <3>1
  <2>3. CASE 3 \notin Reaching /\ 6 \notin Reaching
    <3>1. IsLeast(12) BY <1>4, <1>5, <2>3, SMT
    <3>2. \A p \in Reaching : p = 12 BY <1>4, <1>5, <2>3, SMT
    <3>3. Reaching # {} => 12 \in Reaching
      <4> SUFFICES ASSUME NEW p \in Reaching PROVE 12 \in Reaching OBVIOUS
      <4> QED BY ONLY <3>2, p \in Reaching, Zenon
    <3> HIDE DEF IsLeast
    <3> QED BY ONLY <3>1, <3>3, Zenon
  <2> QED BY ONLY <2>1, <2>2, <2>3, Zenon
<1>7. (r \in Reaching /\ IsLeast(r)) \/ (Reaching = {} /\ r = 12) BY ONLY <1>3, <1>6, Zenon
<1> HIDE DEF r, a
<1>8. r \in Periods
  <2>1. 12 \in Periods BY <1>5
  <2> QED BY ONLY <1>4, <1>7, <2>1, Zenon
<1>9. a \in n - 1 .. n + 1 /\ a \in Int
  <2>1. a \in n - 1 .. n + 1 BY ONLY <1>1, Zenon
  <2> QED BY ONLY <2>1, n \in Periods, <1>5, SMT
<1>10. \A p \in Periods : p < n => ~Within(s, t, p)
  <2> TAKE p \in Periods
  <2>1. p < n => p < a BY ONLY <1>5, <1>9, n \in Periods, p \in Periods, SMT
  <2>2. p < a => ~(a < p) /\ a # p BY ONLY <1>5, <1>9, p \in Periods, SMT
  <2>3. Within(s, t, p) => a < p \/ a = p BY ONLY Zenon DEF Within, Apart, a
  <2> QED BY ONLY <2>1, <2>2, <2>3, Zenon
<1>11. Within(s, t, r) \/ r = 12 BY ONLY <1>2, <1>7, <1>8, Zenon
<1>12. \A p \in Periods : p < r => ~Within(s, t, p)
  <2> TAKE p \in Periods
  <2>1. CASE Reaching = {} BY ONLY <1>2, <2>1, p \in Periods, Zenon
  <2>2. CASE IsLeast(r)
    <3>1. p < r => ~(r <= p) BY ONLY <1>8, p \in Periods, SMT DEF Periods
    <3> QED BY ONLY <1>2, <2>2, <3>1, p \in Periods, Zenon
  <2> QED BY ONLY <1>7, <2>1, <2>2, Zenon
<1>13. r >= n
  <2>1. r < n => FALSE
    <3>1. n <= 12 /\ ~(12 < n) BY ONLY n \in Periods, SMT DEF Periods
    <3> QED BY ONLY <1>8, <1>10, <1>11, <3>1, Zenon
  <2> QED BY ONLY <1>8, <2>1, n \in Periods, SMT DEF Periods
<1>14. shift # "morning in the east" => r = n
  <2> HAVE shift # "morning in the east"
  <2>1. ~(n < r) BY ONLY <1>1, <1>12, shift # "morning in the east", n \in Periods, Zenon
  <2> QED BY ONLY <1>8, <1>13, <2>1, n \in Periods, SMT DEF Periods
<1> QED BY ONLY <1>11, <1>12, <1>13, <1>14, Zenon DEF r, s

\* What is given is a date, and what is answered is the server's choice.
Asked ==
  task.kind = "period" =>
    /\ task.today \in Todays /\ task.picked \in Periods /\ task.shift \in Shifts
    /\ stage = "answered" => result = SelectExportPeriod(Option(task.today, task.picked, task.shift), task.today)

\* The window that select_export_period makes of a date that the page offers (buildDateOptions)
\* reaches that date or is the longest, and is the shortest that does; it is the one picked, or a
\* longer one where the page's date is a day early: on every day of the calendar.
THEOREM WindowFits == DataSpec => []WindowFitsChoice
<1>1. DataInit => Asked
  <2> SUFFICES ASSUME DataInit, task.kind = "period" PROVE Asked BY DEF Asked
  <2>1. stage = "given" BY DEF DataInit
  <2>2. PICK today \in Todays, n \in Periods, shift \in Shifts :
          task = [kind |-> "period", today |-> today, picked |-> n, shift |-> shift]
    BY DEF DataInit
  <2> QED BY ONLY <2>1, <2>2 DEF Asked
<1>2. Asked /\ [DataNext]_dataVars => Asked'
  <2> SUFFICES ASSUME Asked, [DataNext]_dataVars PROVE Asked' OBVIOUS
  <2>1. CASE ChoosePeriod BY ONLY Asked, <2>1, Zenon DEF ChoosePeriod, Given, Asked
  <2>2. CASE BuildEarnings \/ ReadHeaders
    <3>1. task.kind \in {"earnings", "feed"} /\ task' = task BY ONLY <2>2, Zenon DEF BuildEarnings, ReadHeaders, Given
    <3> QED BY ONLY <3>1 DEF Asked
  <2>3. CASE UNCHANGED dataVars BY ONLY Asked, <2>3 DEF Asked, dataVars
  <2> QED BY <2>1, <2>2, <2>3, Zenon DEF DataNext
<1>3. Asked => WindowFitsChoice
  <2> SUFFICES ASSUME Asked, Answered("period") PROVE WindowFitsChoice BY Zenon DEF WindowFitsChoice
  <2>1. /\ task.today \in Todays /\ task.picked \in Periods /\ task.shift \in Shifts
        /\ result = SelectExportPeriod(Option(task.today, task.picked, task.shift), task.today)
    BY Zenon DEF Asked, Answered
  <2>2. IsDate(task.today) BY <2>1, DataAssumption, Zenon
  <2> QED BY ONLY <2>1, <2>2, WindowIsRight, Zenon DEF WindowFitsChoice
<1> QED BY <1>1, <1>2, <1>3, PTL DEF DataSpec

-----------------------------------------------------------------------------
(* The feed (WsData and WsFeed): what a header's fields are read as, shape *)
(* by shape (FieldsRead), gives the accounts without knowing any           *)
(* (AccountFound) and, once they are known, the row itself (HeaderParsed). *)

\* The words of a transfer are two, and not blank.
LEMMA Words == NoText # "From" /\ NoText # "To" /\ "From" # "To" BY SMT DEF NoText

\* The indices of one field or two.
LEMMA FewNumbers ==
  /\ Max({1}) = 1 /\ Max({2}) = 2 /\ Max({1, 2}) = 2 /\ Min({1, 2}) = 1
  /\ Cardinality({}) = 0 /\ Cardinality({1}) = 1 /\ Cardinality({2}) = 1 /\ Cardinality({1, 2}) = 2
<1>1. Max({1}) = 1
  <2>1. 1 \in {1} /\ \A y \in {1} : 1 >= y BY SMT
  <2> QED BY <2>1, Zenon DEF Max
<1>2. Max({2}) = 2
  <2>1. 2 \in {2} /\ \A y \in {2} : 2 >= y BY SMT
  <2> QED BY <2>1, Zenon DEF Max
<1>3. Max({1, 2}) = 2
  <2>1. \A x \in {1, 2} : (\A y \in {1, 2} : x >= y) <=> x = 2 BY SMT
  <2>2. 2 \in {1, 2} BY SMT
  <2> QED BY <2>1, <2>2, Zenon DEF Max
<1>4. Min({1, 2}) = 1
  <2>1. \A x \in {1, 2} : (\A y \in {1, 2} : x <= y) <=> x = 1 BY SMT
  <2>2. 1 \in {1, 2} BY SMT
  <2> QED BY <2>1, <2>2, Zenon DEF Min
<1>5. Cardinality({}) = 0 /\ Cardinality({1}) = 1 /\ Cardinality({2}) = 1 BY FS_EmptySet, FS_Singleton
<1>6. Cardinality({1, 2}) = 2
  <2>1. IsFiniteSet({1}) BY FS_Singleton
  <2>2. 2 \notin {1} /\ {1} \union {2} = {1, 2} BY SMT
  <2>3. Cardinality({1} \union {2}) = 1 + 1 BY <1>5, <2>1, <2>2, FS_AddElement
  <2> QED BY <2>2, <2>3
<1> QED BY <1>1, <1>2, <1>3, <1>4, <1>5, <1>6, Zenon

\* What a header's fields are read as, by their order.
LEMMA OneField ==
  ASSUME NEW row, NEW t, row.subtitle = <<Field(NoText, t)>>
  PROVE  Fields(row, NoText) = {1} /\ Leg(row, NoText) = t /\ Leg(row, "From") = NoText /\ Leg(row, "To") = NoText
<1> DEFINE s == row.subtitle
           k == NoText
<1>1. DOMAIN s = {1} /\ s[1].leg = k /\ s[1].text = t
  <2>1. s = <<[leg |-> k, text |-> t]>> BY Zenon DEF Field
  <2> HIDE DEF s, k
  <2> QED BY ONLY <2>1, SMT
<1>2. Fields(row, NoText) = {1} /\ Fields(row, "From") = {} /\ Fields(row, "To") = {}
  <2>1. /\ Fields(row, NoText) = {i \in DOMAIN s : s[i].leg = NoText} /\ Fields(row, "From") = {i \in DOMAIN s : s[i].leg = "From"}
        /\ Fields(row, "To") = {i \in DOMAIN s : s[i].leg = "To"}
    BY ONLY Zenon DEF Fields
  <2> HIDE DEF s
  <2>2. {i \in DOMAIN s : s[i].leg = "From"} = {} /\ {i \in DOMAIN s : s[i].leg = "To"} = {}
    BY ONLY <1>1, Words, Zenon
  <2>3. {i \in DOMAIN s : s[i].leg = NoText} = {1} BY ONLY <1>1, Zenon
  <2> QED BY ONLY <2>1, <2>2, <2>3, Zenon
<1>3. {1} # {} BY Zenon
<1> QED BY ONLY <1>1, <1>2, <1>3, FewNumbers, Zenon DEF Leg

\* And of two.
LEMMA TwoFields ==
  ASSUME NEW row, DOMAIN row.subtitle = {1, 2}, NEW leg
  PROVE  LET a == row.subtitle[1]
             b == row.subtitle[2]
         IN /\ a.leg = leg /\ b.leg = leg => Fields(row, leg) = {1, 2} /\ Leg(row, leg) = b.text
            /\ a.leg = leg /\ b.leg # leg => Fields(row, leg) = {1} /\ Leg(row, leg) = a.text
            /\ a.leg # leg /\ b.leg = leg => Fields(row, leg) = {2} /\ Leg(row, leg) = b.text
            /\ a.leg # leg /\ b.leg # leg => Fields(row, leg) = {} /\ Leg(row, leg) = NoText
<1> DEFINE s == row.subtitle
           a == s[1]
           b == s[2]
<1>1. {1} # {} /\ {2} # {} /\ {1, 2} # {} BY Zenon
<1>2. /\ a.leg = leg /\ b.leg = leg => Fields(row, leg) = {1, 2}
      /\ a.leg = leg /\ b.leg # leg => Fields(row, leg) = {1}
      /\ a.leg # leg /\ b.leg = leg => Fields(row, leg) = {2}
      /\ a.leg # leg /\ b.leg # leg => Fields(row, leg) = {}
  <2>1. Fields(row, leg) = {i \in {1, 2} : s[i].leg = leg} BY Zenon DEF Fields
  <2> HIDE DEF s
  <2> QED BY ONLY <2>1, Zenon
<1> QED BY ONLY <1>1, <1>2, FewNumbers, Zenon DEF Leg

Shapes == {"payment", "security", "legs", "from", "fee", "between"}

\* What is found in the header of a row.
LEMMA HeaderHas ==
  ASSUME NEW m, m.shape \in Shapes
  PROVE  LET h == Header(m) IN
         /\ h.amount = m.amount /\ h.cancelled = m.cancelled /\ h.dated = m.dated
         /\ h.logo <=> m.shape = "security"
         /\ h.title = IF m.shape \in {"payment", "security"} THEN m.party ELSE m.type
         /\ m.shape \in {"payment", "security"} =>
              h.subtitle = <<Field(NoText, m.type), Field(NoText, m.account)>>
         /\ m.shape = "legs" => h.subtitle = <<Field("From", m.party), Field("To", m.account)>>
         /\ m.shape = "from" => h.subtitle = <<Field("From", m.party), Field(NoText, m.account)>>
         /\ m.shape = "fee" => h.subtitle = <<Field(NoText, m.account)>>
         /\ m.shape = "between" => h.subtitle = <<Field(NoText, m.party), Field(NoText, m.account)>>
<1> DEFINE h == Header(m)
           logo == m.shape = "security"
           title == IF m.shape \in {"payment", "security"} THEN m.party ELSE m.type
           fields == CASE m.shape \in {"payment", "security"} -> <<Field(NoText, m.type), Field(NoText, m.account)>>
                       [] m.shape = "legs"    -> <<Field("From", m.party), Field("To", m.account)>>
                       [] m.shape = "from"    -> <<Field("From", m.party), Field(NoText, m.account)>>
                       [] m.shape = "fee"     -> <<Field(NoText, m.account)>>
                       [] m.shape = "between" -> <<Field(NoText, m.party), Field(NoText, m.account)>>
<1>1. h = [title |-> title, subtitle |-> fields, logo |-> logo,
           amount |-> m.amount, cancelled |-> m.cancelled, dated |-> m.dated]
  BY Zenon DEF Header
<1>2. /\ h.title = title /\ h.subtitle = fields /\ h.logo = logo
      /\ h.amount = m.amount /\ h.cancelled = m.cancelled /\ h.dated = m.dated
  <2> HIDE DEF h, logo, title, fields
  <2> QED BY ONLY <1>1, SMT
<1>3. /\ "payment" # "legs" /\ "payment" # "from" /\ "payment" # "fee" /\ "payment" # "between"
      /\ "security" # "legs" /\ "security" # "from" /\ "security" # "fee" /\ "security" # "between"
      /\ "legs" # "from" /\ "legs" # "fee" /\ "legs" # "between"
      /\ "from" # "fee" /\ "from" # "between" /\ "fee" # "between" /\ "payment" # "security"
  BY ONLY SMT
<1>4. /\ m.shape \in {"payment", "security"} => fields = <<Field(NoText, m.type), Field(NoText, m.account)>>
      /\ m.shape = "legs" => fields = <<Field("From", m.party), Field("To", m.account)>>
      /\ m.shape = "from" => fields = <<Field("From", m.party), Field(NoText, m.account)>>
      /\ m.shape = "fee" => fields = <<Field(NoText, m.account)>>
      /\ m.shape = "between" => fields = <<Field(NoText, m.party), Field(NoText, m.account)>>
  BY ONLY <1>3, Zenon
<1> HIDE DEF h, fields
<1> QED BY ONLY <1>2, <1>4, Zenon DEF h

\* What its fields are read as.
LEMMA FieldsRead ==
  ASSUME NEW m, m.shape \in Shapes
  PROVE  LET h == Header(m) IN
         /\ m.shape \in {"payment", "security"} =>
              /\ Fields(h, NoText) = {1, 2} /\ Leg(h, NoText) = m.account
              /\ Leg(h, "From") = NoText /\ Leg(h, "To") = NoText /\ h.subtitle[1].text = m.type
         /\ m.shape = "between" =>
              /\ Fields(h, NoText) = {1, 2} /\ Leg(h, NoText) = m.account
              /\ Leg(h, "From") = NoText /\ Leg(h, "To") = NoText /\ h.subtitle[1].text = m.party
         /\ m.shape = "legs" => Fields(h, NoText) = {} /\ Leg(h, "From") = m.party /\ Leg(h, "To") = m.account
         /\ m.shape = "from" =>
              /\ Fields(h, NoText) = {2} /\ Leg(h, NoText) = m.account
              /\ Leg(h, "From") = m.party /\ Leg(h, "To") = NoText
         /\ m.shape = "fee" =>
              /\ Fields(h, NoText) = {1} /\ Leg(h, NoText) = m.account
              /\ Leg(h, "From") = NoText /\ Leg(h, "To") = NoText
<1> DEFINE h == Header(m)
<1>1. /\ m.shape \in {"payment", "security"} => h.subtitle = <<Field(NoText, m.type), Field(NoText, m.account)>>
      /\ m.shape = "legs" => h.subtitle = <<Field("From", m.party), Field("To", m.account)>>
      /\ m.shape = "from" => h.subtitle = <<Field("From", m.party), Field(NoText, m.account)>>
      /\ m.shape = "fee" => h.subtitle = <<Field(NoText, m.account)>>
      /\ m.shape = "between" => h.subtitle = <<Field(NoText, m.party), Field(NoText, m.account)>>
  BY ONLY HeaderHas, m.shape \in Shapes, Zenon
<1> HIDE DEF h
<1>2. ASSUME m.shape \in {"payment", "security"} PROVE /\ Fields(h, NoText) = {1, 2} /\ Leg(h, NoText) = m.account
            /\ Leg(h, "From") = NoText /\ Leg(h, "To") = NoText /\ h.subtitle[1].text = m.type
  <2> DEFINE k == NoText
             t == m.type
             l == NoText
             u == m.account
             s == h.subtitle
  <2>1. s = <<Field(k, t), Field(l, u)>> BY ONLY <1>2, <1>1, Zenon
  <2>2. s = <<[leg |-> k, text |-> t], [leg |-> l, text |-> u]>> BY ONLY <2>1, Zenon DEF Field
  <2> HIDE DEF k, t, l, u, s
  <2>3. DOMAIN s = {1, 2} /\ s[1].leg = k /\ s[1].text = t /\ s[2].leg = l /\ s[2].text = u BY ONLY <2>2, SMT
  <2>4. /\ DOMAIN h.subtitle = {1, 2} /\ h.subtitle[1].leg = NoText /\ h.subtitle[1].text = m.type
        /\ h.subtitle[2].leg = NoText /\ h.subtitle[2].text = m.account
    BY ONLY <2>3, Zenon DEF k, t, l, u, s
  <2>5. Fields(h, NoText) = {1, 2} /\ Leg(h, NoText) = m.account BY ONLY <2>4, TwoFields, Zenon
  <2>6. Leg(h, "From") = NoText BY ONLY <2>4, Words, TwoFields, Zenon
  <2>7. Leg(h, "To") = NoText BY ONLY <2>4, Words, TwoFields, Zenon
  <2> QED BY ONLY <2>4, <2>5, <2>6, <2>7, Zenon
<1>3. ASSUME m.shape = "between" PROVE /\ Fields(h, NoText) = {1, 2} /\ Leg(h, NoText) = m.account
            /\ Leg(h, "From") = NoText /\ Leg(h, "To") = NoText /\ h.subtitle[1].text = m.party
  <2> DEFINE k == NoText
             t == m.party
             l == NoText
             u == m.account
             s == h.subtitle
  <2>1. s = <<Field(k, t), Field(l, u)>> BY ONLY <1>3, <1>1, Zenon
  <2>2. s = <<[leg |-> k, text |-> t], [leg |-> l, text |-> u]>> BY ONLY <2>1, Zenon DEF Field
  <2> HIDE DEF k, t, l, u, s
  <2>3. DOMAIN s = {1, 2} /\ s[1].leg = k /\ s[1].text = t /\ s[2].leg = l /\ s[2].text = u BY ONLY <2>2, SMT
  <2>4. /\ DOMAIN h.subtitle = {1, 2} /\ h.subtitle[1].leg = NoText /\ h.subtitle[1].text = m.party
        /\ h.subtitle[2].leg = NoText /\ h.subtitle[2].text = m.account
    BY ONLY <2>3, Zenon DEF k, t, l, u, s
  <2>5. Fields(h, NoText) = {1, 2} /\ Leg(h, NoText) = m.account BY ONLY <2>4, TwoFields, Zenon
  <2>6. Leg(h, "From") = NoText BY ONLY <2>4, Words, TwoFields, Zenon
  <2>7. Leg(h, "To") = NoText BY ONLY <2>4, Words, TwoFields, Zenon
  <2> QED BY ONLY <2>4, <2>5, <2>6, <2>7, Zenon
<1>4. ASSUME m.shape = "legs" PROVE Fields(h, NoText) = {} /\ Leg(h, "From") = m.party /\ Leg(h, "To") = m.account
  <2> DEFINE k == "From"
             t == m.party
             l == "To"
             u == m.account
             s == h.subtitle
  <2>1. s = <<Field(k, t), Field(l, u)>> BY ONLY <1>4, <1>1, Zenon
  <2>2. s = <<[leg |-> k, text |-> t], [leg |-> l, text |-> u]>> BY ONLY <2>1, Zenon DEF Field
  <2> HIDE DEF k, t, l, u, s
  <2>3. DOMAIN s = {1, 2} /\ s[1].leg = k /\ s[1].text = t /\ s[2].leg = l /\ s[2].text = u BY ONLY <2>2, SMT
  <2>4. /\ DOMAIN h.subtitle = {1, 2} /\ h.subtitle[1].leg = "From" /\ h.subtitle[1].text = m.party
        /\ h.subtitle[2].leg = "To" /\ h.subtitle[2].text = m.account
    BY ONLY <2>3, Zenon DEF k, t, l, u, s
  <2> DEFINE a == h.subtitle[1]
             b == h.subtitle[2]
  <2>5. a.leg # NoText /\ b.leg # NoText /\ b.leg # "From" /\ a.leg # "To" BY ONLY <2>4, Words, Zenon
  <2>6. \A leg : /\ a.leg = leg /\ b.leg = leg => Fields(h, leg) = {1, 2} /\ Leg(h, leg) = b.text
                 /\ a.leg = leg /\ b.leg # leg => Fields(h, leg) = {1} /\ Leg(h, leg) = a.text
                 /\ a.leg # leg /\ b.leg = leg => Fields(h, leg) = {2} /\ Leg(h, leg) = b.text
                 /\ a.leg # leg /\ b.leg # leg => Fields(h, leg) = {} /\ Leg(h, leg) = NoText
    BY ONLY <2>4, TwoFields, Zenon
  <2> HIDE DEF a, b
  <2>7. a.leg = "From" /\ b.leg = "To" /\ a.text = m.party /\ b.text = m.account BY ONLY <2>4, Zenon DEF a, b
  <2>8. Fields(h, NoText) = {} /\ Leg(h, "From") = m.party /\ Leg(h, "To") = m.account BY ONLY <2>5, <2>6, <2>7, Zenon
  <2> QED BY ONLY <2>8, Zenon
<1>5. ASSUME m.shape = "from" PROVE /\ Fields(h, NoText) = {2} /\ Leg(h, NoText) = m.account
            /\ Leg(h, "From") = m.party /\ Leg(h, "To") = NoText
  <2> DEFINE k == "From"
             t == m.party
             l == NoText
             u == m.account
             s == h.subtitle
  <2>1. s = <<Field(k, t), Field(l, u)>> BY ONLY <1>5, <1>1, Zenon
  <2>2. s = <<[leg |-> k, text |-> t], [leg |-> l, text |-> u]>> BY ONLY <2>1, Zenon DEF Field
  <2> HIDE DEF k, t, l, u, s
  <2>3. DOMAIN s = {1, 2} /\ s[1].leg = k /\ s[1].text = t /\ s[2].leg = l /\ s[2].text = u BY ONLY <2>2, SMT
  <2>4. /\ DOMAIN h.subtitle = {1, 2} /\ h.subtitle[1].leg = "From" /\ h.subtitle[1].text = m.party
        /\ h.subtitle[2].leg = NoText /\ h.subtitle[2].text = m.account
    BY ONLY <2>3, Zenon DEF k, t, l, u, s
  <2> DEFINE a == h.subtitle[1]
             b == h.subtitle[2]
  <2>5. a.leg # NoText /\ b.leg # "From" /\ a.leg # "To" /\ b.leg # "To" BY ONLY <2>4, Words, Zenon
  <2>6. \A leg : /\ a.leg = leg /\ b.leg = leg => Fields(h, leg) = {1, 2} /\ Leg(h, leg) = b.text
                 /\ a.leg = leg /\ b.leg # leg => Fields(h, leg) = {1} /\ Leg(h, leg) = a.text
                 /\ a.leg # leg /\ b.leg = leg => Fields(h, leg) = {2} /\ Leg(h, leg) = b.text
                 /\ a.leg # leg /\ b.leg # leg => Fields(h, leg) = {} /\ Leg(h, leg) = NoText
    BY ONLY <2>4, TwoFields, Zenon
  <2> HIDE DEF a, b
  <2>7. a.leg = "From" /\ b.leg = NoText /\ a.text = m.party /\ b.text = m.account BY ONLY <2>4, Zenon DEF a, b
  <2>8. Fields(h, NoText) = {2} /\ Leg(h, NoText) = m.account /\ Leg(h, "From") = m.party /\ Leg(h, "To") = NoText
    BY ONLY <2>5, <2>6, <2>7, Zenon
  <2> QED BY ONLY <2>8, Zenon
<1>6. m.shape = "fee" =>
        /\ Fields(h, NoText) = {1} /\ Leg(h, NoText) = m.account
        /\ Leg(h, "From") = NoText /\ Leg(h, "To") = NoText
  BY ONLY <1>1, OneField, Zenon
<1> QED BY ONLY <1>2, <1>3, <1>4, <1>5, <1>6, Zenon DEF h

\* Whatever names are known, the account of a row is found.
LEMMA AccountFound ==
  ASSUME NEW m, m.shape \in Shapes, NEW known
  PROVE  ParseRowHeader(Header(m), known).account = m.account
<1> DEFINE h == Header(m)
           r == ParseRowHeader(h, known)
           plain == Fields(h, NoText)
           account == IF plain = {} THEN Leg(h, "To") ELSE Leg(h, NoText)
<1>1. r.account = account
  <2>1. PICK type, from, to, ticker, payee, amount :
          r = [type |-> type, account |-> account, from |-> from, to |-> to,
               ticker |-> ticker, payee |-> payee, amount |-> amount]
    BY ONLY Zenon DEF ParseRowHeader
  <2> HIDE DEF r, account
  <2> QED BY ONLY <2>1, SMT
<1>2. {1} # {} /\ {2} # {} /\ {1, 2} # {} BY Zenon
<1>3. \/ (plain = {1} \/ plain = {2} \/ plain = {1, 2}) /\ Leg(h, NoText) = m.account
      \/ plain = {} /\ Leg(h, "To") = m.account
  <2>1. /\ m.shape \in {"payment", "security"} \/ m.shape = "between" => plain = {1, 2} /\ Leg(h, NoText) = m.account
        /\ m.shape = "legs" => plain = {} /\ Leg(h, "To") = m.account
        /\ m.shape = "from" => plain = {2} /\ Leg(h, NoText) = m.account
        /\ m.shape = "fee" => plain = {1} /\ Leg(h, NoText) = m.account
    BY ONLY FieldsRead, m.shape \in Shapes, Zenon
  <2> HIDE DEF h
  <2> QED BY ONLY <2>1, m.shape \in Shapes, Zenon DEF Shapes
<1>4. account = m.account
  <2> HIDE DEF h
  <2> QED BY ONLY <1>2, <1>3, Zenon
<1> HIDE DEF account, r
<1>5. r.account = m.account BY ONLY <1>1, <1>4, Zenon
<1> QED BY ONLY <1>5, Zenon DEF r

\* What a row is parsed into once the accounts are known.
Parsed(m) ==
  [type |-> m.type, account |-> m.account,
   from |-> IF m.shape \in {"legs", "from"} THEN m.party ELSE NoText,
   to |-> IF m.shape = "legs" THEN m.account ELSE NoText,
   ticker |-> IF m.shape = "security" THEN m.party ELSE NoText,
   payee |-> IF m.shape = "payment" THEN m.party ELSE NoText, amount |-> m.amount]

LEMMA HeaderParsed ==
  ASSUME NEW m, m.shape \in Shapes, m.type # NoText, NEW known, m.type \notin known,
         m.shape = "between" => m.party \in known
  PROVE  ParseRowHeader(Header(m), known) = Parsed(m)
<1> DEFINE h == Header(m)
           plain == Fields(h, NoText)
           first == h.subtitle[Min(plain)].text
           second == IF Cardinality(plain) > 1 /\ first \notin known THEN first ELSE NoText
           title == IF second = NoText THEN NoText ELSE h.title
<1>1. h.amount = m.amount /\ (h.logo <=> m.shape = "security")
      /\ h.title = IF m.shape \in {"payment", "security"} THEN m.party ELSE m.type
  BY ONLY HeaderHas, m.shape \in Shapes, Zenon
<1>2. ParseRowHeader(h, known) =
        [type |-> IF second = NoText THEN h.title ELSE second,
         account |-> IF plain = {} THEN Leg(h, "To") ELSE Leg(h, NoText),
         from |-> Leg(h, "From"), to |-> Leg(h, "To"),
         ticker |-> IF h.logo THEN title ELSE NoText, payee |-> IF h.logo THEN NoText ELSE title,
         amount |-> h.amount]
  BY ONLY Zenon DEF ParseRowHeader
<1>3. {1} # {} /\ {2} # {} /\ {1, 2} # {} /\ 2 > 1 /\ ~(1 > 1) /\ ~(0 > 1)
  <2>1. 2 > 1 /\ ~(1 > 1) /\ ~(0 > 1) BY ONLY SMT
  <2> QED BY ONLY <2>1, Zenon
<1>4. /\ "payment" # "security" /\ "payment" # "legs" /\ "payment" # "from" /\ "payment" # "fee" /\ "payment" # "between"
      /\ "security" # "legs" /\ "security" # "from" /\ "security" # "fee" /\ "security" # "between"
      /\ "legs" # "from" /\ "legs" # "fee" /\ "legs" # "between"
      /\ "from" # "fee" /\ "from" # "between" /\ "fee" # "between"
  BY ONLY SMT
<1>5. /\ m.shape \in {"payment", "security"} =>
           second = m.type /\ plain # {} /\ Leg(h, NoText) = m.account /\ Leg(h, "From") = NoText /\ Leg(h, "To") = NoText
      /\ m.shape = "between" =>
           second = NoText /\ plain # {} /\ Leg(h, NoText) = m.account /\ Leg(h, "From") = NoText /\ Leg(h, "To") = NoText
      /\ m.shape = "legs" => second = NoText /\ plain = {} /\ Leg(h, "From") = m.party /\ Leg(h, "To") = m.account
      /\ m.shape = "from" =>
           second = NoText /\ plain # {} /\ Leg(h, NoText) = m.account /\ Leg(h, "From") = m.party /\ Leg(h, "To") = NoText
      /\ m.shape = "fee" =>
           second = NoText /\ plain # {} /\ Leg(h, NoText) = m.account /\ Leg(h, "From") = NoText /\ Leg(h, "To") = NoText
  <2>1. /\ Min({1, 2}) = 1 /\ Cardinality({1, 2}) > 1 /\ ~(Cardinality({1}) > 1)
        /\ ~(Cardinality({2}) > 1) /\ ~(Cardinality({}) > 1)
    BY ONLY <1>3, FewNumbers, Zenon
  <2>2. ASSUME m.shape \in {"payment", "security"}
        PROVE  second = m.type /\ plain # {} /\ Leg(h, NoText) = m.account /\ Leg(h, "From") = NoText /\ Leg(h, "To") = NoText
    <3>1. /\ plain = {1, 2} /\ Leg(h, NoText) = m.account /\ Leg(h, "From") = NoText /\ Leg(h, "To") = NoText
          /\ h.subtitle[1].text = m.type
      BY ONLY <2>2, FieldsRead, m.shape \in Shapes, Zenon
    <3> HIDE DEF h, plain
    <3> QED BY ONLY <1>3, <2>1, <3>1, m.type \notin known, Zenon
  <2>3. ASSUME m.shape = "between"
        PROVE  second = NoText /\ plain # {} /\ Leg(h, NoText) = m.account /\ Leg(h, "From") = NoText /\ Leg(h, "To") = NoText
    <3>1. /\ plain = {1, 2} /\ Leg(h, NoText) = m.account /\ Leg(h, "From") = NoText /\ Leg(h, "To") = NoText
          /\ h.subtitle[1].text = m.party
      BY ONLY <2>3, FieldsRead, m.shape \in Shapes, Zenon
    <3>2. m.party \in known BY <2>3, Zenon
    <3> HIDE DEF h, plain
    <3> QED BY ONLY <1>3, <2>1, <3>1, <3>2, Zenon
  <2>4. ASSUME m.shape = "legs"
        PROVE  second = NoText /\ plain = {} /\ Leg(h, "From") = m.party /\ Leg(h, "To") = m.account
    <3>1. plain = {} /\ Leg(h, "From") = m.party /\ Leg(h, "To") = m.account
      BY ONLY <2>4, FieldsRead, m.shape \in Shapes, Zenon
    <3> HIDE DEF h, plain, first
    <3> QED BY ONLY <2>1, <3>1, Zenon
  <2>5. ASSUME m.shape = "from"
        PROVE  second = NoText /\ plain # {} /\ Leg(h, NoText) = m.account /\ Leg(h, "From") = m.party /\ Leg(h, "To") = NoText
    <3>1. plain = {2} /\ Leg(h, NoText) = m.account /\ Leg(h, "From") = m.party /\ Leg(h, "To") = NoText
      BY ONLY <2>5, FieldsRead, m.shape \in Shapes, Zenon
    <3> HIDE DEF h, plain, first
    <3> QED BY ONLY <1>3, <2>1, <3>1, Zenon
  <2>6. ASSUME m.shape = "fee"
        PROVE  second = NoText /\ plain # {} /\ Leg(h, NoText) = m.account /\ Leg(h, "From") = NoText /\ Leg(h, "To") = NoText
    <3>1. plain = {1} /\ Leg(h, NoText) = m.account /\ Leg(h, "From") = NoText /\ Leg(h, "To") = NoText
      BY ONLY <2>6, FieldsRead, m.shape \in Shapes, Zenon
    <3> HIDE DEF h, plain, first
    <3> QED BY ONLY <1>3, <2>1, <3>1, Zenon
  <2> HIDE DEF h, plain, second
  <2> QED BY ONLY <2>2, <2>3, <2>4, <2>5, <2>6, Zenon
<1> HIDE DEF h, plain, first, second
<1>6. CASE m.shape \in {"payment", "security"}
  BY ONLY <1>1, <1>2, <1>4, <1>5, <1>6, m.type # NoText, Zenon DEF Parsed, h
<1>7. CASE m.shape = "between" BY ONLY <1>1, <1>2, <1>4, <1>5, <1>7, Zenon DEF Parsed, h
<1>8. CASE m.shape = "legs" BY ONLY <1>1, <1>2, <1>4, <1>5, <1>8, Zenon DEF Parsed, h
<1>9. CASE m.shape = "from" BY ONLY <1>1, <1>2, <1>4, <1>5, <1>9, Zenon DEF Parsed, h
<1>10. CASE m.shape = "fee" BY ONLY <1>1, <1>2, <1>4, <1>5, <1>10, Zenon DEF Parsed, h
<1> QED BY ONLY <1>6, <1>7, <1>8, <1>9, <1>10, m.shape \in Shapes, Zenon DEF Shapes

SecurityTypes == BuyTypes \union SellTypes \union {"Dividend", "Sold asset"}

\* The words that tell the kinds of rows apart.
LEMMA Kinds ==
  /\ \A t \in BuyTypes : t \notin SellTypes /\ t \notin TransferTypes /\ t # "Dividend" /\ t # "Sold asset"
  /\ \A t \in SellTypes : t \notin BuyTypes /\ t \notin TransferTypes /\ t # "Dividend" /\ t # "Sold asset"
  /\ "Dividend" \notin BuyTypes \union SellTypes \union TransferTypes \union {"Sold asset"}
  /\ "Sold asset" \notin BuyTypes \union SellTypes \union TransferTypes \union {"Dividend"}
BY SMT DEF BuyTypes, SellTypes, TransferTypes

\* The payee that the code finds: of a transfer between listed and unlisted accounts, the latter.
PayeeRead(m) ==
  IF m.shape \in {"fee", "between"} THEN NoText
  ELSE IF m.shape \in {"legs", "from"} /\ m.party \in Internal
       THEN IF m.shape = "legs" /\ m.account \notin Internal THEN m.account ELSE NoText
       ELSE m.party

\* What a parsed row becomes.
LEMMA LineMeant ==
  ASSUME NEW m, m.shape \in Shapes, m.shape = "security" <=> m.type \in SecurityTypes, m.account # NoText
  PROVE  NormalizeRow(Parsed(m)) =
           IF m.type = "Dividend" /\ m.amount = {} THEN Dropped
           ELSE Entry(PayeeRead(m), m.account, m.type, IF m.type \in BuyTypes THEN Negated(m.amount) ELSE m.amount)
<1> DEFINE a == Parsed(m)
           from == IF m.shape \in {"legs", "from"} THEN m.party ELSE NoText
           to == IF m.shape = "legs" THEN m.account ELSE NoText
           ticker == IF m.shape = "security" THEN m.party ELSE NoText
           payee == IF m.shape = "payment" THEN m.party ELSE NoText
           meant == PayeeRead(m)
<1>1. /\ a.type = m.type /\ a.account = m.account /\ a.from = from /\ a.to = to /\ a.ticker = ticker
      /\ a.payee = payee /\ a.amount = m.amount
  <2>1. a = [type |-> m.type, account |-> m.account, from |-> from, to |-> to, ticker |-> ticker, payee |-> payee,
             amount |-> m.amount]
    BY ONLY Zenon DEF Parsed
  <2> HIDE DEF a, from, to, ticker, payee
  <2> QED BY ONLY <2>1, SMT
<1>2. /\ "payment" # "security" /\ "payment" # "legs" /\ "payment" # "from" /\ "payment" # "fee" /\ "payment" # "between"
      /\ "security" # "legs" /\ "security" # "from" /\ "security" # "fee" /\ "security" # "between"
      /\ "legs" # "from" /\ "legs" # "fee" /\ "legs" # "between"
      /\ "from" # "fee" /\ "from" # "between" /\ "fee" # "between"
  BY ONLY SMT
<1>3. NoText \in Internal BY ONLY Zenon DEF Internal
<1> HIDE DEF a
<1>4. Else(a.account, Inside(a)) = m.account /\ Else(a.account, a.from) = m.account
  BY ONLY <1>1, m.account # NoText, Zenon DEF Else
<1>5. CASE m.shape = "security"
  <2>1. ticker = m.party /\ meant = m.party BY ONLY <1>2, <1>5, Zenon DEF PayeeRead
  <2> HIDE DEF ticker, meant
  <2>2. m.type \in BuyTypes \/ m.type \in SellTypes \/ m.type = "Dividend" \/ m.type = "Sold asset"
    BY ONLY <1>5, m.shape = "security" <=> m.type \in SecurityTypes, Zenon DEF SecurityTypes
  <2>3. NormalizeRow(a) = IF m.type = "Dividend" /\ m.amount = {} THEN Dropped
                          ELSE Entry(m.party, m.account, m.type, IF m.type \in BuyTypes THEN Negated(m.amount) ELSE m.amount)
    <3>1. CASE m.type \in BuyTypes BY ONLY <1>1, <2>1, <3>1, Kinds, Zenon DEF NormalizeRow
    <3>2. CASE m.type \in SellTypes BY ONLY <1>1, <2>1, <3>2, Kinds, Zenon DEF NormalizeRow
    <3>3. CASE m.type = "Dividend" BY ONLY <1>1, <2>1, <3>3, Kinds, Zenon DEF NormalizeRow
    <3>4. CASE m.type = "Sold asset" BY ONLY <1>1, <2>1, <3>4, Kinds, Zenon DEF NormalizeRow
    <3> QED BY ONLY <2>2, <3>1, <3>2, <3>3, <3>4, Zenon
  <2> QED BY ONLY <2>1, <2>3, Zenon DEF a, meant
<1>6. CASE m.shape # "security"
  <2>1. m.type \notin BuyTypes /\ m.type \notin SellTypes /\ m.type # "Dividend" /\ m.type # "Sold asset"
    BY ONLY <1>6, m.shape = "security" <=> m.type \in SecurityTypes, Zenon DEF SecurityTypes
  <2>2. Else(Outside(a), a.payee) = meant /\ Else(a.payee, Outside(a)) = meant
    <3>1. CASE m.shape = "payment" BY ONLY <1>1, <1>2, <1>3, <3>1, Zenon DEF Else, Outside, PayeeRead
    <3>2. CASE m.shape \in {"fee", "between"} BY ONLY <1>1, <1>2, <1>3, <3>2, Zenon DEF Else, Outside, PayeeRead
    <3>3. CASE m.shape = "from" BY ONLY <1>1, <1>2, <1>3, <3>3, Zenon DEF Else, Outside, PayeeRead
    <3>4. CASE m.shape = "legs"
      BY ONLY <1>1, <1>2, <1>3, <3>4, m.account # NoText, Zenon DEF Else, Outside, PayeeRead
    <3> QED BY ONLY <1>6, <3>1, <3>2, <3>3, <3>4, m.shape \in Shapes, Zenon DEF Shapes
  <2> HIDE DEF meant
  <2>3. NormalizeRow(a) = Entry(meant, m.account, m.type, m.amount)
    BY ONLY <1>1, <1>4, <2>1, <2>2, Zenon DEF NormalizeRow
  <2> QED BY ONLY <2>1, <2>3, Zenon DEF a, meant
<1> QED BY ONLY <1>5, <1>6, Zenon

\* The line that a row becomes, as ReadAsMeant says.
LineRead(m) == IF ToUnlisted(m) THEN [Meant(m) EXCEPT !.payee = m.account] ELSE Meant(m)

\* A line is never what a dropped row leaves.
LEMMA LineIsNotDropped == ASSUME NEW p, NEW a, NEW t, NEW x PROVE Entry(p, a, t, x) # Dropped
<1>1. "payee" \in DOMAIN Entry(p, a, t, x) BY ONLY SMT DEF Entry
<1>2. "payee" \notin DOMAIN Dropped BY ONLY SMT DEF Dropped
<1> QED BY ONLY <1>1, <1>2, Zenon

\* A line with another payee.
LEMMA OtherPayee ==
  ASSUME NEW p, NEW q, NEW a, NEW t, NEW x PROVE [Entry(p, a, t, x) EXCEPT !.payee = q] = Entry(q, a, t, x)
BY ONLY SMT DEF Entry

\* Every row of a feed becomes the line that was meant.
LEMMA FeedRead ==
  ASSUME NEW feed, NEW n \in Nat, feed \in [1 .. n -> Meanings],
         \A m \in Range(feed) : m.shape = "between" => m.party \in {o.account : o \in Range(feed)}
  PROVE  \A i \in DOMAIN feed : ReadRows([j \in DOMAIN feed |-> Header(feed[j])])[i] = LineRead(feed[i])
<1> DEFINE rows == [j \in DOMAIN feed |-> Header(feed[j])]
           known == AccountNames(rows)
<1>1. ASSUME NEW j \in DOMAIN feed
      PROVE  /\ feed[j] \in Meanings /\ feed[j] \in Range(feed)
             /\ feed[j].shape \in Shapes /\ feed[j].account # NoText /\ feed[j].type # NoText
             /\ feed[j].type \notin {o.account : o \in Meanings}
             /\ feed[j].shape = "security" <=> feed[j].type \in SecurityTypes
  <2>1. feed[j] \in Meanings /\ feed[j] \in Range(feed) BY ONLY feed \in [1 .. n -> Meanings], j \in DOMAIN feed, Zenon DEF Range
  <2> QED BY ONLY <2>1, MeaningsAssumption, Zenon DEF Shapes, SecurityTypes
<1>2. DOMAIN rows = DOMAIN feed /\ \A j \in DOMAIN feed : rows[j] = Header(feed[j]) BY ONLY Zenon
<1> HIDE DEF rows
<1>3. known = {o.account : o \in Range(feed)}
  <2>1. \A j \in DOMAIN feed : ParseRowHeader(rows[j], {}).account = feed[j].account /\ feed[j].account # NoText
    <3> TAKE j \in DOMAIN feed
    <3>1. feed[j].shape \in Shapes /\ feed[j].account # NoText /\ rows[j] = Header(feed[j])
      BY ONLY <1>1, <1>2, j \in DOMAIN feed, Zenon
    <3> QED BY ONLY <3>1, AccountFound, Zenon
  <2> QED BY ONLY <1>2, <2>1, Zenon DEF AccountNames, Range
<1> HIDE DEF known
<1> TAKE i \in DOMAIN feed
<1> DEFINE m == feed[i]
<1>4. ReadRows(rows)[i] = ReadRow(rows[i], known)
  BY ONLY <1>2, i \in DOMAIN feed, Zenon DEF ReadRows, known
<1>5. /\ m \in Meanings /\ m \in Range(feed) /\ m.shape \in Shapes /\ m.account # NoText /\ m.type # NoText
      /\ m.type \notin {o.account : o \in Meanings}
      /\ m.shape = "security" <=> m.type \in SecurityTypes
  BY ONLY <1>1, i \in DOMAIN feed, Zenon
<1>6. m.type \notin known
  <2>1. \A o \in Range(feed) : o \in Meanings BY ONLY <1>1, Zenon DEF Range
  <2> QED BY ONLY <1>3, <1>5, <2>1, Zenon
<1>7. m.shape = "between" => m.party \in known
  BY ONLY <1>3, <1>5, \A x \in Range(feed) : x.shape = "between" => x.party \in {o.account : o \in Range(feed)}, Zenon
<1>8. rows[i] = Header(m) BY ONLY <1>2, i \in DOMAIN feed, Zenon
<1> HIDE DEF m
<1>9. rows[i].cancelled = m.cancelled /\ rows[i].dated = m.dated BY ONLY <1>5, <1>8, HeaderHas, Zenon
<1>10. ParseRowHeader(rows[i], known) = Parsed(m) BY ONLY <1>5, <1>6, <1>7, <1>8, HeaderParsed, Zenon
<1>11. NormalizeRow(Parsed(m)) =
           IF m.type = "Dividend" /\ m.amount = {} THEN Dropped
           ELSE Entry(PayeeRead(m), m.account, m.type, IF m.type \in BuyTypes THEN Negated(m.amount) ELSE m.amount)
  BY ONLY <1>5, LineMeant, Zenon
<1>12. ReadRow(rows[i], known) = LineRead(m)
  <2>1. CASE m.cancelled \/ ~m.dated \/ (m.type = "Dividend" /\ m.amount = {})
    BY ONLY <1>9, <1>10, <1>11, <2>1, Zenon DEF ReadRow, Meant, LineRead, ToUnlisted
  <2>2. CASE ~(m.cancelled \/ ~m.dated \/ (m.type = "Dividend" /\ m.amount = {}))
    <3> DEFINE amount == IF m.type \in BuyTypes THEN Negated(m.amount) ELSE m.amount
               meant  == IF m.shape \in {"fee", "between"} \/ (m.shape \in {"legs", "from"} /\ m.party \in Internal)
                         THEN NoText ELSE m.party
    <3>1. ReadRow(rows[i], known) = Entry(PayeeRead(m), m.account, m.type, amount)
      BY ONLY <1>9, <1>10, <1>11, <2>2, Zenon DEF ReadRow
    <3>2. Meant(m) = Entry(meant, m.account, m.type, amount) BY ONLY <2>2, Zenon DEF Meant
    <3> HIDE DEF amount
    <3>3. Meant(m) # Dropped BY ONLY <3>2, LineIsNotDropped, Zenon
    <3>4. CASE ToUnlisted(m)
      <4>1. PayeeRead(m) = m.account
        <5>1. "legs" # "fee" /\ "legs" # "between" BY ONLY SMT
        <5> QED BY ONLY <3>4, <5>1, Zenon DEF PayeeRead, ToUnlisted
      <4>2. [Entry(meant, m.account, m.type, amount) EXCEPT !.payee = m.account] = Entry(m.account, m.account, m.type, amount)
        <5> HIDE DEF meant, m
        <5> QED BY ONLY OtherPayee
      <4> QED BY ONLY <3>1, <3>2, <3>4, <4>1, <4>2, Zenon DEF LineRead
    <3>5. CASE ~ToUnlisted(m)
      <4>1. PayeeRead(m) = meant
        <5>1. "from" # "legs" /\ "from" # "fee" /\ "from" # "between" /\ "legs" # "fee" /\ "legs" # "between" BY ONLY SMT
        <5> QED BY ONLY <3>3, <3>5, <5>1, Zenon DEF PayeeRead, ToUnlisted
      <4> QED BY ONLY <3>1, <3>2, <3>5, <4>1, Zenon DEF LineRead
    <3> QED BY ONLY <3>4, <3>5, Zenon
  <2> QED BY ONLY <2>1, <2>2, Zenon
<1> QED BY ONLY <1>4, <1>12, Zenon DEF m, rows

\* A feed is of the rows that there may be, and what is answered is the reading of it.
Fed ==
  task.kind = "feed" =>
    /\ \E n \in Nat : task.feed \in [1 .. n -> Meanings]
    /\ stage = "answered" => result = ReadRows([i \in DOMAIN task.feed |-> Header(task.feed[i])])

\* However many rows of the kinds of parse_row_header the feed has, each becomes the line of what
\* it is about, but for the payee of a transfer to an account that INTERNAL_ACCOUNTS lacks, which
\* is the account itself.  The code has only the order of the texts to go by, and may learn the
\* name of an account from a row that comes later (account_names, and the second pass).
THEOREM RowsRead == DataSpec => []ReadAsMeant
<1>1. DataInit => Fed
  <2> SUFFICES ASSUME DataInit, task.kind = "feed" PROVE Fed BY DEF Fed
  <2>1. stage = "given" BY DEF DataInit
  <2>2. "given" # "answered" BY SMT
  <2>3. PICK f \in UNION {[1 .. n -> Meanings] : n \in 1 .. MaxRows} : task = [kind |-> "feed", feed |-> f]
    BY DEF DataInit
  <2>4. PICK n \in 1 .. MaxRows : f \in [1 .. n -> Meanings] BY ONLY f \in UNION {[1 .. k -> Meanings] : k \in 1 .. MaxRows}, Zenon
  <2>5. task.feed = f BY ONLY <2>3, SMT
  <2>6. n \in Nat
    <3>1. MaxRows \in Nat BY ONLY MeaningsAssumption, Zenon
    <3> QED BY ONLY <3>1, n \in 1 .. MaxRows, SMT
  <2> QED BY ONLY <2>1, <2>2, <2>4, <2>5, <2>6, Zenon DEF Fed
<1>2. Fed /\ [DataNext]_dataVars => Fed'
  <2> SUFFICES ASSUME Fed, [DataNext]_dataVars PROVE Fed' OBVIOUS
  <2>1. CASE ReadHeaders BY ONLY Fed, <2>1, Zenon DEF ReadHeaders, Given, Fed
  <2>2. CASE ChoosePeriod \/ BuildEarnings
    <3>1. task.kind \in {"earnings", "period"} /\ task' = task BY ONLY <2>2, Zenon DEF BuildEarnings, ChoosePeriod, Given
    <3> QED BY ONLY <3>1 DEF Fed
  <2>3. CASE UNCHANGED dataVars BY ONLY Fed, <2>3 DEF Fed, dataVars
  <2> QED BY <2>1, <2>2, <2>3, Zenon DEF DataNext
<1>3. Fed => ReadAsMeant
  <2> SUFFICES ASSUME Fed, Answered("feed"),
                      \A m \in Range(task.feed) : m.shape = "between" => m.party \in {o.account : o \in Range(task.feed)}
               PROVE  \A i \in DOMAIN task.feed : result[i] = LineRead(task.feed[i])
    BY Zenon DEF ReadAsMeant, LineRead
  <2>1. PICK n \in Nat : task.feed \in [1 .. n -> Meanings] BY Zenon DEF Fed, Answered
  <2>2. result = ReadRows([i \in DOMAIN task.feed |-> Header(task.feed[i])]) BY Zenon DEF Fed, Answered
  <2>3. \A i \in DOMAIN task.feed : ReadRows([j \in DOMAIN task.feed |-> Header(task.feed[j])])[i] = LineRead(task.feed[i])
    BY <2>1, FeedRead, Zenon
  <2> QED BY ONLY <2>2, <2>3, Zenon
<1> QED BY <1>1, <1>2, <1>3, PTL DEF DataSpec

-----------------------------------------------------------------------------
(* Sums over finite sets (SumFunctionOnSet of Functions).  Induction is    *)
(* over sets, from the well-founded order of the numbers: a set of numbers *)
(* that has 0 and the next of each has all (Climb), a set of subsets that  *)
(* has the empty one and grows by one element has the whole (Grow).        *)

LEMMA Climb == ASSUME NEW P \in SUBSET Nat, 0 \in P, \A n \in P : n + 1 \in P PROVE \A n \in Nat : n \in P
<1> SUFFICES ASSUME NEW n \in Nat, n \notin P PROVE FALSE OBVIOUS
<1> DEFINE Left == Nat \ P
           l == Min(Left)
<1>1. Left \in SUBSET Nat /\ Left # {} BY ONLY n \in Nat, n \notin P, Zenon
<1> HIDE DEF Left
<1>2. l \in Left /\ \A y \in Left : l <= y BY ONLY <1>1, Least, Zenon
<1>3. l \in Nat /\ l \notin P BY ONLY <1>2, Zenon DEF Left
<1>4. l # 0 BY ONLY <1>3, 0 \in P, Zenon
<1> HIDE DEF l
<1>5. l - 1 \in Nat /\ ~(l <= l - 1) /\ l - 1 + 1 = l BY ONLY <1>3, <1>4, SMT
<1>6. l - 1 \in P BY ONLY <1>2, <1>5, Zenon DEF Left
<1> QED BY ONLY <1>3, <1>5, <1>6, \A k \in P : k + 1 \in P, Zenon

\* Sets of at most n elements, and what is left when one is taken out.
LEMMA TakeOut ==
  ASSUME NEW s, IsFiniteSet(s), NEW x \in s, NEW n \in Nat, Cardinality(s) <= n + 1
  PROVE  IsFiniteSet(s \ {x}) /\ Cardinality(s \ {x}) <= n
<1>1. IsFiniteSet(s \ {x}) /\ Cardinality(s \ {x}) = Cardinality(s) - 1 BY FS_RemoveElement
<1>2. Cardinality(s) \in Nat BY FS_CardinalityType
<1> QED BY ONLY <1>1, <1>2, Cardinality(s) <= n + 1, n \in Nat, SMT

\* Where the sum over a set begins.
AnyOf(s) == CHOOSE x \in s : TRUE

\* g has the sums of f over subsets of S, as SumFunctionOnSet adds them.
Adds(g, f, S) ==
  g = [s \in SUBSET S |-> IF s = {} THEN 0 ELSE f[AnyOf(s)] + g[s \ {AnyOf(s)}]]

\* The library's fold is such a function.
LEMMA SumIs == ASSUME NEW f, NEW S PROVE SumFunctionOnSet(f, S) = (CHOOSE g : Adds(g, f, S))[S]
BY Zenon DEF SumFunctionOnSet, FoldFunctionOnSet, MapThenFoldSet, Adds, AnyOf

\* They exist.
LEMMA AddsSomething == ASSUME NEW f, NEW S, IsFiniteSet(S) PROVE \E g : Adds(g, f, S)
<1> DEFINE Value(g, s) == IF s = {} THEN 0 ELSE f[AnyOf(s)] + g[s \ {AnyOf(s)}]
           Few(n) == {s \in SUBSET S : Cardinality(s) <= n}
           P == {n \in Nat : \E g : \A s \in Few(n) : g[s] = Value(g, s)}
<1>1. \A s \in SUBSET S : IsFiniteSet(s) /\ Cardinality(s) \in Nat BY FS_Subset, FS_CardinalityType
<1>2. 0 \in P
  <2> DEFINE g == [s \in SUBSET S |-> 0]
  <2>1. \A s \in Few(0) : s = {}
    <3> TAKE s \in Few(0)
    <3>1. s \in SUBSET S /\ Cardinality(s) <= 0 BY Zenon
    <3>2. Cardinality(s) = 0 BY ONLY <1>1, <3>1, SMT
    <3> QED BY <1>1, <3>1, <3>2, FS_EmptySet
  <2>2. \A s \in Few(0) : g[s] = Value(g, s) BY ONLY <2>1, Zenon
  <2>3. 0 \in Nat BY SMT
  <2> HIDE DEF g, Few, Value
  <2> QED BY ONLY <2>2, <2>3, Zenon
<1>3. ASSUME NEW n \in P PROVE n + 1 \in P
  <2>1. n \in Nat /\ n + 1 \in Nat
    <3>1. n \in Nat BY Zenon
    <3> QED BY ONLY <3>1, SMT
  <2>2. PICK g : \A s \in Few(n) : g[s] = Value(g, s) BY Zenon
  <2> DEFINE h == [s \in SUBSET S |-> Value(g, s)]
  <2>3. ASSUME NEW s \in Few(n) PROVE h[s] = g[s]
    <3>1. s \in SUBSET S BY Zenon
    <3> QED BY ONLY <2>2, <3>1, s \in Few(n), Zenon
  <2>4. ASSUME NEW s \in Few(n + 1) PROVE h[s] = Value(h, s)
    <3>1. s \in SUBSET S /\ Cardinality(s) <= n + 1 BY Zenon
    <3>2. h[s] = Value(g, s) BY ONLY <3>1, Zenon
    <3>3. CASE s = {} BY ONLY <3>2, <3>3, Zenon
    <3>4. CASE s # {}
      <4> DEFINE x == AnyOf(s)
      <4>1. x \in s BY <3>4, Zenon DEF AnyOf
      <4> HIDE DEF x
      <4>2. Cardinality(s \ {x}) <= n BY <1>1, <2>1, <3>1, <4>1, TakeOut, Zenon
      <4>3. s \ {x} \in Few(n) BY ONLY <3>1, <4>2, Zenon
      <4>4. h[s \ {x}] = g[s \ {x}] BY ONLY <2>3, <4>3, Zenon
      <4> HIDE DEF h
      <4> QED BY ONLY <3>2, <3>4, <4>4, Zenon DEF x
    <3> QED BY ONLY <3>3, <3>4, Zenon
  <2> HIDE DEF h, Few, Value
  <2> QED BY ONLY <2>1, <2>4, Zenon
<1>4. Cardinality(S) \in Nat BY FS_CardinalityType
<1>5. Cardinality(S) \in P
  <2> HIDE DEF P
  <2>1. P \in SUBSET Nat BY Zenon DEF P
  <2> QED BY ONLY <1>2, <1>3, <1>4, <2>1, Climb, Zenon
<1>6. PICK g : \A s \in Few(Cardinality(S)) : g[s] = Value(g, s) BY ONLY <1>5, Zenon
<1>7. \A s \in SUBSET S : g[s] = Value(g, s)
  <2> TAKE s \in SUBSET S
  <2>1. Cardinality(s) <= Cardinality(S) BY FS_Subset
  <2> HIDE DEF Value
  <2> QED BY ONLY <1>6, <2>1, s \in SUBSET S, Zenon
<1> DEFINE h == [s \in SUBSET S |-> Value(g, s)]
<1>8. ASSUME NEW s \in SUBSET S PROVE Value(g, s) = Value(h, s)
  <2>1. CASE s = {} BY ONLY <2>1, Zenon
  <2>2. CASE s # {}
    <3>1. s \ {AnyOf(s)} \in SUBSET S BY ONLY s \in SUBSET S, Zenon
    <3>2. h[s \ {AnyOf(s)}] = g[s \ {AnyOf(s)}] BY ONLY <1>7, <3>1, Zenon
    <3> HIDE DEF h
    <3> QED BY ONLY <2>2, <3>2, Zenon
  <2> QED BY ONLY <2>1, <2>2, Zenon
<1>9. h = [s \in SUBSET S |-> Value(h, s)]
  <2> DEFINE V(s) == Value(g, s)
  <2> QED BY ONLY <1>8, Zenon
<1>10. Adds(h, f, S)
  <2> HIDE DEF h
  <2> QED BY ONLY <1>9, Zenon DEF Adds
<1> QED BY ONLY <1>10, Zenon

\* What such a function has for a set.
LEMMA AddsValue ==
  ASSUME NEW g, NEW f, NEW S, Adds(g, f, S), NEW s \in SUBSET S
  PROVE  g[s] = IF s = {} THEN 0 ELSE f[AnyOf(s)] + g[s \ {AnyOf(s)}]
<1> DEFINE V(x) == IF x = {} THEN 0 ELSE f[AnyOf(x)] + g[x \ {AnyOf(x)}]
<1>1. g = [x \in SUBSET S |-> V(x)] BY Zenon DEF Adds
<1> HIDE DEF V
<1>2. g[s] = V(s) BY ONLY <1>1, s \in SUBSET S, SMT
<1> QED BY ONLY <1>2, Zenon DEF V

\* A sum is of what is added only.
LEMMA SameSums ==
  ASSUME NEW f, NEW g, NEW S, NEW e, NEW h, NEW T, Adds(g, f, S), Adds(h, e, T),
         NEW U, IsFiniteSet(U), U \subseteq S, U \subseteq T, \A x \in U : f[x] = e[x]
  PROVE  g[U] = h[U]
<1> DEFINE P == {n \in Nat : \A s \in SUBSET U : Cardinality(s) <= n => g[s] = h[s]}
<1>1. ASSUME NEW s \in SUBSET U
      PROVE  /\ IsFiniteSet(s) /\ Cardinality(s) \in Nat
             /\ s = {} => g[s] = h[s]
             /\ s # {} => AnyOf(s) \in s /\ g[s] = f[AnyOf(s)] + g[s \ {AnyOf(s)}]
                                        /\ h[s] = f[AnyOf(s)] + h[s \ {AnyOf(s)}]
  <2>1. IsFiniteSet(s) /\ Cardinality(s) \in Nat BY FS_Subset, FS_CardinalityType
  <2>2. s \in SUBSET S /\ s \in SUBSET T BY Zenon
  <2>3. g[s] = IF s = {} THEN 0 ELSE f[AnyOf(s)] + g[s \ {AnyOf(s)}]
    <3>1. \A x \in SUBSET S : g[x] = IF x = {} THEN 0 ELSE f[AnyOf(x)] + g[x \ {AnyOf(x)}]
      BY ONLY Adds(g, f, S), AddsValue, Zenon
    <3> QED BY ONLY <2>2, <3>1, Zenon
  <2>4. h[s] = IF s = {} THEN 0 ELSE e[AnyOf(s)] + h[s \ {AnyOf(s)}]
    <3>1. \A x \in SUBSET T : h[x] = IF x = {} THEN 0 ELSE e[AnyOf(x)] + h[x \ {AnyOf(x)}]
      BY ONLY Adds(h, e, T), AddsValue, Zenon
    <3> QED BY ONLY <2>2, <3>1, Zenon
  <2>5. s # {} => AnyOf(s) \in s BY ONLY Zenon DEF AnyOf
  <2>6. s # {} => f[AnyOf(s)] = e[AnyOf(s)] BY ONLY <2>5, s \in SUBSET U, \A x \in U : f[x] = e[x], Zenon
  <2> QED BY ONLY <2>1, <2>3, <2>4, <2>5, <2>6, Zenon
<1>2. 0 \in P
  <2>1. ASSUME NEW s \in SUBSET U, Cardinality(s) <= 0 PROVE g[s] = h[s]
    <3>1. Cardinality(s) = 0
      <4>1. Cardinality(s) \in Nat BY ONLY <1>1, s \in SUBSET U, Zenon
      <4> QED BY ONLY <4>1, <2>1, SMT
    <3>2. s = {} BY ONLY <1>1, <3>1, FS_EmptySet, Zenon
    <3> QED BY ONLY <1>1, <3>2, Zenon
  <2>2. 0 \in Nat BY SMT
  <2> QED BY ONLY <2>1, <2>2, Zenon
<1>3. ASSUME NEW n \in P PROVE n + 1 \in P
  <2>1. n \in Nat /\ n + 1 \in Nat
    <3>1. n \in Nat BY Zenon
    <3> QED BY ONLY <3>1, SMT
  <2>2. ASSUME NEW s \in SUBSET U, Cardinality(s) <= n + 1 PROVE g[s] = h[s]
    <3>1. CASE s = {} BY ONLY <1>1, <3>1, Zenon
    <3>2. CASE s # {}
      <4> DEFINE x == AnyOf(s)
      <4>1. x \in s /\ g[s] = f[x] + g[s \ {x}] /\ h[s] = f[x] + h[s \ {x}] BY ONLY <1>1, <3>2, Zenon
      <4> HIDE DEF x
      <4>2. Cardinality(s \ {x}) <= n BY ONLY <1>1, <2>1, <2>2, <4>1, TakeOut, Zenon
      <4>3. s \ {x} \in SUBSET U BY ONLY s \in SUBSET U, Zenon
      <4>4. g[s \ {x}] = h[s \ {x}] BY ONLY n \in P, <4>2, <4>3, Zenon
      <4> QED BY ONLY <4>1, <4>4, Zenon
    <3> QED BY ONLY <3>1, <3>2, Zenon
  <2> QED BY ONLY <2>1, <2>2, Zenon
<1>4. Cardinality(U) \in P
  <2> HIDE DEF P
  <2>1. P \in SUBSET Nat /\ Cardinality(U) \in Nat BY FS_CardinalityType, Zenon DEF P
  <2> QED BY ONLY <1>2, <1>3, <2>1, Climb, Zenon
<1>5. U \in SUBSET U /\ Cardinality(U) <= Cardinality(U)
  <2>1. Cardinality(U) \in Nat BY FS_CardinalityType
  <2> QED BY ONLY <2>1, SMT
<1> QED BY ONLY <1>4, <1>5, Zenon

\* The sum over a set, from that over a smaller one.
LEMMA SumOpens ==
  ASSUME NEW f, NEW S, IsFiniteSet(S)
  PROVE  /\ S = {} => SumFunctionOnSet(f, S) = 0
         /\ S # {} => /\ AnyOf(S) \in S
                      /\ SumFunctionOnSet(f, S) = f[AnyOf(S)] + SumFunctionOnSet(f, S \ {AnyOf(S)})
<1> DEFINE T == S \ {AnyOf(S)}
           g == CHOOSE x : Adds(x, f, S)
           h == CHOOSE x : Adds(x, f, T)
<1>1. IsFiniteSet(T) BY FS_Subset
<1>2. SumFunctionOnSet(f, S) = g[S] /\ SumFunctionOnSet(f, T) = h[T] BY ONLY SumIs, Zenon
<1>3. Adds(g, f, S) BY ONLY IsFiniteSet(S), AddsSomething, Zenon
<1>4. Adds(h, f, T) BY ONLY <1>1, AddsSomething, Zenon
<1>5. T \subseteq S /\ T \subseteq T /\ \A x \in T : f[x] = f[x] BY ONLY Zenon
<1> HIDE DEF g, h, T
<1>6. g[T] = h[T] BY ONLY <1>1, <1>3, <1>4, <1>5, SameSums, SMT
<1>7. g[S] = IF S = {} THEN 0 ELSE f[AnyOf(S)] + g[T]
  <2>1. S \in SUBSET S BY ONLY Zenon
  <2> QED BY ONLY <1>3, <2>1, AddsValue, Zenon DEF T
<1>8. S # {} => AnyOf(S) \in S BY ONLY Zenon DEF AnyOf
<1> QED BY ONLY <1>2, <1>6, <1>7, <1>8, Zenon DEF T

\* The sums of functions that agree are the same.
LEMMA SameTerms ==
  ASSUME NEW f, NEW e, NEW S, IsFiniteSet(S), \A x \in S : f[x] = e[x]
  PROVE  SumFunctionOnSet(f, S) = SumFunctionOnSet(e, S)
<1> DEFINE g == CHOOSE x : Adds(x, f, S)
           h == CHOOSE x : Adds(x, e, S)
<1>1. SumFunctionOnSet(f, S) = g[S] /\ SumFunctionOnSet(e, S) = h[S] BY ONLY SumIs, Zenon
<1>2. Adds(g, f, S) BY ONLY IsFiniteSet(S), AddsSomething, Zenon
<1>3. Adds(h, e, S) BY ONLY IsFiniteSet(S), AddsSomething, Zenon
<1> HIDE DEF g, h
<1>4. S \subseteq S BY ONLY Zenon
<1>5. g[S] = h[S] BY ONLY <1>2, <1>3, <1>4, IsFiniteSet(S), \A x \in S : f[x] = e[x], SameSums, SMT
<1> QED BY ONLY <1>1, <1>5, Zenon

\* Any element may be added first.
LEMMA SumWithout ==
  ASSUME NEW f, NEW S, IsFiniteSet(S), \A x \in S : f[x] \in Int
  PROVE  /\ SumFunctionOnSet(f, S) \in Int
         /\ \A x \in S : SumFunctionOnSet(f, S) = f[x] + SumFunctionOnSet(f, S \ {x})
<1> DEFINE Sum(s) == SumFunctionOnSet(f, s)
           Holds(s) == Sum(s) \in Int /\ \A x \in s : Sum(s) = f[x] + Sum(s \ {x})
           P == {n \in Nat : \A s \in SUBSET S : Cardinality(s) <= n => Holds(s)}
<1>1. ASSUME NEW s \in SUBSET S
      PROVE  /\ IsFiniteSet(s) /\ Cardinality(s) \in Nat /\ \A x \in s : f[x] \in Int
             /\ s = {} => Sum(s) = 0
             /\ s # {} => AnyOf(s) \in s /\ Sum(s) = f[AnyOf(s)] + Sum(s \ {AnyOf(s)})
  <2>1. IsFiniteSet(s) /\ Cardinality(s) \in Nat BY FS_Subset, FS_CardinalityType
  <2> QED BY <2>1, SumOpens, Zenon
<1> HIDE DEF Sum
<1>2. ASSUME NEW s \in SUBSET S, s = {} PROVE Holds(s)
  <2>1. Sum(s) = 0 BY ONLY <1>1, <1>2, Zenon
  <2>2. Sum(s) \in Int BY ONLY <2>1, SMT
  <2> QED BY ONLY <1>2, <2>2, Zenon
<1>3. 0 \in P
  <2>1. ASSUME NEW s \in SUBSET S, Cardinality(s) <= 0 PROVE Holds(s)
    <3>1. Cardinality(s) = 0
      <4>1. Cardinality(s) \in Nat BY ONLY <1>1, s \in SUBSET S, Zenon
      <4> QED BY ONLY <4>1, <2>1, SMT
    <3>2. s = {} BY ONLY <1>1, <3>1, FS_EmptySet, Zenon
    <3> HIDE DEF Holds
    <3> QED BY ONLY <1>2, <3>2, Zenon
  <2>2. 0 \in Nat BY SMT
  <2> QED BY ONLY <2>1, <2>2, Zenon
<1>4. ASSUME NEW n \in P PROVE n + 1 \in P
  <2>1. n \in Nat /\ n + 1 \in Nat
    <3>1. n \in Nat BY Zenon
    <3> QED BY ONLY <3>1, SMT
  <2>2. ASSUME NEW s \in SUBSET S, Cardinality(s) <= n + 1, s # {} PROVE Holds(s)
    <3> DEFINE c == AnyOf(s)
    <3>1. c \in s /\ Sum(s) = f[c] + Sum(s \ {c}) BY ONLY <1>1, <2>2, Zenon
    <3> HIDE DEF c
    <3>2. ASSUME NEW y \in s PROVE s \ {y} \in SUBSET S /\ Cardinality(s \ {y}) <= n /\ Holds(s \ {y}) /\ f[y] \in Int
      <4>1. Cardinality(s \ {y}) <= n BY ONLY <1>1, <2>1, <2>2, s \in SUBSET S, y \in s, TakeOut, Zenon
      <4>2. s \ {y} \in SUBSET S BY ONLY s \in SUBSET S, Zenon
      <4>3. f[y] \in Int BY ONLY <1>1, s \in SUBSET S, y \in s, Zenon
      <4> HIDE DEF Holds
      <4> QED BY ONLY n \in P, <4>1, <4>2, <4>3, Zenon
    <3>3. Sum(s) \in Int
      <4>1. f[c] \in Int /\ Sum(s \ {c}) \in Int BY ONLY <3>1, <3>2, Zenon
      <4> QED BY ONLY <3>1, <4>1, SMT
    <3>4. ASSUME NEW y \in s, y # c PROVE Sum(s) = f[y] + Sum(s \ {y})
      <4> DEFINE r == (s \ {y}) \ {c}
      <4>1. (s \ {c}) \ {y} = r BY ONLY Zenon
      <4>2. y \in s \ {c} /\ c \in s \ {y} BY ONLY <3>1, <3>4, y \in s, Zenon
      <4>3. Sum(s \ {c}) = f[y] + Sum((s \ {c}) \ {y}) BY ONLY <3>1, <3>2, <4>2, Zenon
      <4>4. Sum(s \ {y}) = f[c] + Sum(r) BY ONLY <3>2, <4>2, y \in s, Zenon
      <4>5. f[c] \in Int /\ f[y] \in Int /\ Sum(r) \in Int
        <5>1. f[c] \in Int /\ f[y] \in Int BY ONLY <3>1, <3>2, y \in s, Zenon
        <5>2. r \in SUBSET S /\ Cardinality(r) <= n
          <6>1. IsFiniteSet(s \ {y}) /\ Cardinality(s \ {y}) \in Nat /\ Cardinality(s \ {y}) <= n
            BY ONLY <1>1, <3>2, y \in s, Zenon
          <6>2. Cardinality(r) <= Cardinality(s \ {y}) /\ Cardinality(r) \in Nat
            BY ONLY <6>1, FS_Subset, FS_CardinalityType, Zenon
          <6>3. Cardinality(r) <= n BY ONLY <2>1, <6>1, <6>2, SMT
          <6> QED BY ONLY <6>3, s \in SUBSET S, Zenon
        <5> HIDE DEF r
        <5>3. Holds(r)
          <6> HIDE DEF Holds
          <6> QED BY ONLY <5>2, n \in P, Zenon
        <5> QED BY ONLY <5>1, <5>3, Zenon
      <4> DEFINE a == Sum(s \ {c})
                 b == Sum(s \ {y})
                 d == Sum(r)
                 fc == f[c]
                 fy == f[y]
                 all == Sum(s)
      <4>6. a = fy + d /\ b = fc + d /\ all = fc + a /\ fc \in Int /\ fy \in Int /\ d \in Int
        BY ONLY <3>1, <4>1, <4>3, <4>4, <4>5, Zenon
      <4> HIDE DEF a, b, d, fc, fy, all, r
      <4>7. all = fy + b BY ONLY <4>6, SMT
      <4> QED BY ONLY <4>7, Zenon DEF all, fy, b
    <3> QED BY ONLY <3>1, <3>3, <3>4, Zenon
  <2>3. ASSUME NEW s \in SUBSET S, Cardinality(s) <= n + 1 PROVE Holds(s)
    <3> HIDE DEF Holds
    <3> QED BY ONLY <1>2, <2>2, <2>3, Zenon
  <2> HIDE DEF Holds
  <2> QED BY ONLY <2>1, <2>3, Zenon
<1>5. Cardinality(S) \in P
  <2> HIDE DEF P
  <2>1. P \in SUBSET Nat /\ Cardinality(S) \in Nat BY FS_CardinalityType, Zenon DEF P
  <2> QED BY ONLY <1>3, <1>4, <2>1, Climb, Zenon
<1>6. Cardinality(S) <= Cardinality(S)
  <2>1. Cardinality(S) \in Nat BY FS_CardinalityType
  <2> QED BY ONLY <2>1, SMT
<1>7. Holds(S)
  <2> HIDE DEF Holds
  <2> QED BY ONLY <1>5, <1>6, Zenon
<1> QED BY ONLY <1>7, Zenon DEF Sum

\* Induction over the subsets of a finite set.
LEMMA Grow ==
  ASSUME NEW S, IsFiniteSet(S), NEW Q, {} \in Q,
         \A s \in SUBSET S : \A x \in s : s \ {x} \in Q => s \in Q
  PROVE  S \in Q
<1> DEFINE P == {n \in Nat : \A s \in SUBSET S : Cardinality(s) <= n => s \in Q}
<1>1. \A s \in SUBSET S : IsFiniteSet(s) /\ Cardinality(s) \in Nat BY FS_Subset, FS_CardinalityType
<1>2. 0 \in P
  <2>1. ASSUME NEW s \in SUBSET S, Cardinality(s) <= 0 PROVE s \in Q
    <3>1. IsFiniteSet(s) /\ Cardinality(s) \in Nat BY ONLY <1>1, s \in SUBSET S, Zenon
    <3>2. Cardinality(s) = 0 BY ONLY <3>1, <2>1, SMT
    <3>3. s = {} BY ONLY <3>1, <3>2, FS_EmptySet, Zenon
    <3> QED BY ONLY <3>3, {} \in Q, Zenon
  <2>2. 0 \in Nat BY SMT
  <2> QED BY ONLY <2>1, <2>2, Zenon
<1>3. ASSUME NEW n \in P PROVE n + 1 \in P
  <2>1. n \in Nat /\ n + 1 \in Nat
    <3>1. n \in Nat BY Zenon
    <3> QED BY ONLY <3>1, SMT
  <2>2. ASSUME NEW s \in SUBSET S, Cardinality(s) <= n + 1 PROVE s \in Q
    <3>1. CASE s = {} BY ONLY <3>1, {} \in Q, Zenon
    <3>2. CASE s # {}
      <4>1. PICK x \in s : TRUE BY ONLY <3>2, Zenon
      <4>2. Cardinality(s \ {x}) <= n BY ONLY <1>1, s \in SUBSET S, <2>1, <2>2, x \in s, TakeOut, Zenon
      <4>3. s \ {x} \in SUBSET S BY ONLY s \in SUBSET S, Zenon
      <4>4. s \ {x} \in Q BY ONLY n \in P, <4>2, <4>3, Zenon
      <4> QED BY ONLY <4>4, s \in SUBSET S, x \in s, \A t \in SUBSET S : \A y \in t : t \ {y} \in Q => t \in Q, Zenon
    <3> QED BY ONLY <3>1, <3>2, Zenon
  <2> QED BY ONLY <2>1, <2>2, Zenon
<1>4. Cardinality(S) \in P
  <2> HIDE DEF P
  <2>1. P \in SUBSET Nat /\ Cardinality(S) \in Nat BY FS_CardinalityType, Zenon DEF P
  <2> QED BY ONLY <1>2, <1>3, <2>1, Climb, Zenon
<1>5. S \in SUBSET S /\ Cardinality(S) <= Cardinality(S)
  <2>1. Cardinality(S) \in Nat BY FS_CardinalityType
  <2> QED BY ONLY <2>1, SMT
<1> QED BY ONLY <1>4, <1>5, Zenon

\* A function has finitely many values on a finite set.
LEMMA Images == ASSUME NEW f, NEW S, IsFiniteSet(S) PROVE IsFiniteSet({f[x] : x \in S})
<1> DEFINE Q == {s \in SUBSET S : IsFiniteSet({f[x] : x \in s})}
<1>1. {} \in Q
  <2>1. {f[x] : x \in {}} = {} BY ONLY Zenon
  <2>2. IsFiniteSet({}) BY FS_EmptySet
  <2> QED BY ONLY <2>1, <2>2, Zenon
<1>2. ASSUME NEW s \in SUBSET S, NEW x \in s, s \ {x} \in Q PROVE s \in Q
  <2>1. {f[y] : y \in s} = {f[y] : y \in s \ {x}} \union {f[x]} BY ONLY x \in s, Zenon
  <2>2. IsFiniteSet({f[y] : y \in s \ {x}}) BY ONLY <1>2, Zenon
  <2>3. IsFiniteSet({f[y] : y \in s \ {x}} \union {f[x]}) BY ONLY <2>2, FS_AddElement, Zenon
  <2> QED BY ONLY <2>1, <2>3, s \in SUBSET S, Zenon
<1>3. S \in Q
  <2> HIDE DEF Q
  <2> QED BY ONLY <1>1, <1>2, IsFiniteSet(S), Grow, Zenon
<1> QED BY ONLY <1>3, Zenon

\* A finite set of numbers has a greatest and a least.
LEMMA Extremes ==
  ASSUME NEW S \in SUBSET Int, IsFiniteSet(S), S # {}
  PROVE  (\E h \in S : \A y \in S : y <= h) /\ (\E l \in S : \A y \in S : l <= y)
<1> DEFINE Ends(s) == (\E h \in s : \A y \in s : y <= h) /\ (\E l \in s : \A y \in s : l <= y)
           Q == {s \in SUBSET S : s # {} => Ends(s)}
<1>1. {} \in Q BY ONLY Zenon
<1>2. ASSUME NEW s \in SUBSET S, NEW x \in s, s \ {x} \in Q PROVE s \in Q
  <2>1. CASE s \ {x} = {}
    <3>1. \A y \in s : y = x BY ONLY <2>1, Zenon
    <3>2. x <= x BY ONLY S \in SUBSET Int, s \in SUBSET S, x \in s, SMT
    <3>3. Ends(s) BY ONLY <3>1, <3>2, x \in s, Zenon
    <3> QED BY ONLY <3>3, s \in SUBSET S, Zenon
  <2>2. CASE s \ {x} # {}
    <3>1. Ends(s \ {x}) BY ONLY <1>2, <2>2, Zenon
    <3>2. PICK h \in s \ {x} : \A y \in s \ {x} : y <= h BY ONLY <3>1, Zenon
    <3>3. PICK l \in s \ {x} : \A y \in s \ {x} : l <= y BY ONLY <3>1, Zenon
    <3>4. s \in SUBSET Int BY ONLY S \in SUBSET Int, s \in SUBSET S, Zenon
    <3>5. \E g \in s : \A y \in s : y <= g
      <4>1. CASE x <= h
        <5>1. h \in s /\ \A y \in s : y <= h BY ONLY <3>2, <4>1, h \in s \ {x}, Zenon
        <5> QED BY ONLY <5>1, Zenon
      <4>2. CASE ~(x <= h)
        <5>1. \A y \in s : y <= x BY ONLY <3>2, <3>4, <4>2, h \in s \ {x}, x \in s, SMT
        <5> QED BY ONLY <5>1, x \in s, Zenon
      <4> QED BY ONLY <4>1, <4>2, Zenon
    <3>6. \E g \in s : \A y \in s : g <= y
      <4>1. CASE l <= x
        <5>1. l \in s /\ \A y \in s : l <= y BY ONLY <3>3, <4>1, l \in s \ {x}, Zenon
        <5> QED BY ONLY <5>1, Zenon
      <4>2. CASE ~(l <= x)
        <5>1. \A y \in s : x <= y BY ONLY <3>3, <3>4, <4>2, l \in s \ {x}, x \in s, SMT
        <5> QED BY ONLY <5>1, x \in s, Zenon
      <4> QED BY ONLY <4>1, <4>2, Zenon
    <3> QED BY ONLY <3>5, <3>6, s \in SUBSET S, Zenon
  <2> QED BY ONLY <2>1, <2>2, Zenon
<1>3. S \in Q
  <2> HIDE DEF Q
  <2> QED BY ONLY <1>1, <1>2, IsFiniteSet(S), Grow, Zenon
<1> QED BY ONLY <1>3, S # {}, Zenon

\* The sum over two sets apart.
LEMMA SumOfBoth ==
  ASSUME NEW f, NEW S, IsFiniteSet(S), \A x \in S : f[x] \in Int, NEW A \in SUBSET S, NEW B \in SUBSET (S \ A)
  PROVE  SumFunctionOnSet(f, A \union B) = SumFunctionOnSet(f, A) + SumFunctionOnSet(f, B)
<1> DEFINE Sum(s) == SumFunctionOnSet(f, s)
           Q == {b \in SUBSET B : Sum(A \union b) = Sum(A) + Sum(b)}
<1>1. ASSUME NEW s \in SUBSET S
      PROVE  /\ IsFiniteSet(s) /\ (s = {} => Sum(s) = 0)
             /\ Sum(s) \in Int /\ \A x \in s : f[x] \in Int /\ Sum(s) = f[x] + Sum(s \ {x})
  <2>1. IsFiniteSet(s) BY FS_Subset
  <2>2. \A x \in s : f[x] \in Int BY ONLY s \in SUBSET S, \A x \in S : f[x] \in Int, Zenon
  <2>3. s = {} => Sum(s) = 0 BY ONLY <2>1, SumOpens, Zenon
  <2>4. /\ SumFunctionOnSet(f, s) \in Int
        /\ \A x \in s : SumFunctionOnSet(f, s) = f[x] + SumFunctionOnSet(f, s \ {x})
    <3> HIDE DEF Sum
    <3> QED BY ONLY <2>1, <2>2, SumWithout, SMT
  <2> QED BY ONLY <2>1, <2>2, <2>3, <2>4, Zenon
<1> HIDE DEF Sum
<1>2. {} \in Q
  <2>1. A \union {} = A BY ONLY Zenon
  <2>2. Sum({}) = 0 /\ Sum(A) \in Int
    <3>1. {} \in SUBSET S BY ONLY Zenon
    <3> QED BY ONLY <1>1, <3>1, A \in SUBSET S, Zenon
  <2>3. Sum(A) = Sum(A) + Sum({}) BY ONLY <2>2, SMT
  <2> QED BY ONLY <2>1, <2>3, Zenon
<1>3. ASSUME NEW b \in SUBSET B, NEW x \in b, b \ {x} \in Q PROVE b \in Q
  <2> DEFINE r == b \ {x}
             whole == A \union b
  <2>1. whole \in SUBSET S /\ b \in SUBSET S /\ r \in SUBSET S /\ x \in whole /\ whole \ {x} = A \union r
    BY ONLY A \in SUBSET S, B \in SUBSET (S \ A), b \in SUBSET B, x \in b, Zenon
  <2>2. Sum(A \union r) = Sum(A) + Sum(r) BY ONLY <1>3, Zenon
  <2> HIDE DEF r, whole
  <2>3. Sum(whole) = f[x] + Sum(A \union r)
    <3>1. Sum(whole) = f[x] + Sum(whole \ {x}) BY ONLY <1>1, <2>1, Zenon
    <3> QED BY ONLY <2>1, <3>1, Zenon
  <2>4. Sum(b) = f[x] + Sum(r) BY ONLY <1>1, <2>1, x \in b, Zenon DEF r
  <2>5. f[x] \in Int /\ Sum(A) \in Int /\ Sum(r) \in Int BY ONLY <1>1, <2>1, A \in SUBSET S, Zenon
  <2>6. Sum(whole) = Sum(A) + Sum(b)
    <3> DEFINE a == Sum(A)
               c == Sum(r)
               fx == f[x]
    <3>1. fx \in Int /\ a \in Int /\ c \in Int /\ Sum(whole) = fx + (a + c) /\ Sum(b) = fx + c
      BY ONLY <2>2, <2>3, <2>4, <2>5, Zenon
    <3> HIDE DEF a, c, fx
    <3>2. Sum(whole) = a + Sum(b) BY ONLY <3>1, SMT
    <3> QED BY ONLY <3>2, Zenon DEF a
  <2> QED BY ONLY <2>6, b \in SUBSET B, Zenon DEF whole
<1>4. B \in Q
  <2> HIDE DEF Q
  <2>1. IsFiniteSet(B)
    <3>1. B \in SUBSET S BY ONLY B \in SUBSET (S \ A), Zenon
    <3> QED BY ONLY <1>1, <3>1, Zenon
  <2> QED BY ONLY <1>2, <1>3, <2>1, Grow, Zenon
<1> QED BY ONLY <1>4, Zenon DEF Sum

-----------------------------------------------------------------------------
(* Earnings (WsData and WsEarnings): every day holds the last close up to  *)
(* it (Held), so that a file's lines are the halves of what its reported   *)
(* days changed (Lines); by day they come to the rounded change            *)
(* (DayAddsUp), and each day adds half a cent to the error at most         *)
(* (ErrorOfDays).                                                          *)

\* Rounding to cents is half a cent off at most (quantize).
LEMMA Rounded == \A v \in Int : Cents(v) \in Int /\ 2 * (10 * Cents(v) - v) <= 10 /\ -10 <= 2 * (10 * Cents(v) - v)
BY SMT DEF Cents

\* NoCents is rounded to nothing.
LEMMA NoCents == Cents(0) = 0 BY SMT DEF Cents

\* What is kept of a day (DailyValue).
DayClose == [value : Int, deposits : Int, reported : BOOLEAN]

\* Closes as the points of a graph give them: of finitely many days, of one at least.
Closed(closes) ==
  /\ DOMAIN closes \in SUBSET Int /\ IsFiniteSet(DOMAIN closes) /\ DOMAIN closes # {}
  /\ \A d \in DOMAIN closes : closes[d] \in DayClose /\ closes[d].reported = TRUE

\* A point is the last of its day.
LastIs(points, d, i) ==
  /\ Day(points[i]) = d
  /\ \A j \in DOMAIN points :
       Day(points[j]) = d => points[j].at < points[i].at \/ (points[j].at = points[i].at /\ j <= i)

LEMMA LastOfDay ==
  ASSUME NEW points, DOMAIN points \in SUBSET Int, IsFiniteSet(DOMAIN points),
         \A i \in DOMAIN points : points[i].at \in Int, NEW k \in DOMAIN points
  PROVE  \E i \in DOMAIN points : LastIs(points, Day(points[k]), i)
<1> DEFINE I == DOMAIN points
           A == {i \in I : Day(points[i]) = Day(points[k])}
           moment == [i \in A |-> points[i].at]
           ats == {moment[i] : i \in A}
<1>1. A \in SUBSET I /\ k \in A BY ONLY k \in DOMAIN points, Zenon
<1>2. IsFiniteSet(A) /\ IsFiniteSet(ats)
  <2>1. IsFiniteSet(A) BY ONLY <1>1, IsFiniteSet(I), FS_Subset, Zenon
  <2> HIDE DEF A
  <2> QED BY ONLY <2>1, Images, Zenon
<1>3. \A i \in A : moment[i] = points[i].at /\ moment[i] \in Int BY ONLY \A i \in I : points[i].at \in Int, Zenon
<1>4. ats \in SUBSET Int /\ ats # {} BY ONLY <1>1, <1>3, Zenon
<1>5. PICK m \in ats : \A y \in ats : y <= m BY ONLY <1>2, <1>4, Extremes, Zenon
<1> DEFINE B == {i \in A : moment[i] = m}
<1>6. B \in SUBSET Int /\ B # {} /\ IsFiniteSet(B)
  <2>1. B \in SUBSET I /\ B # {} BY ONLY m \in ats, Zenon
  <2>2. IsFiniteSet(B) BY ONLY <2>1, IsFiniteSet(I), FS_Subset, Zenon
  <2>3. B \in SUBSET Int BY ONLY <2>1, I \in SUBSET Int, Zenon
  <2> QED BY ONLY <2>1, <2>2, <2>3, Zenon
<1>7. PICK i \in B : \A j \in B : j <= i
  <2> HIDE DEF B
  <2> QED BY ONLY <1>6, Extremes, Zenon
<1>8. i \in I /\ i \in A /\ moment[i] = m BY ONLY i \in B, Zenon
<1>9. ASSUME NEW j \in I, Day(points[j]) = Day(points[k])
      PROVE  points[j].at < points[i].at \/ (points[j].at = points[i].at /\ j <= i)
  <2>1. j \in A /\ moment[j] \in ats BY ONLY <1>9, Zenon
  <2>2. points[j].at = moment[j] /\ points[i].at = m /\ moment[j] \in Int /\ m \in Int /\ moment[j] <= m
    BY ONLY <1>3, <1>4, <1>5, <1>8, <2>1, Zenon
  <2>3. moment[j] = m => j <= i BY ONLY <1>7, <2>1, Zenon
  <2>4. moment[j] < m \/ moment[j] = m BY ONLY <2>2, SMT
  <2> QED BY ONLY <2>2, <2>3, <2>4, Zenon
<1> QED BY ONLY <1>8, <1>9, Zenon DEF LastIs

\* daily_closes: from points that are numbers come closes that are.
LEMMA ClosesOf ==
  ASSUME NEW points, DOMAIN points \in SUBSET Int, IsFiniteSet(DOMAIN points), DOMAIN points # {},
         \A i \in DOMAIN points : points[i].at \in Int /\ points[i].value \in Int /\ points[i].deposits \in Int
  PROVE  Closed(DailyCloses(points))
<1> DEFINE I == DOMAIN points
           c == DailyCloses(points)
           LastPoint(d) == CHOOSE i \in I : LastIs(points, d, i)
           day == [i \in I |-> Day(points[i])]
           D == {Day(points[i]) : i \in I}
           V(d) == [value |-> points[LastPoint(d)].value, deposits |-> points[LastPoint(d)].deposits, reported |-> TRUE]
<1>1. c = [d \in D |-> V(d)] BY Zenon DEF DailyCloses, LastIs
<1>2. D \in SUBSET Int /\ D # {} /\ IsFiniteSet(D)
  <2>1. \A i \in I : Day(points[i]) \in Int
    <3> TAKE i \in I
    <3>1. points[i].at \in Int BY Zenon
    <3> QED BY ONLY <3>1, SMT DEF Day
  <2>2. D = {day[i] : i \in I} BY ONLY Zenon
  <2>3. IsFiniteSet({day[i] : i \in I}) BY ONLY Images, IsFiniteSet(I), Zenon
  <2>4. D # {} BY ONLY I # {}, Zenon
  <2> QED BY ONLY <2>1, <2>2, <2>3, <2>4, Zenon
<1>3. ASSUME NEW d \in D PROVE c[d] \in DayClose /\ c[d].reported = TRUE
  <2>1. PICK k \in I : d = Day(points[k]) BY ONLY d \in D, Zenon
  <2>2. \A i \in I : points[i].at \in Int BY Zenon
  <2>3. \E i \in I : LastIs(points, d, i) BY ONLY <2>1, <2>2, DOMAIN points \in SUBSET Int, IsFiniteSet(DOMAIN points), LastOfDay, Zenon
  <2>4. LastPoint(d) \in I BY ONLY <2>3, Zenon
  <2>5. c[d] = V(d)
    <3> HIDE DEF V, D, c
    <3> QED BY ONLY <1>1, d \in D, Zenon
  <2> DEFINE l == LastPoint(d)
  <2>6. points[l].value \in Int /\ points[l].deposits \in Int BY <2>4, Zenon
  <2>7. c[d] \in DayClose /\ c[d].reported = TRUE
    <3>1. c[d] = [value |-> points[l].value, deposits |-> points[l].deposits, reported |-> TRUE] BY ONLY <2>5, Zenon
    <3> HIDE DEF l, c
    <3> QED BY ONLY <2>6, <3>1, SMT DEF DayClose
  <2> QED BY ONLY <2>7, Zenon
<1>4. DOMAIN c = D BY ONLY <1>1, Zenon
<1> QED BY ONLY <1>2, <1>3, <1>4, Zenon DEF Closed

\* The close that a day is filled from.
Upto(closes, d)     == Max({o \in DOMAIN closes : o <= d})
Previous(closes, d) == Max({o \in DOMAIN closes : o < d})

\* The days between which the graph is filled.
LEMMA Ends ==
  ASSUME NEW closes, DOMAIN closes \in SUBSET Int, IsFiniteSet(DOMAIN closes), DOMAIN closes # {}
  PROVE  /\ First(closes) \in DOMAIN closes /\ \A o \in DOMAIN closes : First(closes) <= o
         /\ Final(closes) \in DOMAIN closes /\ \A o \in DOMAIN closes : o <= Final(closes)
<1>1. (\E h \in DOMAIN closes : \A y \in DOMAIN closes : y <= h) /\ (\E l \in DOMAIN closes : \A y \in DOMAIN closes : l <= y)
  BY Extremes, Zenon
<1> QED BY ONLY <1>1, Zenon DEF First, Final

\* The greatest, as the library chooses it.
LEMMA MaxOf ==
  ASSUME NEW S \in SUBSET Int, IsFiniteSet(S), S # {}
  PROVE  Max(S) \in S /\ \A y \in S : y <= Max(S)
<1>1. PICK h \in S : \A y \in S : y <= h BY Extremes, Zenon
<1>2. \A y \in S : h >= y BY ONLY <1>1, S \in SUBSET Int, SMT
<1>3. Max(S) \in S /\ \A y \in S : Max(S) >= y BY ONLY <1>2, Zenon DEF Max
<1>4. S \in SUBSET Int BY Zenon
<1> QED BY ONLY <1>3, <1>4, SMT

LEMMA MaxIs == ASSUME NEW S \in SUBSET Int, NEW x \in S, \A y \in S : y <= x PROVE Max(S) = x
<1>1. \A y \in S : x >= y BY S \in SUBSET Int, SMT
<1>2. Max(S) \in S /\ \A y \in S : Max(S) >= y BY ONLY <1>1, x \in S, Zenon DEF Max
<1>3. Max(S) >= x /\ Max(S) <= x /\ Max(S) \in Int /\ x \in Int BY ONLY <1>2, S \in SUBSET Int, \A y \in S : y <= x, x \in S, Zenon
<1> QED BY ONLY <1>3, SMT

\* The days up to one.
LEMMA Befores ==
  ASSUME NEW closes, DOMAIN closes \in SUBSET Int, IsFiniteSet(DOMAIN closes), NEW d \in Int
  PROVE  /\ d \in DOMAIN closes => Upto(closes, d) = d
         /\ d \notin DOMAIN closes => Upto(closes, d) = Upto(closes, d - 1)
         /\ Upto(closes, d - 1) = Previous(closes, d)
         /\ (\E o \in DOMAIN closes : o < d) => Previous(closes, d) \in DOMAIN closes /\ Previous(closes, d) < d
<1> DEFINE D == DOMAIN closes
           Le == {o \in D : o <= d}
           Lt == {o \in D : o < d}
<1>1. Le \in SUBSET Int /\ Lt \in SUBSET Int BY Zenon
<1>2. {o \in D : o <= d - 1} = Lt BY ONLY D \in SUBSET Int, d \in Int, SMT
<1>3. d \notin D => Le = Lt BY ONLY D \in SUBSET Int, d \in Int, SMT
<1>4. d \in D => Max(Le) = d
  <2>1. ASSUME d \in D PROVE d \in Le /\ \A y \in Le : y <= d
    <3>1. d <= d BY SMT
    <3> QED BY ONLY <3>1, <2>1, Zenon
  <2> HIDE DEF Le
  <2> QED BY ONLY <1>1, <2>1, MaxIs, Zenon
<1>5. ASSUME \E o \in D : o < d PROVE Max(Lt) \in D /\ Max(Lt) < d
  <2>1. Lt # {} /\ Lt \in SUBSET D BY ONLY <1>5, Zenon
  <2>2. IsFiniteSet(Lt) BY ONLY <2>1, IsFiniteSet(D), FS_Subset, Zenon
  <2>3. Max(Lt) \in Lt
    <3> HIDE DEF Lt
    <3> QED BY ONLY <1>1, <2>1, <2>2, MaxOf, Zenon
  <2> QED BY ONLY <2>3, Zenon
<1> QED BY ONLY <1>2, <1>3, <1>4, <1>5, Zenon DEF Upto, Previous

\* What a day without a report gets of the day before.
Unreported(close) == [close EXCEPT !.reported = FALSE]

LEMMA UnreportedHas ==
  \A r \in DayClose : /\ Unreported(Unreported(r)) = Unreported(r)
                   /\ Unreported(r).value = r.value /\ Unreported(r).deposits = r.deposits
<1> TAKE r \in DayClose
<1>1. Unreported(Unreported(r)) = Unreported(r) BY ONLY Zenon DEF Unreported
<1>2. Unreported(r).value = r.value /\ Unreported(r).deposits = r.deposits BY SMT DEF Unreported, DayClose
<1> QED BY ONLY <1>1, <1>2, Zenon

\* As the code fills the days, each from the day before.
Filling(filled, closes) ==
  filled = [d \in First(closes) .. Final(closes) |-> IF d \in DOMAIN closes THEN closes[d] ELSE Unreported(filled[d - 1])]

\* A day has the last close up to it.
Held(closes, d) == IF d \in DOMAIN closes THEN closes[d] ELSE Unreported(closes[Upto(closes, d)])

\* So has every day its close, in agreement with the day before.
LEMMA HeldFrom ==
  ASSUME NEW closes, Closed(closes), NEW d \in First(closes) .. Final(closes)
  PROVE  /\ d \notin DOMAIN closes => d - 1 \in First(closes) .. Final(closes) /\ Held(closes, d) = Unreported(Held(closes, d - 1))
         /\ Upto(closes, d) \in DOMAIN closes
         /\ Held(closes, d).value = closes[Upto(closes, d)].value /\ Held(closes, d).deposits = closes[Upto(closes, d)].deposits
<1> DEFINE D == DOMAIN closes
           a == First(closes)
           z == Final(closes)
<1>1. D \in SUBSET Int /\ IsFiniteSet(D) /\ D # {} /\ \A o \in D : closes[o] \in DayClose BY Zenon DEF Closed
<1>2. a \in D /\ z \in D /\ (\A o \in D : a <= o) /\ \A o \in D : o <= z BY ONLY <1>1, Ends, Zenon
<1>3. a \in Int /\ z \in Int BY ONLY <1>1, <1>2, Zenon
<1>4. d \in a .. z BY Zenon
<1> HIDE DEF a, z, D
<1>5. d \in Int /\ d - 1 \in Int /\ a <= d /\ (d # a => a < d /\ d - 1 \in a .. z) BY ONLY <1>3, <1>4, SMT
<1>6. /\ d \in D => Upto(closes, d) = d
      /\ d \notin D => Upto(closes, d) = Upto(closes, d - 1)
      /\ Upto(closes, d - 1) = Previous(closes, d)
      /\ (\E o \in D : o < d) => Previous(closes, d) \in D
  BY ONLY <1>1, <1>5, Befores, Zenon DEF D
<1>7. d - 1 \in D => Upto(closes, d - 1) = d - 1 BY ONLY <1>1, <1>5, Befores, Zenon DEF D
<1>8. Upto(closes, d) \in D
  <2>1. CASE d \in D BY ONLY <1>6, <2>1, Zenon
  <2>2. CASE d \notin D BY ONLY <1>2, <1>5, <1>6, <2>2, Zenon
  <2> QED BY ONLY <2>1, <2>2, Zenon
<1>9. ASSUME d \notin D PROVE d - 1 \in a .. z /\ Held(closes, d) = Unreported(Held(closes, d - 1))
  <2>1. d - 1 \in a .. z BY ONLY <1>2, <1>5, <1>9, Zenon
  <2>2. Held(closes, d) = Unreported(closes[Upto(closes, d - 1)]) BY ONLY <1>6, <1>9, Zenon DEF Held, D
  <2>3. CASE d - 1 \in D
    <3>1. Held(closes, d - 1) = closes[Upto(closes, d - 1)] BY ONLY <1>7, <2>3, Zenon DEF Held, D
    <3> QED BY ONLY <2>1, <2>2, <3>1, Zenon
  <2>4. CASE d - 1 \notin D
    <3>1. Held(closes, d - 1) = Unreported(closes[Upto(closes, d - 1)]) BY ONLY <2>4, Zenon DEF Held, D
    <3>2. closes[Upto(closes, d - 1)] \in DayClose BY ONLY <1>1, <1>6, <1>8, <1>9, Zenon
    <3> QED BY ONLY <2>1, <2>2, <3>1, <3>2, UnreportedHas, Zenon
  <2> QED BY ONLY <2>3, <2>4, Zenon
<1>10. Held(closes, d).value = closes[Upto(closes, d)].value /\ Held(closes, d).deposits = closes[Upto(closes, d)].deposits
  <2>1. CASE d \in D BY ONLY <1>6, <2>1, Zenon DEF Held, D
  <2>2. CASE d \notin D
    <3>1. closes[Upto(closes, d)] \in DayClose BY ONLY <1>1, <1>8, Zenon
    <3>2. Held(closes, d) = Unreported(closes[Upto(closes, d)]) BY ONLY <2>2, Zenon DEF Held, D
    <3> QED BY ONLY <3>1, <3>2, UnreportedHas, Zenon
  <2> QED BY ONLY <2>1, <2>2, Zenon
<1> QED BY ONLY <1>8, <1>9, <1>10, Zenon DEF D, a, z

\* fill_missing_days gives each day what it holds.
LEMMA FillsOnce ==
  ASSUME NEW closes, Closed(closes)
  PROVE  /\ DOMAIN FillMissingDays(closes) = First(closes) .. Final(closes)
         /\ \A d \in First(closes) .. Final(closes) : FillMissingDays(closes)[d] = Held(closes, d)
<1> DEFINE D == DOMAIN closes
           a == First(closes)
           z == Final(closes)
           g == [d \in a .. z |-> Held(closes, d)]
           h == FillMissingDays(closes)
           V(f, d) == IF d \in DOMAIN closes THEN closes[d] ELSE Unreported(f[d - 1])
<1>1. h = CHOOSE f : Filling(f, closes) BY ONLY Zenon DEF FillMissingDays, Filling, Unreported
<1>2. ASSUME NEW d \in a .. z PROVE d \notin D => d - 1 \in a .. z /\ Held(closes, d) = Unreported(Held(closes, d - 1))
  BY HeldFrom, Zenon
<1>3. ASSUME NEW d \in a .. z PROVE g[d] = V(g, d)
  <2>1. g[d] = Held(closes, d) BY ONLY d \in a .. z, Zenon
  <2>2. CASE d \in D
    <3> HIDE DEF g
    <3> QED BY ONLY <2>1, <2>2, Zenon DEF Held
  <2>3. CASE d \notin D
    <3>1. g[d - 1] = Held(closes, d - 1) BY ONLY <1>2, <2>3, Zenon
    <3> HIDE DEF g
    <3> QED BY ONLY <1>2, <2>1, <2>3, <3>1, Zenon
  <2> QED BY ONLY <2>2, <2>3, Zenon
<1>4. Filling(g, closes)
  <2>1. \A d \in a .. z : Held(closes, d) = V(g, d)
    <3> TAKE d \in a .. z
    <3>1. g[d] = Held(closes, d) BY ONLY d \in a .. z, Zenon
    <3> HIDE DEF g, V
    <3> QED BY ONLY <1>3, <3>1, Zenon
  <2>2. g = [d \in a .. z |-> V(g, d)]
    <3> DEFINE G(d) == V(g, d)
               H(d) == Held(closes, d)
    <3>1. \A d \in a .. z : H(d) = G(d) BY ONLY <2>1, Zenon
    <3>2. g = [d \in a .. z |-> H(d)] BY ONLY Zenon
    <3> HIDE DEF G, H, g
    <3>3. g = [d \in a .. z |-> G(d)] BY ONLY <3>1, <3>2, SMT
    <3> QED BY ONLY <3>3, Zenon DEF G
  <2> HIDE DEF g
  <2> QED BY ONLY <2>2, Zenon DEF Filling
<1>5. Filling(h, closes) BY ONLY <1>1, <1>4, Zenon
<1> HIDE DEF h, g
<1>6. DOMAIN h = a .. z /\ \A d \in a .. z : h[d] = V(h, d)
  <2> DEFINE W(d) == V(h, d)
  <2>1. h = [d \in a .. z |-> W(d)] BY ONLY <1>5, Zenon DEF Filling
  <2> HIDE DEF W
  <2>2. DOMAIN h = a .. z /\ \A d \in a .. z : h[d] = W(d) BY ONLY <2>1, SMT
  <2> QED BY ONLY <2>2, Zenon DEF W
<1>7. a \in D /\ a \in Int /\ z \in Int
  <2>1. D \in SUBSET Int /\ IsFiniteSet(D) /\ D # {} BY Zenon DEF Closed
  <2>2. a \in D /\ z \in D BY ONLY <2>1, Ends, Zenon
  <2> QED BY ONLY <2>1, <2>2, Zenon
<1> DEFINE P == {n \in Nat : a + n <= z => h[a + n] = Held(closes, a + n)}
<1>8. 0 \in P
  <2>1. a + 0 = a /\ 0 \in Nat /\ a \in a .. a BY ONLY <1>7, SMT
  <2>2. ASSUME a + 0 <= z PROVE h[a] = Held(closes, a)
    <3>1. a \in a .. z BY ONLY <1>7, <2>2, SMT
    <3>2. h[a] = V(h, a) BY ONLY <1>6, <3>1, Zenon
    <3> QED BY ONLY <1>7, <3>2, Zenon DEF Held
  <2> QED BY ONLY <2>1, <2>2, Zenon
<1>9. ASSUME NEW n \in P PROVE n + 1 \in P
  <2>1. n \in Nat BY Zenon
  <2> DEFINE d == a + (n + 1)
  <2>2. n + 1 \in Nat /\ d - 1 = a + n BY ONLY <1>7, <2>1, SMT
  <2>3. ASSUME d <= z PROVE h[d] = Held(closes, d)
    <3>1. d \in a .. z /\ a + n <= z BY ONLY <1>7, <2>1, <2>3, SMT
    <3>2. h[a + n] = Held(closes, a + n) BY ONLY <3>1, n \in P, Zenon
    <3> HIDE DEF d
    <3>3. h[d] = V(h, d) BY ONLY <1>6, <3>1, Zenon
    <3>4. CASE d \in D BY ONLY <3>3, <3>4, Zenon DEF Held
    <3>5. CASE d \notin D
      <4>1. h[d] = Unreported(h[d - 1]) BY ONLY <3>3, <3>5, Zenon
      <4>2. Held(closes, d) = Unreported(Held(closes, d - 1)) BY ONLY <1>2, <3>1, <3>5, Zenon
      <4> QED BY ONLY <2>2, <3>2, <4>1, <4>2, Zenon
    <3> QED BY ONLY <3>4, <3>5, Zenon
  <2> HIDE DEF P
  <2> QED BY ONLY <2>2, <2>3, Zenon DEF P
<1>10. ASSUME NEW d \in a .. z PROVE h[d] = Held(closes, d)
  <2>1. d - a \in Nat /\ a + (d - a) = d /\ a + (d - a) <= z BY ONLY <1>7, d \in a .. z, SMT
  <2>2. d - a \in P
    <3> HIDE DEF P
    <3>1. P \in SUBSET Nat BY ONLY Zenon DEF P
    <3> QED BY ONLY <1>8, <1>9, <2>1, <3>1, Climb, Zenon
  <2>3. h[a + (d - a)] = Held(closes, a + (d - a)) BY ONLY <2>1, <2>2, Zenon
  <2> QED BY ONLY <2>1, <2>3, Zenon
<1> QED BY ONLY <1>6, <1>10, Zenon DEF h

\* The halves of what a day changed.
Deposit(closes, d) == Line(d, "deposit", Cents(Change(closes, d, "deposits")), TRUE)
Earning(closes, d) == Line(d, "earning", Cents(Change(closes, d, "value")) - Cents(Change(closes, d, "deposits")), TRUE)

\* Their fields.
LEMMA HalvesHave ==
  ASSUME NEW closes, NEW d
  PROVE  /\ Deposit(closes, d).day = d /\ Deposit(closes, d).entry_type = "deposit"
         /\ Deposit(closes, d).amount = Cents(Change(closes, d, "deposits"))
         /\ Earning(closes, d).day = d /\ Earning(closes, d).entry_type = "earning"
         /\ Earning(closes, d).amount = Cents(Change(closes, d, "value")) - Cents(Change(closes, d, "deposits"))
<1> DEFINE p == Cents(Change(closes, d, "deposits"))
           e == Cents(Change(closes, d, "value")) - p
<1> HIDE DEF p, e
<1>1. Line(d, "deposit", p, TRUE).day = d /\ Line(d, "deposit", p, TRUE).entry_type = "deposit" /\ Line(d, "deposit", p, TRUE).amount = p
  BY ONLY SMT DEF Line
<1>2. Line(d, "earning", e, TRUE).day = d /\ Line(d, "earning", e, TRUE).entry_type = "earning" /\ Line(d, "earning", e, TRUE).amount = e
  BY ONLY SMT DEF Line
<1>3. Deposit(closes, d) = Line(d, "deposit", p, TRUE) /\ Earning(closes, d) = Line(d, "earning", e, TRUE)
  BY ONLY Zenon DEF Deposit, Earning, p, e
<1> QED BY ONLY <1>1, <1>2, <1>3, Zenon DEF p, e

\* The reported days of a window.
DaysIn(closes, since, until) == {d \in DOMAIN closes : since <= d /\ d <= until}

\* A filled day changed nothing; a reported one what is gone since the last.
LEMMA Changes ==
  ASSUME NEW closes, Closed(closes), NEW d \in First(closes) .. Final(closes), d # First(closes)
  PROVE  LET filled == FillMissingDays(closes)
             p == Deposited(filled[d], filled[d - 1])
             e == Earned(filled[d], filled[d - 1])
         IN /\ d \notin DOMAIN closes => p = 0 /\ e = 0
            /\ d \in DOMAIN closes => /\ filled[d].reported = TRUE
                                      /\ p = Cents(Change(closes, d, "deposits"))
                                      /\ e = Cents(Change(closes, d, "value")) - p
<1> DEFINE D == DOMAIN closes
           a == First(closes)
           z == Final(closes)
           f == FillMissingDays(closes)
           u == Upto(closes, d)
           v == Previous(closes, d)
<1>1. D \in SUBSET Int /\ IsFiniteSet(D) /\ D # {} /\ \A o \in D : closes[o] \in DayClose /\ closes[o].reported = TRUE BY Zenon DEF Closed
<1>2. a \in D /\ z \in D BY ONLY <1>1, Ends, Zenon
<1>3. d \in Int /\ a < d /\ d - 1 \in a .. z
  <2>1. a \in Int /\ z \in Int BY ONLY <1>1, <1>2, Zenon
  <2>2. d \in a .. z /\ d # a BY Zenon
  <2> HIDE DEF a, z
  <2> QED BY ONLY <2>1, <2>2, SMT
<1>4. /\ d \in D => u = d
      /\ d \notin D => u = Upto(closes, d - 1)
      /\ Upto(closes, d - 1) = v
      /\ v \in D
  BY ONLY <1>1, <1>2, <1>3, Befores, Zenon
<1>5. u \in D /\ f[d] = Held(closes, d) /\ f[d].value = closes[u].value /\ f[d].deposits = closes[u].deposits
  <2>1. f[d] = Held(closes, d) BY FillsOnce, Zenon
  <2>2. u \in D /\ Held(closes, d).value = closes[u].value /\ Held(closes, d).deposits = closes[u].deposits BY HeldFrom, Zenon
  <2> HIDE DEF f, u
  <2> QED BY ONLY <2>1, <2>2, Zenon
<1>6. f[d - 1].value = closes[v].value /\ f[d - 1].deposits = closes[v].deposits
  <2>1. f[d - 1] = Held(closes, d - 1) BY <1>3, FillsOnce, Zenon
  <2>2. /\ Held(closes, d - 1).value = closes[Upto(closes, d - 1)].value
        /\ Held(closes, d - 1).deposits = closes[Upto(closes, d - 1)].deposits
    BY <1>3, HeldFrom, Zenon
  <2> HIDE DEF f, v
  <2> QED BY ONLY <1>4, <2>1, <2>2, Zenon
<1>7. \A o \in D : closes[o].value \in Int /\ closes[o].deposits \in Int
  <2>1. \A r \in DayClose : r.value \in Int /\ r.deposits \in Int BY SMT DEF DayClose
  <2> QED BY ONLY <1>1, <2>1, Zenon
<1> DEFINE p == Deposited(f[d], f[d - 1])
           e == Earned(f[d], f[d - 1])
<1>8. p = Cents(closes[u].deposits - closes[v].deposits) /\ e = Cents(closes[u].value - closes[v].value) - p
  BY ONLY <1>5, <1>6, Zenon DEF Deposited, Earned
<1> HIDE DEF p, e, u, v, f
<1>9. ASSUME d \notin D PROVE p = 0 /\ e = 0
  <2>1. u = v BY ONLY <1>4, <1>9, Zenon
  <2>2. closes[v].value \in Int /\ closes[v].deposits \in Int BY ONLY <1>4, <1>7, Zenon
  <2>3. closes[u].value - closes[v].value = 0 /\ closes[u].deposits - closes[v].deposits = 0 BY ONLY <2>1, <2>2, SMT
  <2>4. p = 0 /\ e = 0 - 0 BY ONLY <1>8, <2>3, NoCents, Zenon
  <2> QED BY ONLY <2>4, SMT
<1>10. ASSUME d \in D
       PROVE  /\ f[d].reported = TRUE /\ p = Cents(Change(closes, d, "deposits"))
              /\ e = Cents(Change(closes, d, "value")) - p
  <2>1. u = d BY ONLY <1>4, <1>10, Zenon
  <2>2. f[d] = closes[d] BY ONLY <1>5, <1>10, Zenon DEF Held
  <2>3. f[d].reported = TRUE BY ONLY <1>1, <1>10, <2>2, Zenon
  <2>4. Change(closes, d, "deposits") = closes[d].deposits - closes[v].deposits BY ONLY d # First(closes), Zenon DEF Change, v, Previous
  <2>5. Change(closes, d, "value") = closes[d].value - closes[v].value BY ONLY d # First(closes), Zenon DEF Change, v, Previous
  <2> QED BY ONLY <1>8, <2>1, <2>3, <2>4, <2>5, Zenon
<1> QED BY ONLY <1>9, <1>10, Zenon DEF p, e, f

\* The lines of a file are the halves of what its days changed, but for those that came to nothing.
LEMMA Lines ==
  ASSUME NEW closes, Closed(closes), NEW since, NEW until, NEW l
  PROVE  l \in FilterRows(BuildEarningsRows(FillMissingDays(closes)), since, until)
           <=> /\ l.amount # 0
               /\ \E d \in DaysIn(closes, since, until) \ {First(closes)} : l \in {Deposit(closes, d), Earning(closes, d)}
<1> DEFINE f == FillMissingDays(closes)
           R == FilterRows(BuildEarningsRows(f), since, until)
           D == DOMAIN closes
           a == First(closes)
           z == Final(closes)
           N == DaysIn(closes, since, until) \ {a}
           P(d) == Deposited(f[d], f[d - 1])
           E(d) == Earned(f[d], f[d - 1])
           Halves(d) == {Line(d, "deposit", P(d), f[d].reported), Line(d, "earning", E(d), f[d].reported)}
<1>1. D \in SUBSET Int /\ IsFiniteSet(D) /\ D # {} BY Zenon DEF Closed
<1>2. a \in D /\ z \in D /\ (\A o \in D : a <= o) /\ \A o \in D : o <= z BY ONLY <1>1, Ends, Zenon
<1>3. D \in SUBSET (a .. z)
  <2>1. a \in Int /\ z \in Int BY ONLY <1>1, <1>2, Zenon
  <2> HIDE DEF a, z, D
  <2> QED BY ONLY <1>1, <1>2, <2>1, SMT
<1>4. DOMAIN f = a .. z BY FillsOnce, Zenon
<1>5. First(f) = a
  <2>1. a \in Int /\ z \in Int BY ONLY <1>1, <1>2, Zenon
  <2>2. a <= z BY ONLY <1>2, Zenon
  <2>3. First(f) = CHOOSE d \in a .. z : \A o \in a .. z : d <= o BY ONLY <1>4, Zenon DEF First
  <2> HIDE DEF a, z
  <2>4. a \in a .. z /\ \A o \in a .. z : a <= o BY ONLY <2>1, <2>2, SMT
  <2>5. \A d \in a .. z : (\A o \in a .. z : d <= o) => d = a BY ONLY <2>1, <2>4, SMT
  <2> HIDE DEF f
  <2> QED BY ONLY <2>3, <2>4, <2>5, Zenon
<1>6. l \in R <=> /\ l.amount # 0 /\ since <= l.day /\ l.day <= until
                  /\ \E d \in (a .. z) \ {a} : l \in Halves(d)
  <2> DEFINE Built == {k \in UNION {Halves(d) : d \in DOMAIN f \ {First(f)}} : k.amount # 0}
  <2>1. BuildEarningsRows(f) = Built BY ONLY Zenon DEF BuildEarningsRows
  <2>2. R = {k \in Built : since <= k.day /\ k.day <= until} BY ONLY <2>1, Zenon DEF FilterRows
  <2>3. l \in Built <=> l.amount # 0 /\ \E d \in (a .. z) \ {a} : l \in Halves(d)
    <3> HIDE DEF Halves, f, a, z
    <3> QED BY ONLY <1>4, <1>5, Zenon
  <2> HIDE DEF Built, Halves, R, a, z
  <2> QED BY ONLY <2>2, <2>3, Zenon
<1>7. ASSUME NEW d \in (a .. z) \ {a}
      PROVE  /\ d \notin D => P(d) = 0 /\ E(d) = 0
             /\ d \in D => Halves(d) = {Deposit(closes, d), Earning(closes, d)}
  <2>1. d \in First(closes) .. Final(closes) /\ d # First(closes) BY Zenon
  <2>2. d \notin D => P(d) = 0 /\ E(d) = 0 BY <2>1, Changes, Zenon
  <2>3. d \in D => /\ f[d].reported = TRUE /\ P(d) = Cents(Change(closes, d, "deposits"))
                   /\ E(d) = Cents(Change(closes, d, "value")) - P(d)
    BY <2>1, Changes, Zenon
  <2> HIDE DEF P, E, f
  <2>4. d \in D => Halves(d) = {Deposit(closes, d), Earning(closes, d)} BY ONLY <2>3, Zenon DEF Deposit, Earning
  <2> QED BY ONLY <2>2, <2>4, Zenon
<1>8. ASSUME NEW d, l \in Halves(d) PROVE l.day = d /\ (l.amount = P(d) \/ l.amount = E(d))
  <2> DEFINE r == f[d].reported
             p == P(d)
             e == E(d)
  <2>1. l = Line(d, "deposit", p, r) \/ l = Line(d, "earning", e, r) BY ONLY <1>8, Zenon
  <2> HIDE DEF p, e, r
  <2>2. Line(d, "deposit", p, r).day = d /\ Line(d, "deposit", p, r).amount = p BY ONLY SMT DEF Line
  <2>3. Line(d, "earning", e, r).day = d /\ Line(d, "earning", e, r).amount = e BY ONLY SMT DEF Line
  <2>4. l.day = d /\ (l.amount = p \/ l.amount = e) BY ONLY <2>1, <2>2, <2>3, Zenon
  <2> QED BY ONLY <2>4, Zenon DEF p, e
<1>9. ASSUME NEW d, l \in {Deposit(closes, d), Earning(closes, d)} PROVE l.day = d
  <2>1. Deposit(closes, d).day = d /\ Earning(closes, d).day = d BY ONLY HalvesHave
  <2>2. l = Deposit(closes, d) \/ l = Earning(closes, d) BY ONLY <1>9, Zenon
  <2> QED BY ONLY <2>1, <2>2, Zenon
<1>10. ASSUME l \in R PROVE l.amount # 0 /\ \E d \in N : l \in {Deposit(closes, d), Earning(closes, d)}
  <2>1. PICK d \in (a .. z) \ {a} : l \in Halves(d) BY ONLY <1>6, <1>10, Zenon
  <2>2. l.amount # 0 /\ since <= l.day /\ l.day <= until BY ONLY <1>6, <1>10, Zenon
  <2> HIDE DEF Halves, P, E
  <2>3. l.day = d /\ (l.amount = P(d) \/ l.amount = E(d)) BY ONLY <1>8, <2>1, Zenon
  <2>4. d \in D BY ONLY <1>7, <2>2, <2>3, d \in (a .. z) \ {a}, Zenon
  <2>5. d \in N BY ONLY <2>2, <2>3, <2>4, d \in (a .. z) \ {a}, Zenon DEF DaysIn
  <2>6. l \in {Deposit(closes, d), Earning(closes, d)} BY ONLY <1>7, <2>1, <2>4, d \in (a .. z) \ {a}, Zenon
  <2> QED BY ONLY <2>2, <2>5, <2>6, Zenon
<1>11. ASSUME l.amount # 0, NEW d \in N, l \in {Deposit(closes, d), Earning(closes, d)} PROVE l \in R
  <2>1. d \in D /\ d # a /\ since <= d /\ d <= until BY ONLY d \in N, Zenon DEF DaysIn
  <2>2. d \in (a .. z) \ {a} BY ONLY <1>3, <2>1, Zenon
  <2>3. l.day = d
    <3>1. l \in {Deposit(closes, d), Earning(closes, d)} BY <1>11
    <3> QED BY ONLY <1>9, <3>1
  <2> HIDE DEF Halves, P, E
  <2>4. l \in Halves(d) BY ONLY <1>7, <1>11, <2>1, <2>2, Zenon
  <2> HIDE DEF R
  <2> QED BY ONLY <1>6, <1>11, <2>1, <2>2, <2>3, <2>4, Zenon
<1> HIDE DEF N, R
<1> QED BY ONLY <1>10, <1>11, Zenon DEF N, R

\* What a day changed is a number.
LEMMA ChangesAreNumbers ==
  ASSUME NEW closes, Closed(closes), NEW d \in DOMAIN closes
  PROVE  Change(closes, d, "value") \in Int /\ Change(closes, d, "deposits") \in Int
<1> DEFINE D == DOMAIN closes
           v == Previous(closes, d)
<1>1. D \in SUBSET Int /\ IsFiniteSet(D) /\ D # {} /\ \A o \in D : closes[o] \in DayClose BY Zenon DEF Closed
<1>2. First(closes) \in D /\ \A o \in D : First(closes) <= o BY ONLY <1>1, Ends, Zenon
<1>3. \A o \in D : closes[o].value \in Int /\ closes[o].deposits \in Int
  <2>1. \A r \in DayClose : r.value \in Int /\ r.deposits \in Int BY SMT DEF DayClose
  <2> QED BY ONLY <1>1, <2>1, Zenon
<1>4. CASE d = First(closes)
  <2>1. Change(closes, d, "value") = 0 /\ Change(closes, d, "deposits") = 0 BY ONLY <1>4, Zenon DEF Change
  <2>2. 0 \in Int BY ONLY SMT
  <2> QED BY ONLY <2>1, <2>2, Zenon
<1>5. CASE d # First(closes)
  <2>1. d \in Int /\ First(closes) \in Int /\ First(closes) <= d BY ONLY <1>1, <1>2, d \in D, Zenon
  <2>2. First(closes) < d BY ONLY <2>1, <1>5, SMT
  <2>3. v \in D BY ONLY <1>1, <1>2, <2>1, <2>2, Befores, Zenon
  <2>4. Change(closes, d, "deposits") = closes[d].deposits - closes[v].deposits BY ONLY <1>5, Zenon DEF Change, Previous
  <2>5. Change(closes, d, "value") = closes[d].value - closes[v].value BY ONLY <1>5, Zenon DEF Change, Previous
  <2>6. closes[d].value \in Int /\ closes[v].value \in Int /\ closes[d].deposits \in Int /\ closes[v].deposits \in Int
    BY ONLY <1>3, <2>3, d \in D, Zenon
  <2> QED BY ONLY <2>4, <2>5, <2>6, SMT
<1> QED BY ONLY <1>4, <1>5, Zenon

\* The sum of some lines of a file, as a sum over the file's amounts.
LEMMA SumOfIs ==
  ASSUME NEW R, IsFiniteSet(R), NEW L \in SUBSET R
  PROVE  SumOf(L) = SumFunctionOnSet([l \in R |-> l.amount], L)
<1> DEFINE f == [l \in L |-> l.amount]
           g == [l \in R |-> l.amount]
<1>1. SumOf(L) = SumFunctionOnSet(f, L) BY ONLY Zenon DEF SumOf, SumFunction
<1>2. \A l \in L : f[l] = g[l]
  <2> TAKE l \in L
  <2>1. l \in R BY ONLY L \in SUBSET R, l \in L, Zenon
  <2>2. f[l] = l.amount BY ONLY l \in L, Zenon
  <2>3. g[l] = l.amount BY ONLY <2>1, Zenon
  <2> HIDE DEF f, g
  <2> QED BY ONLY <2>2, <2>3, Zenon
<1>3. IsFiniteSet(L) BY FS_Subset
<1> HIDE DEF f, g
<1>4. SumFunctionOnSet(f, L) = SumFunctionOnSet(g, L) BY ONLY <1>2, <1>3, SameTerms, Zenon
<1> QED BY ONLY <1>1, <1>4, Zenon DEF g

\* The sum of one.
LEMMA SumOfOne ==
  ASSUME NEW f, NEW x, f[x] \in Int
  PROVE  SumFunctionOnSet(f, {}) = 0 /\ SumFunctionOnSet(f, {x}) = f[x]
<1>1. IsFiniteSet({}) /\ IsFiniteSet({x}) BY FS_EmptySet, FS_Singleton
<1>2. SumFunctionOnSet(f, {}) = 0 BY ONLY <1>1, SumOpens, Zenon
<1>3. \A y \in {x} : f[y] \in Int BY Zenon
<1>4. SumFunctionOnSet(f, {x}) = f[x] + SumFunctionOnSet(f, {x} \ {x})
  <2>1. x \in {x} BY ONLY Zenon
  <2> QED BY ONLY <1>1, <1>3, <2>1, SumWithout, Zenon
<1>5. {x} \ {x} = {} BY ONLY Zenon
<1>6. SumFunctionOnSet(f, {x}) = f[x] + 0 BY ONLY <1>2, <1>4, <1>5, Zenon
<1>7. f[x] + 0 = f[x] BY ONLY f[x] \in Int, SMT
<1> QED BY ONLY <1>2, <1>6, <1>7, Zenon

\* The lines of a file, and its days.
FileOf(closes, since, until) == FilterRows(BuildEarningsRows(FillMissingDays(closes)), since, until)

\* A file has finitely many lines, each of a day reported after the first.
LEMMA FileIsFinite ==
  ASSUME NEW closes, Closed(closes), NEW since, NEW until
  PROVE  /\ IsFiniteSet(DaysIn(closes, since, until)) /\ DaysIn(closes, since, until) \subseteq DOMAIN closes
         /\ IsFiniteSet(FileOf(closes, since, until))
         /\ \A l \in FileOf(closes, since, until) : l.amount \in Int /\ l.day \in DaysIn(closes, since, until) \ {First(closes)}
<1> DEFINE D == DOMAIN closes
           N == DaysIn(closes, since, until)
           R == FileOf(closes, since, until)
           p == [d \in N |-> Deposit(closes, d)]
           e == [d \in N |-> Earning(closes, d)]
           both == {p[d] : d \in N} \union {e[d] : d \in N}
<1>1. N \in SUBSET D BY Zenon DEF DaysIn
<1>2. IsFiniteSet(N)
  <2>1. IsFiniteSet(D) BY Zenon DEF Closed
  <2> HIDE DEF N, D
  <2> QED BY ONLY <1>1, <2>1, FS_Subset, Zenon
<1> HIDE DEF N
<1>3. ASSUME NEW l \in R PROVE l.amount \in Int /\ l.day \in N \ {First(closes)} /\ l \in both
  <2>1. PICK d \in N \ {First(closes)} : l \in {Deposit(closes, d), Earning(closes, d)} BY l \in R, Lines, Zenon DEF FileOf, N
  <2>2. d \in N /\ d \in D BY ONLY <1>1, d \in N \ {First(closes)}, Zenon
  <2>3. p[d] = Deposit(closes, d) /\ e[d] = Earning(closes, d) BY ONLY <2>2, Zenon
  <2>4. l \in both
    <3> HIDE DEF p, e
    <3> QED BY ONLY <2>1, <2>2, <2>3, Zenon
  <2>5. /\ Deposit(closes, d).day = d /\ Deposit(closes, d).amount = Cents(Change(closes, d, "deposits"))
        /\ Earning(closes, d).day = d
        /\ Earning(closes, d).amount = Cents(Change(closes, d, "value")) - Cents(Change(closes, d, "deposits"))
    BY ONLY HalvesHave
  <2>6. Cents(Change(closes, d, "deposits")) \in Int /\ Cents(Change(closes, d, "value")) \in Int
    <3>1. Change(closes, d, "value") \in Int /\ Change(closes, d, "deposits") \in Int BY <2>2, ChangesAreNumbers, Zenon
    <3> QED BY ONLY <3>1, Rounded, Zenon
  <2> DEFINE cp == Cents(Change(closes, d, "deposits"))
             cv == Cents(Change(closes, d, "value"))
  <2>7. cv - cp \in Int
    <3>1. cv \in Int /\ cp \in Int BY ONLY <2>6, Zenon
    <3> HIDE DEF cv, cp
    <3> QED BY ONLY <3>1, SMT
  <2>8. l = Deposit(closes, d) \/ l = Earning(closes, d) BY ONLY <2>1, Zenon
  <2>9. l.day = d /\ l.amount \in Int BY ONLY <2>5, <2>6, <2>7, <2>8, Zenon
  <2> QED BY ONLY <2>1, <2>4, <2>9, Zenon
<1>4. IsFiniteSet(R)
  <2> HIDE DEF p, e, R
  <2>1. IsFiniteSet({p[d] : d \in N}) /\ IsFiniteSet({e[d] : d \in N}) BY ONLY <1>2, Images, Zenon
  <2>2. IsFiniteSet(both) BY ONLY <2>1, FS_Union, Zenon
  <2>3. R \in SUBSET both BY ONLY <1>3, Zenon
  <2> HIDE DEF both
  <2> QED BY ONLY <2>2, <2>3, FS_Subset, Zenon
<1> QED BY ONLY <1>1, <1>2, <1>3, <1>4, Zenon DEF N, R

\* Those of a day, and its deposits.
OnDay(lines, d)      == {l \in lines : l.day = d}
DepositsOn(lines, d) == {l \in lines : l.day = d /\ l.entry_type = "deposit"}

\* The lines of a day, of which there are none, one or two, add up to its rounded change.
LEMMA DayAddsUp ==
  ASSUME NEW closes, Closed(closes), NEW since, NEW until
  PROVE  \A d \in DaysIn(closes, since, until) :
           /\ SumOf(OnDay(FileOf(closes, since, until), d)) = Cents(Change(closes, d, "value"))
           /\ SumOf(DepositsOn(FileOf(closes, since, until), d)) = Cents(Change(closes, d, "deposits"))
<1> TAKE d \in DaysIn(closes, since, until)
<1> DEFINE R == FileOf(closes, since, until)
           f == [l \in R |-> l.amount]
           T == {l \in R : l.day = d}
           U == {l \in R : l.day = d /\ l.entry_type = "deposit"}
           W == T \ U
           cp == Cents(Change(closes, d, "deposits"))
           cv == Cents(Change(closes, d, "value"))
           Sum(s) == SumFunctionOnSet(f, s)
           A == Deposit(closes, d)
           B == Earning(closes, d)
<1>1. IsFiniteSet(R) /\ \A l \in R : l.amount \in Int /\ l.day \in DaysIn(closes, since, until) \ {First(closes)} BY FileIsFinite, Zenon
<1>2. d \in DOMAIN closes BY Zenon DEF DaysIn
<1>3. cp \in Int /\ cv \in Int
  <2>1. Change(closes, d, "value") \in Int /\ Change(closes, d, "deposits") \in Int BY <1>2, ChangesAreNumbers, Zenon
  <2> QED BY ONLY <2>1, Rounded, Zenon
<1>4. /\ A.day = d /\ A.entry_type = "deposit" /\ A.amount = cp
      /\ B.day = d /\ B.entry_type = "earning" /\ B.amount = cv - cp
  BY ONLY HalvesHave
<1>5. \A l \in R : f[l] = l.amount /\ f[l] \in Int
  <2> TAKE l \in R
  <2>1. f[l] = l.amount BY ONLY l \in R, Zenon
  <2> HIDE DEF f
  <2> QED BY ONLY <1>1, <2>1, l \in R, Zenon
<1>6. T \in SUBSET R /\ U \in SUBSET R /\ W \in SUBSET (R \ U) /\ U \union W = T BY ONLY Zenon
<1>7. SumOf(T) = Sum(T) /\ SumOf(U) = Sum(U) BY ONLY <1>1, <1>6, SumOfIs, Zenon
<1>8. Sum(T) = Sum(U) + Sum(W)
  <2> HIDE DEF f, R, T, U, W
  <2>1. \A l \in R : f[l] \in Int BY ONLY <1>5, Zenon
  <2>2. IsFiniteSet(R) /\ U \in SUBSET R /\ W \in SUBSET (R \ U) BY ONLY <1>1, <1>6, Zenon
  <2> HIDE DEF Sum
  <2>3. SumFunctionOnSet(f, U \union W) = SumFunctionOnSet(f, U) + SumFunctionOnSet(f, W) BY ONLY <2>1, <2>2, SumOfBoth
  <2> QED BY ONLY <1>6, <2>3, Zenon DEF Sum
<1>9. ASSUME d = First(closes) PROVE cp = 0 /\ cv = 0 /\ U = {} /\ W = {}
  <2>1. Change(closes, d, "value") = 0 /\ Change(closes, d, "deposits") = 0 BY ONLY <1>9, Zenon DEF Change
  <2>2. T = {} BY ONLY <1>1, <1>9, Zenon
  <2>3. U = {} /\ W = {} BY ONLY <1>6, <2>2, Zenon
  <2> QED BY ONLY <2>1, <2>3, NoCents, Zenon
<1>10. ASSUME d # First(closes)
       PROVE /\ (U = {} /\ cp = 0) \/ (U = {A} /\ A \in R)
             /\ (W = {} /\ cv - cp = 0) \/ (W = {B} /\ B \in R)
  <2>1. d \in DaysIn(closes, since, until) \ {First(closes)} BY ONLY <1>10, d \in DaysIn(closes, since, until), Zenon
  <2>2. ASSUME NEW l \in T PROVE l \in {A, B}
    <3>1. l \in R /\ l.day = d BY ONLY l \in T, Zenon
    <3>2. PICK o \in DaysIn(closes, since, until) \ {First(closes)} : l \in {Deposit(closes, o), Earning(closes, o)}
      BY <3>1, Lines, Zenon DEF FileOf
    <3>3. Deposit(closes, o).day = o /\ Earning(closes, o).day = o BY ONLY HalvesHave
    <3>4. o = d BY ONLY <3>1, <3>2, <3>3, Zenon
    <3> QED BY ONLY <3>2, <3>4, Zenon
  <2>3. A \in R <=> A.amount # 0
    <3>1. A \in {Deposit(closes, d), Earning(closes, d)} BY ONLY Zenon
    <3>2. A.amount # 0 => A \in R BY <2>1, <3>1, Lines, Zenon DEF FileOf
    <3>3. A \in R => A.amount # 0 BY Lines, Zenon DEF FileOf
    <3> QED BY ONLY <3>2, <3>3, Zenon
  <2>4. B \in R <=> B.amount # 0
    <3>1. B \in {Deposit(closes, d), Earning(closes, d)} BY ONLY Zenon
    <3>2. B.amount # 0 => B \in R BY <2>1, <3>1, Lines, Zenon DEF FileOf
    <3>3. B \in R => B.amount # 0 BY Lines, Zenon DEF FileOf
    <3> QED BY ONLY <3>2, <3>3, Zenon
  <2>5. "deposit" # "earning" BY ONLY SMT
  <2> HIDE DEF A, B, cp, cv, R
  <2>6. (U = {} /\ A \notin R) \/ (U = {A} /\ A \in R)
    <3>1. \A l \in U : l = A /\ A \in R
      <4> TAKE l \in U
      <4>1. l \in T /\ l \in R /\ l.entry_type = "deposit" BY ONLY l \in U, Zenon
      <4>2. l = A \/ l = B BY ONLY <2>2, <4>1, Zenon
      <4>3. l # B BY ONLY <1>4, <2>5, <4>1, Zenon
      <4> QED BY ONLY <4>1, <4>2, <4>3, Zenon
    <3>2. A \in R => A \in U BY ONLY <1>4, Zenon
    <3> HIDE DEF U
    <3> QED BY ONLY <3>1, <3>2, Zenon
  <2>7. (W = {} /\ B \notin R) \/ (W = {B} /\ B \in R)
    <3>1. \A l \in W : l = B /\ B \in R
      <4> TAKE l \in W
      <4>1. l \in T /\ l \in R /\ l \notin U BY ONLY l \in W, Zenon
      <4>2. l = A \/ l = B BY ONLY <2>2, <4>1, Zenon
      <4>3. A \in R => A \in U BY ONLY <1>4, Zenon
      <4> HIDE DEF U
      <4> QED BY ONLY <4>1, <4>2, <4>3, Zenon
    <3>2. B \in R => B \in W BY ONLY <1>4, <2>5, Zenon
    <3> HIDE DEF W
    <3> QED BY ONLY <3>1, <3>2, Zenon
  <2> QED BY ONLY <1>4, <2>3, <2>4, <2>6, <2>7, Zenon
<1>11. Sum({}) = 0 /\ \A l \in R : Sum({l}) = f[l]
  <2> HIDE DEF f, R
  <2>1. \A l \in R : Sum({l}) = f[l] BY ONLY <1>5, SumOfOne, Zenon
  <2>2. IsFiniteSet({}) BY FS_EmptySet
  <2>3. Sum({}) = 0 BY ONLY <2>2, SumOpens, Zenon
  <2> QED BY ONLY <2>1, <2>3, Zenon
<1> HIDE DEF Sum, f, R, A, B, T, U, W, cp, cv
<1>12. Sum(U) = cp
  <2>1. CASE d = First(closes) BY ONLY <1>9, <1>11, <2>1, Zenon
  <2>2. CASE d # First(closes)
    <3>1. CASE U = {} /\ cp = 0 BY ONLY <1>11, <3>1, Zenon
    <3>2. CASE U = {A} /\ A \in R BY ONLY <1>4, <1>5, <1>11, <3>2, Zenon
    <3> QED BY ONLY <1>10, <2>2, <3>1, <3>2, Zenon
  <2> QED BY ONLY <2>1, <2>2, Zenon
<1>13. Sum(W) = cv - cp
  <2>1. CASE d = First(closes)
    <3>1. Sum(W) = 0 /\ cv = 0 /\ cp = 0 BY ONLY <1>9, <1>11, <2>1, Zenon
    <3>2. 0 = 0 - 0 BY ONLY SMT
    <3> QED BY ONLY <3>1, <3>2, Zenon
  <2>2. CASE d # First(closes)
    <3>1. CASE W = {} /\ cv - cp = 0 BY ONLY <1>11, <3>1, Zenon
    <3>2. CASE W = {B} /\ B \in R BY ONLY <1>4, <1>5, <1>11, <3>2, Zenon
    <3> QED BY ONLY <1>10, <2>2, <3>1, <3>2, Zenon
  <2> QED BY ONLY <2>1, <2>2, Zenon
<1>14. Sum(T) = cv
  <2>1. Sum(T) = cp + (cv - cp) BY ONLY <1>8, <1>12, <1>13, Zenon
  <2> QED BY ONLY <1>3, <2>1, SMT
<1>15. OnDay(R, d) = T /\ DepositsOn(R, d) = U BY ONLY Zenon DEF OnDay, DepositsOn, T, U
<1> QED BY ONLY <1>7, <1>12, <1>14, <1>15, Zenon DEF cp, cv, R

\* What LinesAddUp says of the lines of a file.
Agrees(closes, since, until, lines) ==
  LET days  == DaysIn(closes, since, until)
      exact == SumFunction([d \in days |-> Change(closes, d, "value")])
      error == 10 * SumOf(lines) - exact
  IN /\ {l.day : l \in lines} \subseteq days
     /\ \A d \in days :
          /\ SumOf({l \in lines : l.day = d}) = Cents(Change(closes, d, "value"))
          /\ SumOf({l \in lines : l.day = d /\ l.entry_type = "deposit"}) = Cents(Change(closes, d, "deposits"))
     /\ 2 * (IF error < 0 THEN -error ELSE error) <= 10 * Cardinality(days)

\* Each day's lines are half a cent off at most.
LEMMA ErrorOfDays ==
  ASSUME NEW closes, Closed(closes), NEW since, NEW until
  PROVE  LET days  == DaysIn(closes, since, until)
             total == SumOf(FileOf(closes, since, until))
             exact == SumFunction([d \in days |-> Change(closes, d, "value")])
         IN /\ total \in Int /\ exact \in Int
            /\ 2 * (10 * total - exact) <= 10 * Cardinality(days) /\ -(10 * Cardinality(days)) <= 2 * (10 * total - exact)
<1> DEFINE N == DaysIn(closes, since, until)
           R == FileOf(closes, since, until)
           f == [l \in R |-> l.amount]
           c == [d \in N |-> Change(closes, d, "value")]
           On(T) == {l \in R : l.day \in T}
           Sum(s) == SumFunctionOnSet(f, s)
           Exact(T) == SumFunctionOnSet(c, T)
           Near(t, x, n) == 2 * (10 * t - x) <= 10 * n /\ -(10 * n) <= 2 * (10 * t - x)
           Q == {T \in SUBSET N : Near(Sum(On(T)), Exact(T), Cardinality(T))}
<1>1. /\ IsFiniteSet(N) /\ N \subseteq DOMAIN closes /\ IsFiniteSet(R)
      /\ \A l \in R : l.amount \in Int /\ l.day \in N
  BY FileIsFinite, Zenon
<1>2. \A l \in R : f[l] \in Int
  <2> TAKE l \in R
  <2>1. f[l] = l.amount BY ONLY l \in R, Zenon
  <2> HIDE DEF f
  <2> QED BY ONLY <1>1, <2>1, l \in R, Zenon
<1>3. \A d \in N : c[d] = Change(closes, d, "value") /\ c[d] \in Int
  <2> TAKE d \in N
  <2>1. c[d] = Change(closes, d, "value") BY ONLY d \in N, Zenon
  <2>2. d \in DOMAIN closes BY ONLY <1>1, d \in N, Zenon
  <2>3. Change(closes, d, "value") \in Int BY <2>2, ChangesAreNumbers, Zenon
  <2> HIDE DEF c
  <2> QED BY ONLY <2>1, <2>3, Zenon
<1>4. ASSUME NEW T \in SUBSET N
      PROVE  Sum(On(T)) \in Int /\ Exact(T) \in Int /\ IsFiniteSet(T) /\ Cardinality(T) \in Nat
  <2>1. On(T) \in SUBSET R BY ONLY Zenon
  <2>2. IsFiniteSet(On(T))
    <3> HIDE DEF R, On
    <3> QED BY ONLY <1>1, <2>1, FS_Subset, Zenon
  <2>3. IsFiniteSet(T)
    <3> HIDE DEF N
    <3> QED BY ONLY <1>1, T \in SUBSET N, FS_Subset, Zenon
  <2>4. Cardinality(T) \in Nat BY ONLY <2>3, FS_CardinalityType, Zenon
  <2> HIDE DEF f, c, N, R, On
  <2>5. \A l \in On(T) : f[l] \in Int BY ONLY <1>2, <2>1, Zenon
  <2>6. \A d \in T : c[d] \in Int BY ONLY <1>3, T \in SUBSET N, Zenon
  <2>7. Sum(On(T)) \in Int BY ONLY <2>2, <2>5, SumWithout, Zenon
  <2>8. Exact(T) \in Int BY ONLY <2>3, <2>6, SumWithout, Zenon
  <2> QED BY ONLY <2>3, <2>4, <2>7, <2>8, Zenon
<1>5. {} \in Q
  <2>1. On({}) = {} BY ONLY Zenon
  <2>2. IsFiniteSet({}) /\ Cardinality({}) = 0 BY FS_EmptySet
  <2>3. Sum({}) = 0 /\ Exact({}) = 0 BY ONLY <2>2, SumOpens, Zenon
  <2>4. Near(0, 0, 0) BY ONLY SMT
  <2> HIDE DEF Near, Sum, On, Exact
  <2>5. Near(Sum(On({})), Exact({}), Cardinality({})) BY ONLY <2>1, <2>2, <2>3, <2>4, Zenon
  <2> QED BY ONLY <2>5, Zenon
<1>6. ASSUME NEW T \in SUBSET N, NEW d \in T, T \ {d} \in Q PROVE T \in Q
  <2> DEFINE r == T \ {d}
             L == {l \in R : l.day = d}
             v == Change(closes, d, "value")
  <2>1. d \in N /\ r \in SUBSET N BY ONLY T \in SUBSET N, d \in T, Zenon
  <2>2. On(T) = On(r) \union L /\ On(r) \in SUBSET R /\ L \in SUBSET (R \ On(r)) /\ L \in SUBSET R BY ONLY d \in T, Zenon
  <2>3. Sum(On(T)) = Sum(On(r)) + Sum(L)
    <3> HIDE DEF f, R, L, r, On, Sum
    <3>1. SumFunctionOnSet(f, On(r) \union L) = SumFunctionOnSet(f, On(r)) + SumFunctionOnSet(f, L)
      BY ONLY <1>1, <1>2, <2>2, SumOfBoth
    <3> QED BY ONLY <2>2, <3>1, Zenon DEF Sum
  <2>4. Sum(L) = Cents(v)
    <3>1. \A o \in N : /\ SumOf(OnDay(R, o)) = Cents(Change(closes, o, "value"))
                       /\ SumOf(DepositsOn(R, o)) = Cents(Change(closes, o, "deposits"))
      BY ONLY Closed(closes), DayAddsUp, Zenon
    <3>2. SumOf(OnDay(R, d)) = Cents(Change(closes, d, "value")) BY ONLY <2>1, <3>1, Zenon
    <3>3. SumOf(L) = Cents(v) BY ONLY <3>2, Zenon DEF OnDay
    <3> HIDE DEF R, L
    <3>4. SumOf(L) = Sum(L) BY ONLY <1>1, <2>2, SumOfIs, Zenon
    <3> QED BY ONLY <3>3, <3>4, Zenon
  <2>5. Exact(T) = v + Exact(r)
    <3>1. IsFiniteSet(T) /\ \A o \in T : c[o] \in Int BY ONLY <1>3, <1>4, T \in SUBSET N, Zenon
    <3> HIDE DEF c
    <3>2. /\ SumFunctionOnSet(c, T) \in Int
          /\ \A o \in T : SumFunctionOnSet(c, T) = c[o] + SumFunctionOnSet(c, T \ {o})
      BY ONLY <3>1, SumWithout, SMT
    <3>3. Exact(T) = c[d] + Exact(T \ {d}) BY ONLY <3>2, d \in T, Zenon
    <3> QED BY ONLY <1>3, <2>1, <3>3, Zenon
  <2>6. Cardinality(T) = Cardinality(r) + 1
    <3>1. IsFiniteSet(T) /\ Cardinality(T) \in Nat BY ONLY <1>4, T \in SUBSET N, Zenon
    <3>2. Cardinality(r) = Cardinality(T) - 1 BY ONLY <3>1, d \in T, FS_RemoveElement, Zenon
    <3> QED BY ONLY <3>1, <3>2, SMT
  <2>7. Near(Sum(On(r)), Exact(r), Cardinality(r)) BY ONLY T \ {d} \in Q, Zenon
  <2>8. Sum(On(r)) \in Int /\ Exact(r) \in Int /\ Cardinality(r) \in Nat
    <3> HIDE DEF Sum, Exact, On, r
    <3> QED BY ONLY <1>4, <2>1, Zenon
  <2>9. v \in Int /\ Cents(v) \in Int /\ 2 * (10 * Cents(v) - v) <= 10 /\ -10 <= 2 * (10 * Cents(v) - v)
    <3>1. v \in Int BY ONLY <1>3, <2>1, Zenon
    <3> HIDE DEF v
    <3> QED BY ONLY <3>1, Rounded, Zenon
  <2> DEFINE a == Sum(On(r))
             x == Exact(r)
             n == Cardinality(r)
             w == Cents(v)
  <2>10. /\ a \in Int /\ x \in Int /\ n \in Nat /\ v \in Int /\ w \in Int
         /\ 2 * (10 * a - x) <= 10 * n /\ -(10 * n) <= 2 * (10 * a - x)
         /\ 2 * (10 * w - v) <= 10 /\ -10 <= 2 * (10 * w - v)
    BY ONLY <2>7, <2>8, <2>9, Zenon
  <2>11. Sum(On(T)) = a + w /\ Exact(T) = v + x /\ Cardinality(T) = n + 1 BY ONLY <2>3, <2>4, <2>5, <2>6, Zenon
  <2> HIDE DEF a, x, n, w, v, Sum, Exact, On
  <2>12. 2 * (10 * (a + w) - (v + x)) <= 10 * (n + 1) /\ -(10 * (n + 1)) <= 2 * (10 * (a + w) - (v + x)) BY ONLY <2>10, SMT
  <2>13. Near(a + w, v + x, n + 1) BY ONLY <2>12, Zenon
  <2> HIDE DEF Near
  <2>14. Near(Sum(On(T)), Exact(T), Cardinality(T)) BY ONLY <2>11, <2>13, Zenon
  <2> QED BY ONLY <2>14, T \in SUBSET N, Zenon
<1>7. N \in Q
  <2> HIDE DEF Q, N
  <2> QED BY ONLY <1>1, <1>5, <1>6, Grow, Zenon
<1>8. SumOf(R) = Sum(On(N))
  <2>1. On(N) = R BY ONLY <1>1, Zenon
  <2> HIDE DEF On, R
  <2>2. R \in SUBSET R BY ONLY Zenon
  <2>3. SumOf(R) = Sum(R) BY ONLY <1>1, <2>2, SumOfIs, Zenon
  <2> QED BY ONLY <2>1, <2>3, Zenon
<1>9. SumFunction(c) = Exact(N)
  <2>1. DOMAIN c = N BY ONLY Zenon
  <2> HIDE DEF c
  <2> QED BY ONLY <2>1, Zenon DEF SumFunction
<1>10. N \in SUBSET N BY ONLY Zenon
<1>11. Sum(On(N)) \in Int /\ Exact(N) \in Int BY ONLY <1>4, <1>10, Zenon
<1>12. Near(Sum(On(N)), Exact(N), Cardinality(N)) BY ONLY <1>7, Zenon
<1> HIDE DEF Sum, On, Exact
<1> QED BY ONLY <1>8, <1>9, <1>11, <1>12, Zenon DEF R, N

\* The lines of a file are as LinesAddUp has them.
LEMMA FileAgrees ==
  ASSUME NEW closes, Closed(closes), NEW since, NEW until
  PROVE  Agrees(closes, since, until, FileOf(closes, since, until))
<1> DEFINE N == DaysIn(closes, since, until)
           R == FileOf(closes, since, until)
           exact == SumFunction([d \in N |-> Change(closes, d, "value")])
           error == 10 * SumOf(R) - exact
<1>1. {l.day : l \in R} \subseteq N
  <2>1. \A l \in R : l.day \in N BY FileIsFinite, Zenon
  <2> QED BY ONLY <2>1, Zenon
<1>2. \A d \in N : /\ SumOf({l \in R : l.day = d}) = Cents(Change(closes, d, "value"))
                   /\ SumOf({l \in R : l.day = d /\ l.entry_type = "deposit"}) = Cents(Change(closes, d, "deposits"))
  <2>1. \A d \in N : /\ SumOf(OnDay(R, d)) = Cents(Change(closes, d, "value"))
                     /\ SumOf(DepositsOn(R, d)) = Cents(Change(closes, d, "deposits"))
    BY ONLY Closed(closes), DayAddsUp, Zenon
  <2> HIDE DEF N, R
  <2> QED BY ONLY <2>1, Zenon DEF OnDay, DepositsOn
<1>3. 2 * (IF error < 0 THEN -error ELSE error) <= 10 * Cardinality(N)
  <2> DEFINE t == SumOf(R)
             n == Cardinality(N)
  <2>1. t \in Int /\ exact \in Int /\ 2 * (10 * t - exact) <= 10 * n /\ -(10 * n) <= 2 * (10 * t - exact)
    BY ErrorOfDays, Zenon
  <2>2. n \in Nat
    <3>1. IsFiniteSet(N) BY FileIsFinite, Zenon
    <3> QED BY ONLY <3>1, FS_CardinalityType, Zenon
  <2> HIDE DEF t, n, exact
  <2>3. 2 * (IF 10 * t - exact < 0 THEN -(10 * t - exact) ELSE 10 * t - exact) <= 10 * n BY ONLY <2>1, <2>2, SMT
  <2> QED BY ONLY <2>3, Zenon DEF t, n
<1> HIDE DEF R, error, exact
<1> QED BY ONLY <1>1, <1>2, <1>3, Zenon DEF Agrees, R, error, exact


\* A file asked for is of a graph; when written, the graph had a point.
Totalled ==
  task.kind = "earnings" =>
    /\ task.graph \in Graphs /\ <<task.since, task.until>> \in Windows
    /\ stage = "answered" => /\ DOMAIN ParsePoints(task.graph) # {}
                             /\ result = DailyEarnings(task.graph, task.since, task.until)

\* parse_graph_points leaves points that are numbers.
LEMMA PointsAreNumbers ==
  ASSUME NEW g \in Graphs
  PROVE  LET points == ParsePoints(g) IN
           /\ DOMAIN points \in SUBSET Int /\ IsFiniteSet(DOMAIN points)
           /\ \A i \in DOMAIN points : points[i].at \in Int /\ points[i].value \in Int /\ points[i].deposits \in Int
<1> DEFINE Point == [at : Int, value : Int, deposits : Int, complete : BOOLEAN]
           I == {i \in DOMAIN g : g[i].complete}
           points == ParsePoints(g)
<1>1. g \in Seq(Point) BY GraphsAssumption, Zenon
<1>2. DOMAIN g = 1 .. Len(g) /\ Len(g) \in Nat /\ \A i \in DOMAIN g : g[i] \in Point
  <2> HIDE DEF Point
  <2> QED BY ONLY <1>1, SMT
<1>3. I \in SUBSET Int /\ IsFiniteSet(I)
  <2>1. I \in SUBSET (1 .. Len(g)) BY ONLY <1>2, Zenon
  <2>2. IsFiniteSet(1 .. Len(g)) BY ONLY <1>2, FS_Interval, SMT
  <2> HIDE DEF I
  <2>3. IsFiniteSet(I) BY ONLY <2>1, <2>2, FS_Subset, Zenon
  <2>4. I \in SUBSET Int BY ONLY <1>2, <2>1, SMT
  <2> QED BY ONLY <2>3, <2>4, Zenon
<1>4. points = [i \in I |-> g[i]] BY ONLY Zenon DEF ParsePoints
<1>5. DOMAIN points = I BY ONLY <1>4, Zenon
<1>6. ASSUME NEW i \in I PROVE points[i].at \in Int /\ points[i].value \in Int /\ points[i].deposits \in Int
  <2>1. points[i] = g[i]
    <3> HIDE DEF points, I
    <3> QED BY ONLY <1>4, i \in I, Zenon
  <2>2. g[i] \in Point BY ONLY <1>2, i \in I, Zenon
  <2>3. g[i].at \in Int /\ g[i].value \in Int /\ g[i].deposits \in Int BY ONLY <2>2, SMT
  <2> HIDE DEF points
  <2> QED BY ONLY <2>1, <2>3, Zenon
<1> QED BY ONLY <1>3, <1>5, <1>6, Zenon

\* And so it stays.
LEMMA StaysTotalled == DataSpec => []Totalled
<1>1. DataInit => Totalled
  <2> SUFFICES ASSUME DataInit, task.kind = "earnings"
               PROVE  task.graph \in Graphs /\ <<task.since, task.until>> \in Windows /\ stage # "answered"
    BY Zenon DEF Totalled
  <2>1. stage # "answered" BY SMT DEF DataInit
  <2>2. "period" # "earnings" /\ "feed" # "earnings" BY ONLY SMT
  <2>3. CASE \E today \in Todays, n \in Periods, shift \in Shifts :
                task = [kind |-> "period", today |-> today, picked |-> n, shift |-> shift]
    <3>1. task.kind = "period" BY ONLY <2>3, SMT
    <3> QED BY <2>2, <3>1, Zenon
  <2>4. CASE \E f \in UNION {[1 .. n -> Meanings] : n \in 1 .. MaxRows} : task = [kind |-> "feed", feed |-> f]
    <3>1. task.kind = "feed"
      <4>1. PICK f : task = [kind |-> "feed", feed |-> f] BY ONLY <2>4, Zenon
      <4> QED BY ONLY <4>1, SMT
    <3> QED BY <2>2, <3>1, Zenon
  <2>5. CASE \E g \in Graphs, w \in Windows : task = [kind |-> "earnings", graph |-> g, since |-> w[1], until |-> w[2]]
    <3>1. PICK g \in Graphs, w \in Windows : task = [kind |-> "earnings", graph |-> g, since |-> w[1], until |-> w[2]] BY ONLY <2>5, Zenon
    <3>2. task.graph = g /\ task.since = w[1] /\ task.until = w[2] BY ONLY <3>1, SMT
    <3>3. w \in Int \X Int BY GraphsAssumption, Zenon
    <3>4. <<w[1], w[2]>> = w BY ONLY <3>3, SMT
    <3>5. <<task.since, task.until>> = w BY ONLY <3>2, <3>4, Zenon
    <3> QED BY ONLY <2>1, <3>2, <3>5, g \in Graphs, w \in Windows, Zenon
  <2> QED BY <2>3, <2>4, <2>5, Zenon DEF DataInit
<1>2. Totalled /\ [DataNext]_dataVars => Totalled'
  <2> SUFFICES ASSUME Totalled, [DataNext]_dataVars, task'.kind = "earnings"
               PROVE  /\ task'.graph \in Graphs /\ <<task'.since, task'.until>> \in Windows
                      /\ stage' = "answered" => /\ DOMAIN ParsePoints(task'.graph) # {}
                                                /\ result' = DailyEarnings(task'.graph, task'.since, task'.until)
    BY Zenon DEF Totalled
  <2>1. "period" # "earnings" /\ "feed" # "earnings" /\ "failed" # "answered" BY ONLY SMT
  <2>2. task' = task BY Zenon DEF DataNext, ChoosePeriod, BuildEarnings, ReadHeaders, Given, dataVars
  <2>3. task.kind = "earnings" BY <2>2, Zenon
  <2>4. task.graph \in Graphs /\ <<task.since, task.until>> \in Windows BY <2>3, Zenon DEF Totalled
  <2>5. CASE BuildEarnings BY ONLY BuildEarnings, <2>1, <2>2, <2>4, Zenon DEF BuildEarnings
  <2>6. CASE UNCHANGED dataVars
    <3>1. stage' = stage /\ result' = result BY ONLY <2>6, Zenon DEF dataVars
    <3> QED BY ONLY <2>2, <2>3, <2>4, <3>1, Totalled, Zenon DEF Totalled
  <2>7. ~ChoosePeriod /\ ~ReadHeaders BY ONLY <2>1, <2>3, Zenon DEF ChoosePeriod, ReadHeaders, Given
  <2> QED BY <2>5, <2>6, <2>7, Zenon DEF DataNext
<1> QED BY <1>1, <1>2, PTL DEF DataSpec

\* Whatever graph the bank sends and whatever window is asked for, gaps, equal moments and amounts at
\* half a cent included, the lines of an earnings file add up: by day to the rounded change of the
\* account's value, and in all to its change but for half a cent a day (build_earnings_rows).
THEOREM AddUp == DataSpec => []LinesAddUp
<1>1. Totalled => LinesAddUp
  <2> SUFFICES ASSUME Totalled, Answered("earnings") PROVE LinesAddUp
    <3>1. ~Answered("earnings") => LinesAddUp BY ONLY Zenon DEF LinesAddUp
    <3> QED BY <3>1, Zenon
  <2> DEFINE points == ParsePoints(task.graph)
             closes == DailyCloses(points)
  <2>1. task.graph \in Graphs /\ DOMAIN points # {} /\ result = DailyEarnings(task.graph, task.since, task.until)
    BY Zenon DEF Totalled, Answered
  <2>2. /\ DOMAIN points \in SUBSET Int /\ IsFiniteSet(DOMAIN points)
        /\ \A i \in DOMAIN points : points[i].at \in Int /\ points[i].value \in Int /\ points[i].deposits \in Int
    BY ONLY <2>1, GraphsAssumption, PointsAreNumbers, Zenon
  <2>3. result = FileOf(closes, task.since, task.until) BY ONLY <2>1, Zenon DEF DailyEarnings, FileOf
  <2> HIDE DEF points
  <2>4. Closed(closes) BY ONLY <2>1, <2>2, ClosesOf, Zenon
  <2> HIDE DEF closes
  <2>5. Agrees(closes, task.since, task.until, FileOf(closes, task.since, task.until)) BY ONLY <2>4, FileAgrees, Zenon
  <2>6. Agrees(closes, task.since, task.until, result) BY ONLY <2>3, <2>5, Zenon
  <2> QED BY ONLY <2>6, Zenon DEF LinesAddUp, Agrees, DaysIn, closes, points
<1> QED BY <1>1, StaysTotalled, PTL
=============================================================================
