---------------------------- MODULE NationalBank ----------------------------
(***************************************************************************)
(* A session with National Bank from sign-in to export.  The calls of      *)
(* NbcSignIn and the export of NbcHistory are jobs of the one browser      *)
(* executor, so that they never overlap.                                   *)
(***************************************************************************)
EXTENDS NbcHistory

historyOnly == <<site, at, polls, reading, failed, note, files, made>>
signInOnly  == <<refused, alert, field, submitted, accepted, verdict, sent, step, waited,
                 attempt, tries, answer>>
allVars     == <<vars, historyOnly>>

\* An export may be asked of any idle session: it does not look at
\* _authenticated, the page tells.  The table is what the bank then holds.
\* Without a date, or with one in the future, it raises at once.
StartExport ==
  /\ step = "idle" /\ step' = "exporting" /\ at' \in {"open", "failed"}
  /\ table' \in Tables /\ shown' \in 0 .. Len(table') /\ wanted' = shown'
  /\ UNCHANGED <<bank, waited, attempt, authenticated, tries, answer,
                 loading, request, polls, reading, failed, note, files, made>>

Exporting == step = "exporting" /\ at \notin {"done", "failed"}

SignInStep == (Bank \/ StartAuth \/ ContinueAuth \/ Call) /\ UNCHANGED historyOnly
ExportStep ==
  Exporting /\ (Export \/ (Site /\ UNCHANGED authenticated)) /\ UNCHANGED signInOnly

BothInit == Init /\ HistoryInit
BothNext == SignInStep \/ StartExport \/ ExportStep
Spec     == BothInit /\ [][BothNext]_allVars

\* A call in progress goes on by itself; the bank and the user need do nothing.
FairSpec ==
  /\ Spec
  /\ WF_allVars(Call /\ UNCHANGED historyOnly)
  /\ WF_allVars(Exporting /\ Export /\ UNCHANGED signInOnly)

-----------------------------------------------------------------------------
(* Properties.                                                             *)

BankTypeOK == TypeOK /\ HistoryTypeOK

Busy == InCall \/ Exporting

\* Whatever the page does or fails to do, every sign-in call and every
\* export comes to an end: no wait of nbc.py is without a deadline.
CallsEnd == Busy ~> ~Busy
=============================================================================
