---------------------------- MODULE Wealthsimple ----------------------------
(***************************************************************************)
(* A session with Wealthsimple from sign-in to export: WsSignIn, then the  *)
(* activity files of WsActivity and the earnings files of WsGraph.  All    *)
(* calls are jobs of the one browser executor, so they never overlap; the  *)
(* browser's recorder of requests runs beside them.                        *)
(***************************************************************************)
EXTENDS WsGraph

activity   == <<dialog, expected, dir, left, parts, served, arrived, shown, missed>>
graph      == <<future, ring, recording, next, chosen, hash, answered, earned>>
exportVars == <<activity, graph, at, escaped>>
signInOnly == <<overlay, alert, submitted, typed, sends, accepted, stood, dropped, scraper, tries>>
allVars    == <<vars, exportVars>>

\* An export of any idle session.  The dialog's rows may be there, in a form
\* that can be read or not; since_date is the caller's.
StartExport ==
  /\ step = "idle" /\ step' = "exporting" /\ at' = "activity"
  /\ master' \in {"hidden", "off", "on"} /\ readable' \in BOOLEAN /\ future' \in BOOLEAN
  /\ UNCHANGED <<bank, waited, look, attempt, authenticated, awaiting, tries, answer,
                 rendered, ticked, expected, dir, left, parts, served, arrived, shown, missed, escaped,
                 ring, recording, next, chosen, hash, answered, earned>>

Exporting == step = "exporting" /\ at \notin {"done", "failed"}

ActivityStep == Exporting /\ Activity /\ UNCHANGED <<signInOnly, graph>>
EarningsStep == Exporting /\ Earnings /\ UNCHANGED <<page, signInOnly, activity>>
SignInStep   == (Bank \/ StartAuth \/ ContinueAuth \/ Call \/ Break) /\ UNCHANGED exportVars
Beside ==
  \/ Exporting /\ RenderRow /\ UNCHANGED <<signInOnly, graph>>
  \/ Exporting /\ Record /\ UNCHANGED <<page, signInOnly, activity>>

SessionInit == Init /\ ActivityInit /\ GraphInit
SessionNext == SignInStep \/ StartExport \/ ActivityStep \/ EarningsStep \/ Beside
Spec        == SessionInit /\ [][SessionNext]_allVars

\* A call in progress goes on by itself; the bank and the user need do nothing.
FairSpec ==
  /\ Spec
  /\ WF_allVars(Call /\ UNCHANGED exportVars)
  /\ WF_allVars(ActivityStep \/ EarningsStep)

-----------------------------------------------------------------------------
(* Properties.                                                             *)

WsTypeOK == TypeOK /\ ActivityTypeOK /\ GraphTypeOK

\* A graph that cannot be read costs its account's file alone: once there are
\* activity files, an export fails only for an exception that is of another
\* kind than the scraper's (the disk's, the browser's own, one of a payload of
\* an unknown shape) or a window that starts after today, and every graph that
\* answered has its file.
FailureCostsOnlyItself ==
  /\ at = "failed" => served = {} \/ escaped \/ future
  /\ at = "done" => answered = earned

\* Whatever the page does or fails to do, every sign-in call and every export
\* comes to an end.
Busy     == InCall \/ Exporting
CallsEnd == Busy ~> ~Busy
=============================================================================
