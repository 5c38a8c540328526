---------------------------- MODULE BankSessions ----------------------------
(***************************************************************************)
(* The life of a bank session: the login, verify and export jobs of        *)
(* pennyspy/scrapers/router.py, run one at a time by the job manager's     *)
(* worker, over the sessions of pennyspy/scrapers/session.py and the       *)
(* browsers of pennyspy/scrapers/zen_scraper.py.  A session and its        *)
(* browser carry the id of the login request that made them.               *)
(***************************************************************************)
EXTENDS Naturals, Sequences, FiniteSets

CONSTANTS
  Bank,     \* one router for each
  Login,    \* requests POST /<bank>/login[/jobs]
  Verify,   \* requests POST /<bank>/verify[/jobs]
  Export,   \* requests POST /<bank>/export and /scrape
  Nobody    \* no request

Request == Login \cup Verify \cup Export

ASSUME SessionAssumption ==
  /\ Login \cap Verify = {} /\ Login \cap Export = {} /\ Verify \cap Export = {}
  /\ Nobody \notin Request

VARIABLES
  bank,      \* the router a request was posted to
  target,    \* the session a verify or an export names
  status,    \* how far the request and its job are
  queue,     \* the job manager's queue
  job,       \* the request whose job the worker runs
  at,        \* where in the job's work it is
  sessions,  \* keys of ScraperSessionManager._sessions
  closing,   \* sessions close_all() has yet to quit
  browser,   \* each login's browser: none, live, quit
  profile,   \* logins whose profile directory is on disk
  stale,     \* sessions older than the TTL
  quits      \* history: how often quit() was called on each login's scraper

requests == <<bank, target, status>>
worker   == <<queue, job, at>>
browsers == <<browser, profile, quits>>
vars     == <<requests, worker, sessions, closing, browsers, stale>>

-----------------------------------------------------------------------------
(* The session manager.                                                    *)

\* get(session_id, expected_type) finds the session: it is known, and of b.
Get(s, b) == s \in sessions /\ bank[s] = b

Live == {s \in Login : browser[s] = "live"}

\* ZenScraper.quit of each of S: stops the browser, closes its loop, removes
\* its profile.  A stop that fails is swallowed, and the rest of quit() done:
\* "quit" is a browser that was told to stop, once and for all.
QuitAll(S) ==
  /\ browser' = [s \in Login |-> IF s \in S THEN "quit" ELSE browser[s]]
  /\ quits' = [s \in Login |-> IF s \in S THEN quits[s] + 1 ELSE quits[s]]
  /\ profile' = profile \ S

-----------------------------------------------------------------------------
(* The request threads.                                                    *)

PostLogin(r) ==
  /\ status[r] = "none"
  /\ \E b \in Bank : bank' = [bank EXCEPT ![r] = b]
  /\ status' = [status EXCEPT ![r] = "checked"]
  /\ UNCHANGED <<target, worker, sessions, closing, browsers, stale>>

\* _get_scraper: an unknown session is a 404 before any job exists.
PostUse(r) ==
  /\ status[r] = "none"
  /\ \E b \in Bank, s \in {l \in Login : status[l] = "done"} :
       /\ bank' = [bank EXCEPT ![r] = b]
       /\ target' = [target EXCEPT ![r] = s]
       /\ status' = [status EXCEPT ![r] = IF Get(s, b) THEN "checked" ELSE "rejected"]
  /\ UNCHANGED <<worker, sessions, closing, browsers, stale>>

\* job_manager.submit (module JobQueue).
Submit(r) ==
  /\ status[r] = "checked"
  /\ status' = [status EXCEPT ![r] = "queued"]
  /\ queue' = Append(queue, r)
  /\ UNCHANGED <<bank, target, job, at, sessions, closing, browsers, stale>>

-----------------------------------------------------------------------------
(* The worker.                                                             *)

Goto(step) == at' = step /\ UNCHANGED <<queue, job>>

\* The job ends and the worker is free.
End(how) ==
  /\ status' = [status EXCEPT ![job] = how]
  /\ job' = Nobody
  /\ at' = "idle"
  /\ UNCHANGED <<bank, target, queue>>

Dequeue(useStep) ==
  /\ at = "idle" /\ queue # << >>
  /\ job' = Head(queue)
  /\ queue' = Tail(queue)
  /\ status' = [status EXCEPT ![Head(queue)] = "running"]
  /\ IF Head(queue) \in Login
     THEN at' = "closeAll" /\ closing' = sessions
     ELSE at' = useStep /\ UNCHANGED closing
  /\ UNCHANGED <<bank, target, sessions, browsers, stale>>

\* Mutant of Take: the scraper the request's own check found is used.
TakeUnchecked == Dequeue("use")

Take == Dequeue("lookup")

\* close_all: quit each scraper, then forget them all at once.
CloseOne ==
  /\ at = "closeAll"
  /\ \E s \in closing : QuitAll({s}) /\ closing' = closing \ {s}
  /\ UNCHANGED <<requests, worker, sessions, stale>>

\* Mutant of CloseRest: a login leaves the other bank's session alone.
CloseRestOfBank ==
  /\ at = "closeAll"
  /\ \A s \in closing : bank[s] # bank[job]
  /\ sessions' = closing
  /\ closing' = {}
  /\ Goto("construct")
  /\ UNCHANGED <<requests, browsers, stale>>

CloseRest ==
  /\ at = "closeAll" /\ closing = {}
  /\ sessions' = {}
  /\ Goto("construct")
  /\ UNCHANGED <<requests, closing, browsers, stale>>

\* scraper_type(): the profile directory first, then the browser, which may
\* not start; nothing undoes the first.
Construct ==
  /\ at = "construct"
  /\ profile' = profile \cup {job}
  /\ \/ /\ browser' = [browser EXCEPT ![job] = "live"]
        /\ Goto("auth")
        /\ UNCHANGED requests
     \/ End("failed") /\ UNCHANGED browser
  /\ UNCHANGED <<sessions, closing, stale, quits>>

\* Mutant of StartAuth: no quit() when the sign-in fails.
StartAuthNoQuit ==
  /\ at = "auth"
  /\ \/ Goto("create") /\ UNCHANGED requests
     \/ End("failed")
  /\ UNCHANGED <<sessions, closing, browsers, stale>>

StartAuth ==
  /\ at = "auth"
  /\ \/ Goto("create") /\ UNCHANGED <<requests, browsers>>
     \/ End("failed") /\ QuitAll({job})
  /\ UNCHANGED <<sessions, closing, stale>>

\* create: _cleanup_stale removes and quits the old sessions (its only
\* caller), then the new one is stored and the job's result names it.
Create ==
  /\ at = "create"
  /\ QuitAll(sessions \cap stale)
  /\ sessions' = (sessions \ stale) \cup {job}
  /\ End("done")
  /\ UNCHANGED <<closing, stale>>

\* Mutant of Lookup: the job waits for the session to come back.
LookupWaits ==
  /\ at = "lookup"
  /\ Get(target[job], bank[job])
  /\ Goto("use")
  /\ UNCHANGED <<requests, sessions, closing, browsers, stale>>

\* Mutant of Lookup: an ending the jobs do not have.
LookupClosed ==
  /\ at = "lookup"
  /\ IF Get(target[job], bank[job])
     THEN Goto("use") /\ UNCHANGED requests
     ELSE End("closed")
  /\ UNCHANGED <<sessions, closing, browsers, stale>>

\* _job_scraper: the session is looked up again when the job runs.
Lookup ==
  /\ at = "lookup"
  /\ IF Get(target[job], bank[job])
     THEN Goto("use") /\ UNCHANGED requests
     ELSE End("failed")
  /\ UNCHANGED <<sessions, closing, browsers, stale>>

\* continue_auth, or run_export.  A verify keeps its session unless it raises.
\* An export gives it up however download_transaction_files ends, but not if
\* pruning old exports or making its directory raises before the try: its job
\* fails, "unready", and its session stays.
Use ==
  /\ at = "use"
  /\ \/ job \in Verify /\ End("done")
     \/ job \in Export /\ End("unready")
     \/ Goto("remove") /\ UNCHANGED requests
  /\ UNCHANGED <<sessions, closing, browsers, stale>>

\* remove: pops the session; its browser is stopped next.
Remove ==
  /\ at = "remove"
  /\ sessions' = sessions \ {target[job]}
  /\ Goto(IF target[job] \in sessions THEN "quit" ELSE "after")
  /\ UNCHANGED <<requests, closing, browsers, stale>>

QuitRemoved ==
  /\ at = "quit"
  /\ QuitAll({target[job]})
  /\ Goto("after")
  /\ UNCHANGED <<requests, sessions, closing, stale>>

\* A verify got here by failing; an export may still fail on its files.
After ==
  /\ at = "after"
  /\ \E how \in IF job \in Verify THEN {"failed"} ELSE {"done", "failed"} : End(how)
  /\ UNCHANGED <<sessions, closing, browsers, stale>>

\* A session's TTL passes.
Age(s) ==
  /\ s \in sessions \ stale
  /\ stale' = stale \cup {s}
  /\ UNCHANGED <<requests, worker, sessions, closing, browsers>>

-----------------------------------------------------------------------------
Init ==
  /\ bank = [r \in Request |-> Nobody]
  /\ target = [r \in Request |-> Nobody]
  /\ status = [r \in Request |-> "none"]
  /\ queue = << >>
  /\ job = Nobody
  /\ at = "idle"
  /\ sessions = {}
  /\ closing = {}
  /\ browser = [s \in Login |-> "none"]
  /\ profile = {}
  /\ stale = {}
  /\ quits = [s \in Login |-> 0]

Work ==
  \/ Take \/ CloseOne \/ CloseRest \/ Construct \/ StartAuth \/ Create
  \/ Lookup \/ Use \/ Remove \/ QuitRemoved \/ After

Next ==
  \/ \E r \in Login : PostLogin(r)
  \/ \E r \in Verify \cup Export : PostUse(r)
  \/ \E r \in Request : Submit(r)
  \/ Work
  \/ \E s \in Login : Age(s)

Spec == Init /\ [][Next]_vars

\* The worker runs; a checked request is submitted; time passes.  Nobody has
\* to post a request.
FairSpec ==
  /\ Spec
  /\ WF_vars(Work)
  /\ \A r \in Request : WF_vars(Submit(r))
  /\ \A s \in Login : WF_vars(Age(s))

-----------------------------------------------------------------------------
Steps == {"idle", "closeAll", "construct", "auth", "create", "lookup", "use", "remove",
          "quit", "after"}

TypeOK ==
  /\ bank \in [Request -> Bank \cup {Nobody}]
  /\ target \in [Request -> Login \cup {Nobody}]
  /\ status \in [Request -> {"none", "checked", "rejected", "queued", "running",
                          "done", "failed", "unready"}]
  /\ queue \in Seq(Request)
  /\ job \in Request \cup {Nobody}
  /\ at \in Steps
  /\ sessions \subseteq Login
  /\ closing \subseteq Login
  /\ browser \in [Login -> {"none", "live", "quit"}]
  /\ profile \subseteq Login
  /\ stale \subseteq Login
  /\ quits \in [Login -> Nat]

(* manager.py:9 "there is only ever one browser session": no two browsers    *)
(* are up that nobody told to stop, whatever the banks, and a login starts   *)
(* its own only when every other was told to.                                *)
OneBrowser ==
  /\ \A s, t \in Live : s = t
  /\ at \in {"construct", "auth", "create"} => Live \subseteq {job}

(* A job drives only a browser that is up and signed in for its own bank,    *)
(* though the login that closed its session may have been queued ahead of it *)
(* after its request was checked.                                            *)
UsesOwnLiveBrowser ==
  at = "use" => target[job] \in Live /\ bank[target[job]] = bank[job]

(* No browser is lost: one that is up belongs to a listed session, or to the *)
(* job that is just starting or stopping it; a listed session's browser is   *)
(* up outside a login's close_all; quit() is called at most once on each     *)
(* (its loop cannot be closed twice), with its profile removed; and an       *)
(* export that has ended has given its session up, unless it ended before it *)
(* tried to download anything: that session is still listed, and up.         *)
NoLostBrowser ==
  /\ \A s \in Live :
       \/ s \in sessions
       \/ at \in {"auth", "create"} /\ s = job
       \/ at = "quit" /\ s = target[job]
  /\ at # "closeAll" => sessions \subseteq Live
  /\ \A s \in Login : quits[s] <= 1
  /\ \A s \in profile : s \in Live \/ (browser[s] = "none" /\ status[s] = "failed")
  /\ \A r \in Export : status[r] \in {"done", "failed"} => target[r] \notin sessions

(* Every accepted job ends: a session closed under it makes it fail, not     *)
(* hang.                                                                     *)
JobsEnd ==
  \A r \in Request : status[r] = "checked" ~> status[r] \in {"done", "failed", "unready"}

=============================================================================
