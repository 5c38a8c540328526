----------------------------- MODULE Downloads -----------------------------
(***************************************************************************)
(* ZenScraper._wait_for_downloads (pennyspy/scrapers/zen_scraper.py): the  *)
(* scraper polls the download directory while the browser starts, finishes *)
(* and rewrites files in it, in any order and between any two looks.  The  *)
(* browser reports no total, so the end of a download is inferred from     *)
(* silence.  Time is counted in polls (half a second of the code).         *)
(***************************************************************************)
EXTENDS Integers, FiniteSets

CONSTANTS
  File,              \* the files the bank may send
  Settle,            \* settle_seconds
  IncompleteSettle,  \* incomplete_settle_seconds
  Timeout,           \* timeout
  MaxSize            \* bound: how often a finished file changes its size

ASSUME DownloadAssumption ==
  /\ {Settle, IncompleteSettle, Timeout, MaxSize} \subseteq Nat \ {0}
  /\ Settle <= IncompleteSettle
  /\ IsFiniteSet(File)

VARIABLES
  disk,         \* each file in the directory: absent, partial, or finished with a size
  expected,     \* expected_files, 0 for None
  now,          \* time.monotonic()
  at,           \* the waiting thread: scan, visit, decide, done
  todo,         \* entries of the listing not looked at yet
  finished, partial,        \* what _scan_download_dir has found so far
  snapshot, stableSince,    \* locals of _wait_for_downloads
  outcome,      \* none, settled, late (some files at the deadline), failed
  changed,      \* history: when each file last changed
  listed, seen  \* history: files in the last listing and in the one before

browser == <<disk, changed>>
locals  == <<todo, finished, partial, snapshot, stableSince>>
vars    == <<browser, locals, expected, now, at, outcome, listed, seen>>

Never == -1
Absent  == [state |-> "absent", size |-> 0]
Partial == [state |-> "partial", size |-> 0]
Done(n) == [state |-> "finished", size |-> n]

-----------------------------------------------------------------------------
(* Chrome writes a partial file and renames it when it is complete; a      *)
(* finished file may be written again.                                     *)

Change(f, was, is) ==
  /\ disk[f] = was
  /\ disk' = [disk EXCEPT ![f] = is]
  /\ changed' = [changed EXCEPT ![f] = now]
  /\ UNCHANGED <<locals, expected, now, at, outcome, listed, seen>>

Begin(f)   == Change(f, Absent, Partial)
Rename(f)  == Change(f, Partial, Done(1))
Rewrite(f) == \E n \in 1 .. MaxSize - 1 : Change(f, Done(n), Done(n + 1))
Browser    == \E f \in File : Begin(f) \/ Rename(f) \/ Rewrite(f)

-----------------------------------------------------------------------------
(* The waiting thread.                                                     *)

Present == {f \in File : disk[f] # Absent}

\* directory.iterdir(): the names of the moment, each looked at later.
List ==
  /\ at = "scan"
  /\ todo' = {<<f, disk[f].state>> : f \in Present}
  /\ finished' = {} /\ partial' = FALSE
  /\ listed' = Present /\ seen' = listed
  /\ at' = "visit"
  /\ UNCHANGED <<browser, snapshot, stableSince, expected, now, outcome>>

IsPartial(name) == name = "partial"

\* A name that a rename has taken away is skipped; one that cannot be read
\* counts as a partial download.
Visit ==
  \E e \in todo :
    /\ at = "visit"
    /\ todo' = todo \ {e}
    /\ \/ disk[e[1]].state # e[2] /\ UNCHANGED <<finished, partial>>
       \/ IsPartial(e[2]) /\ disk[e[1]].state = e[2] /\ partial' = TRUE /\ UNCHANGED finished
       \/ ~IsPartial(e[2]) /\ finished' = finished \union {<<e[1], disk[e[1]].size>>} /\ UNCHANGED partial
       \/ ~IsPartial(e[2]) /\ partial' = TRUE /\ UNCHANGED finished
    /\ UNCHANGED <<browser, snapshot, stableSince, expected, now, at, outcome, listed, seen>>

\* Mutant of StillSince: a partial file does not end the silence.
StillSinceAnyway ==
  IF finished # snapshot \/ stableSince = Never THEN now ELSE stableSince

\* Since when the finished files have been the same with none partial.
StillSince ==
  CASE partial -> Never
    [] ~partial /\ (finished # snapshot \/ stableSince = Never) -> now
    [] OTHER -> stableSince

Complete == expected = 0 \/ Cardinality(finished) >= expected
Required == IF Complete THEN Settle ELSE IncompleteSettle
Settled  == finished # {} /\ StillSince # Never /\ now - StillSince >= Required

\* Mutant of Late: the deadline is set anew in every turn of the loop.
NeverLate == FALSE

Late     == now >= Timeout

\* Times past the deadline are not told apart.
Later    == IF now < Timeout THEN now + 1 ELSE now

Result ==
  CASE Settled -> "settled"
    [] ~Settled /\ Late -> IF finished # {} THEN "late" ELSE "failed"
    [] OTHER -> "none"

\* One turn of the loop after its scan, and the half second of sleep after it.
Decide ==
  /\ at = "visit" /\ todo = {}
  /\ snapshot' = finished
  /\ stableSince' = StillSince
  /\ outcome' = Result
  /\ IF Result = "none" THEN at' = "scan" /\ now' = Later ELSE at' = "done" /\ now' = now
  /\ UNCHANGED <<browser, todo, finished, partial, expected, listed, seen>>

Init ==
  /\ disk = [f \in File |-> Absent] /\ changed = [f \in File |-> 0]
  /\ expected \in 0 .. Cardinality(File)
  /\ now = 0 /\ at = "scan"
  /\ todo = {} /\ finished = {} /\ partial = FALSE
  /\ snapshot = {} /\ stableSince = Never
  /\ outcome = "none" /\ listed = {} /\ seen = {}

Wait == List \/ Visit \/ Decide
Next == Browser \/ Wait
Spec == Init /\ [][Next]_vars

\* The loop goes on by itself; the browser need not do anything.
FairSpec == Spec /\ WF_vars(Wait)

-----------------------------------------------------------------------------
(* Properties.                                                             *)

\* Every variable has its type, and the loop never runs past its deadline.
TypeOK ==
  /\ disk \in [File -> {Absent, Partial} \union {Done(n) : n \in 1 .. MaxSize}]
  /\ changed \in [File -> 0 .. Timeout]
  /\ expected \in 0 .. Cardinality(File)
  /\ now \in 0 .. Timeout
  /\ at \in {"scan", "visit", "done"}
  /\ todo \subseteq File \X {"partial", "finished"}
  /\ finished \subseteq File \X (1 .. MaxSize) /\ snapshot \subseteq File \X (1 .. MaxSize)
  /\ partial \in BOOLEAN
  /\ stableSince \in -1 .. Timeout
  /\ outcome \in {"none", "settled", "late", "failed"}
  /\ listed \subseteq File /\ seen \subseteq File

Returned == {e[1] : e \in snapshot}

\* Files reported before the deadline have been quiet for as long as asked
\* (longer while fewer than expected have come), and no download that one
\* poll saw under way is left out of what the next one reports.
\* _wait_for_downloads infers this; the scan it infers it from is not atomic.
ReportIsSettled ==
  outcome = "settled" =>
    /\ seen \subseteq Returned
    /\ \A f \in Returned :
         changed[f] < now => now - changed[f] >= (IF expected = 0 \/ Cardinality(Returned) >= expected
                                                    THEN Settle ELSE IncompleteSettle)

\* Whatever the browser does or fails to do, the wait ends.
WaitEnds == <>(at = "done")
=============================================================================
