-------------------------- MODULE ExportRetention --------------------------
(***************************************************************************)
(* Where an export's files live: the temporary directory of run_export     *)
(* (pennyspy/scrapers/router.py), the retained copy of                     *)
(* pennyspy/scrapers/export_store.py, the pruning of both, and the         *)
(* downloads of pennyspy/jobs/router.py that race with it.  Directories    *)
(* carry the name of the export they were made for.                        *)
(***************************************************************************)
EXTENDS Integers, FiniteSets

CONSTANTS
  Export,    \* export jobs
  File,      \* the files each export downloads
  Nobody,    \* no export
  Ttl,       \* 7 days: FINISHED_EXPORT_TTL_SECONDS and DEFAULT_MAX_AGE_DAYS
  MaxClock   \* bound: the last moment

ASSUME RetentionAssumption == Nobody \notin Export /\ Ttl \in Nat /\ MaxClock \in Nat

VARIABLES
  clock,
  status,    \* each export's job
  finished,  \* Job.finished_at
  known,     \* keys of JobManager._jobs
  files,     \* where Job.files point to
  doomed,    \* scratch directories _prune has dropped, by the submission that removes them
  tmp,       \* exports whose temporary directory exists
  dir,       \* where an export's retained directory is, if it exists
  copy,      \* each file in it
  mtime,     \* the retained directory's modification time
  made,      \* history: that time when the job ended
  job, at,   \* the worker: its export, and where in run_export it is
  cutoff, todo, entry,  \* prune_exports: its locals
  request    \* one GET /exports/{id}/file

clients == <<request, clock>>
jobs    == <<status, finished, known, files, doomed, made>>
disk    == <<tmp, dir, copy, mtime>>
pruning == <<cutoff, todo, entry>>
vars    == <<clients, jobs, disk, pruning, job, at>>

NoRequest == [job |-> Nobody, file |-> Nobody, from |-> "none", reply |-> "none"]

Ends == {"done", "failed", "unretained"}
Finished(j) == status[j] \in Ends

-----------------------------------------------------------------------------
(* JobManager.submit as far as it removes things (module JobQueue has the  *)
(* rest).                                                                  *)

\* Mutant of Old: an export is forgotten like any other job.
OldAtOnce(j) == Finished(j) /\ finished[j] < clock

Old(j) == Finished(j) /\ finished[j] < clock - Ttl

Scratch(S) == {k \in S : files[k] = "scratch"}

\* _prune's lock section.
Submit(j) ==
  /\ status[j] = "none"
  /\ status' = [status EXCEPT ![j] = "submitting"]
  /\ known' = {k \in known : ~Old(k)}
  /\ doomed' = [doomed EXCEPT ![j] = Scratch({k \in known : Old(k)})]
  /\ UNCHANGED <<clients, finished, files, made, disk, pruning, job, at>>

\* The directories go after the lock was left.
RemoveScratch(j) ==
  /\ \E k \in doomed[j] :
       /\ tmp' = tmp \ {k}
       /\ doomed' = [doomed EXCEPT ![j] = @ \ {k}]
  /\ UNCHANGED <<clients, status, finished, known, files, made, dir, copy, mtime,
                 pruning, job, at>>

Insert(j) ==
  /\ status[j] = "submitting"
  /\ doomed[j] = {}
  /\ status' = [status EXCEPT ![j] = "queued"]
  /\ known' = known \cup {j}
  /\ UNCHANGED <<clients, finished, files, doomed, made, disk, pruning, job, at>>

-----------------------------------------------------------------------------
(* The worker: prune_exports.                                              *)

\* Only the preferred directory is searched, never the fallback.
Take ==
  /\ at = "idle"
  /\ \E j \in Export :
       /\ status[j] = "queued"
       /\ job' = j
       /\ status' = [status EXCEPT ![j] = "running"]
  /\ cutoff' = clock - Ttl
  /\ todo' = {k \in Export : dir[k] = "preferred"}
  /\ at' = "prune"
  /\ UNCHANGED <<clients, finished, known, files, doomed, made, disk, entry>>

\* Mutant of Recent: a day too many.
RecentOrOlder(k) == mtime[k] >= cutoff - 1

Recent(k) == mtime[k] >= cutoff

PruneKeep ==
  /\ at = "prune"
  /\ \E k \in todo : Recent(k) /\ todo' = todo \ {k}
  /\ UNCHANGED <<clients, jobs, disk, cutoff, entry, job, at>>

PruneRemove ==
  /\ at = "prune"
  /\ \E k \in todo : ~Recent(k) /\ entry' = k
  /\ at' = "rmtree"
  /\ UNCHANGED <<clients, jobs, disk, cutoff, todo, job>>

\* rmtree takes the files one by one; downloads go on meanwhile.
RemoveFile ==
  /\ at = "rmtree"
  /\ \E f \in File :
       /\ copy[entry][f] # "none"
       /\ copy' = [copy EXCEPT ![entry][f] = "none"]
  /\ mtime' = [mtime EXCEPT ![entry] = clock]
  /\ UNCHANGED <<clients, jobs, tmp, dir, pruning, job, at>>

RemoveDir ==
  /\ at = "rmtree"
  /\ \A f \in File : copy[entry][f] = "none"
  /\ dir' = [dir EXCEPT ![entry] = "none"]
  /\ todo' = todo \ {entry}
  /\ entry' = Nobody
  /\ at' = "prune"
  /\ UNCHANGED <<clients, jobs, tmp, copy, mtime, cutoff, job>>

-----------------------------------------------------------------------------
(* The worker: run_export.                                                 *)

MakeTemp ==
  /\ at = "prune" /\ todo = {}
  /\ tmp' = tmp \cup {job}
  /\ at' = "download"
  /\ UNCHANGED <<clients, jobs, dir, copy, mtime, pruning, job>>

\* The job's end, with its files at `place'.
End(how, place) ==
  /\ status' = [status EXCEPT ![job] = how]
  /\ finished' = [finished EXCEPT ![job] = clock]
  /\ files' = [files EXCEPT ![job] = place]
  /\ made' = [made EXCEPT ![job] = IF place = "copy" THEN mtime[job] ELSE clock]
  /\ job' = Nobody
  /\ at' = "idle"
  /\ UNCHANGED <<clients, known, doomed, pruning>>

\* Mutant of DownloadFails: an end the jobs do not have.
DownloadAborts ==
  /\ at = "download"
  /\ tmp' = tmp \ {job}
  /\ End("aborted", "none")
  /\ UNCHANGED <<dir, copy, mtime>>

\* The scraper raises, or a file it names is not there.
DownloadFails ==
  /\ at = "download"
  /\ tmp' = tmp \ {job}
  /\ End("failed", "none")
  /\ UNCHANGED <<dir, copy, mtime>>

Download ==
  /\ at = "download"
  /\ at' = "retain"
  /\ UNCHANGED <<clients, jobs, disk, pruning, job>>

\* The files stay where they were downloaded.
KeepScratch == End("done", "scratch") /\ UNCHANGED disk

\* _ensure_export_dir handles a PermissionError; any other OSError leaves
\* run_export past its rmtree.  What follows it is inside the try.
MakeDir ==
  /\ at = "retain"
  /\ \/ \E place \in {"preferred", "fallback"} :
          /\ dir' = [dir EXCEPT ![job] = place]
          /\ mtime' = [mtime EXCEPT ![job] = clock]
          /\ at' = "copy"
          /\ UNCHANGED <<clients, jobs, tmp, copy, pruning, job>>
     \/ End("unretained", "none") /\ UNCHANGED disk
     \/ KeepScratch

\* shutil.copy2 creates a file and fills it.
StartCopy ==
  /\ at = "copy"
  /\ \A f \in File : copy[job][f] # "partial"
  /\ \E f \in File :
       /\ copy[job][f] = "none"
       /\ copy' = [copy EXCEPT ![job][f] = "partial"]
  /\ mtime' = [mtime EXCEPT ![job] = clock]
  /\ UNCHANGED <<clients, jobs, tmp, dir, pruning, job, at>>

EndCopy ==
  /\ at = "copy"
  /\ \E f \in File :
       /\ copy[job][f] = "partial"
       /\ copy' = [copy EXCEPT ![job][f] = "whole"]
  /\ UNCHANGED <<clients, jobs, tmp, dir, mtime, pruning, job, at>>

\* Mutant of CopyFails: the incomplete copy is returned.
CopyFailsUnnoticed ==
  /\ at = "copy"
  /\ \E f \in File : copy[job][f] # "whole"
  /\ End("done", "copy")
  /\ UNCHANGED disk

\* OSError: what was copied is left behind, and nothing points to it.
CopyFails ==
  /\ at = "copy"
  /\ \E f \in File : copy[job][f] # "whole"
  /\ KeepScratch

Retained ==
  /\ at = "copy"
  /\ \A f \in File : copy[job][f] = "whole"
  /\ tmp' = tmp \ {job}
  /\ End("done", "copy")
  /\ UNCHANGED <<dir, copy, mtime>>

-----------------------------------------------------------------------------
(* GET /exports/{id}/file.                                                 *)

\* The file's contents at the path the request found, "none" without a file.
Contents(j, f, from) ==
  IF from = "copy" THEN (IF dir[j] = "none" THEN "none" ELSE copy[j][f])
  ELSE IF j \in tmp THEN "whole" ELSE "none"

ReplyTo(j, f) ==
  IF j \notin known THEN "unknown"
  ELSE IF status[j] \in {"failed", "unretained"} THEN "failed"
  ELSE IF status[j] # "done" THEN "notReady"
  ELSE IF Contents(j, f, files[j]) = "none" THEN "gone"
  ELSE "pending"

Ask(j, f) ==
  /\ request.reply # "pending"
  /\ status[j] \notin {"none", "submitting"}
  /\ request' = [job |-> j, file |-> f, from |-> files[j], reply |-> ReplyTo(j, f)]
  /\ UNCHANGED <<clock, jobs, disk, pruning, job, at>>

\* FileResponse opens the file after export_file has returned.
Send ==
  /\ request.reply = "pending"
  /\ request' = [request EXCEPT !.reply =
       CASE Contents(request.job, request.file, request.from) = "none"    -> "broken"
         [] Contents(request.job, request.file, request.from) = "partial" -> "torn"
         [] Contents(request.job, request.file, request.from) = "whole"   -> "whole"]
  /\ UNCHANGED <<clock, jobs, disk, pruning, job, at>>

-----------------------------------------------------------------------------
Tick ==
  /\ clock < MaxClock
  /\ clock' = clock + 1
  /\ UNCHANGED <<request, jobs, disk, pruning, job, at>>

\* Jobs live in memory; the directories stay.
Restart ==
  /\ known # {}
  /\ status' = [j \in Export |-> IF status[j] = "none" THEN "none" ELSE "lost"]
  /\ known' = {}
  /\ doomed' = [j \in Export |-> {}]
  /\ job' = Nobody
  /\ at' = "idle"
  /\ todo' = {}
  /\ entry' = Nobody
  /\ request' = NoRequest
  /\ UNCHANGED <<clock, finished, files, made, disk, cutoff>>

Init ==
  /\ clock = 0
  /\ status = [j \in Export |-> "none"]
  /\ finished = [j \in Export |-> 0]
  /\ known = {}
  /\ files = [j \in Export |-> "none"]
  /\ doomed = [j \in Export |-> {}]
  /\ tmp = {}
  /\ dir = [j \in Export |-> "none"]
  /\ copy = [j \in Export |-> [f \in File |-> "none"]]
  /\ mtime = [j \in Export |-> 0]
  /\ made = [j \in Export |-> 0]
  /\ job = Nobody
  /\ at = "idle"
  /\ cutoff = 0
  /\ todo = {}
  /\ entry = Nobody
  /\ request = NoRequest

Prune  == PruneKeep \/ PruneRemove \/ RemoveFile \/ RemoveDir
Retain == MakeDir \/ StartCopy \/ EndCopy \/ CopyFails \/ Retained
Work   == Take \/ Prune \/ MakeTemp \/ DownloadFails \/ Download \/ Retain

Next ==
  \/ \E j \in Export : Submit(j) \/ RemoveScratch(j) \/ Insert(j)
  \/ Work
  \/ \E j \in Export, f \in File : Ask(j, f)
  \/ Send
  \/ Tick
  \/ Restart

Spec == Init /\ [][Next]_vars

-----------------------------------------------------------------------------
Moment == 0 .. MaxClock

TypeOK ==
  /\ clock \in Moment /\ finished \in [Export -> Moment]
  /\ mtime \in [Export -> Moment] /\ made \in [Export -> Moment]
  /\ status \in [Export -> {"none", "submitting", "queued", "running", "lost"} \cup Ends]
  /\ known \subseteq Export /\ tmp \subseteq Export /\ todo \subseteq Export
  /\ files \in [Export -> {"none", "copy", "scratch"}]
  /\ doomed \in [Export -> SUBSET Export]
  /\ dir \in [Export -> {"none", "preferred", "fallback"}]
  /\ copy \in [Export -> [File -> {"none", "partial", "whole"}]]
  /\ job \in Export \cup {Nobody} /\ entry \in Export \cup {Nobody}
  /\ at \in {"idle", "prune", "rmtree", "download", "retain", "copy"}
  /\ cutoff \in -Ttl .. MaxClock
  /\ request.reply \in {"none", "unknown", "failed", "notReady", "gone", "pending",
                        "broken", "torn", "whole"}

(* A download is never part of a file, though copies fail halfway and        *)
(* directories are removed file by file while requests read them.            *)
ServedIsWhole == request.reply # "torn"

(* README: the files of a finished export can be fetched for 7 days.  Unless *)
(* the server restarted, a request for one fails only after that, whatever   *)
(* the two prunings (one by the job's end, one by the directory's age) and   *)
(* the request's own two looks at the disk come to between them.             *)
AvailableForTtl ==
  request.reply \in {"unknown", "gone", "broken"} /\ status[request.job] = "done"
    => clock > made[request.job] + Ttl

(* Nothing piles up: a temporary directory is somebody's to remove, the      *)
(* running export's, a listed job's scratch, or scratch that a submission is *)
(* about to remove (an export whose retention raised, and a restart, leave   *)
(* theirs behind); and when an export begins its download, no copy is left   *)
(* in the data directory that was too old when its pruning began.            *)
NothingPilesUp ==
  /\ \A j \in tmp :
       \/ j = job
       \/ status[j] = "done" /\ files[j] = "scratch"
          /\ (j \in known \/ \E k \in Export : j \in doomed[k])
       \/ status[j] \in {"unretained", "lost"}
  /\ at = "download" => \A k \in Export : dir[k] = "preferred" => mtime[k] >= cutoff

(* export_store.py:62 "retention is a safety net, so a failure here must     *)
(* never take down a scrape that otherwise succeeded".                       *)
RetentionIsSafetyNet ==
  \A j \in Export : status[j] # "unretained"
=============================================================================
