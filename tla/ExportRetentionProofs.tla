----------------------- MODULE ExportRetentionProofs ------------------------
(***************************************************************************)
(* Proofs about the files of an export: for any set of exports and files,  *)
(* any TTL and any number of moments, what is served is whole, is there    *)
(* for the TTL, and what nobody needs is somebody's to remove.             *)
(*                                                                         *)
(* The properties speak of a request's answer, which was fixed when the    *)
(* disk was looked at.  Kept and Forgotten say what the disk and the job   *)
(* list owe to an export that has ended; Doomed and Removing say that      *)
(* whoever removes something has seen that its time is up, and that it     *)
(* still is: the clock only goes forward.                                  *)
(***************************************************************************)
EXTENDS ExportRetention, TLAPS

Replies == {"none", "unknown", "failed", "notReady", "gone", "pending", "broken", "torn", "whole"}
Asking  == [job : Export \cup {Nobody}, file : File \cup {Nobody},
            from : {"none", "copy", "scratch"}, reply : Replies]

\* The TTL of a moment has passed.
Past(moment) == moment + Ttl < clock

\* The worker has one export, which is running, and its directories.
Working ==
  /\ at = "idle" <=> job = Nobody
  /\ job # Nobody => status[job] = "running"
  /\ at \in {"download", "retain", "copy"} => job \in tmp
  /\ at = "copy" => dir[job] # "none"

\* Nothing has a time that is still to come.
Ages ==
  /\ \A k \in Export : mtime[k] <= clock /\ made[k] <= finished[k]
  /\ at # "idle" => cutoff + Ttl <= clock

\* A job that is not listed has not begun, or ended long ago.
Forgotten ==
  \A k \in Export :
    /\ status[k] \in {"queued", "running"} => k \in known
    /\ Finished(k) /\ k \notin known => Past(finished[k])

\* A submission removes the scratch of exports that ended long ago.
Doomed ==
  \A j \in Export :
    /\ status[j] # "submitting" => doomed[j] = {}
    /\ \A k \in doomed[j] : Finished(k) /\ Past(finished[k])

\* The files of an export that is done are all there until their time is up.
Kept ==
  \A k \in Export : status[k] = "done" =>
    /\ files[k] \in {"copy", "scratch"}
    /\ files[k] = "copy" =>
         /\ \A f \in File : copy[k][f] # "partial"
         /\ \/ Past(made[k])
            \/ dir[k] # "none" /\ mtime[k] = made[k] /\ \A f \in File : copy[k][f] = "whole"
    /\ files[k] = "scratch" => Past(made[k]) \/ k \in tmp

\* What prune_exports removes is too old.
Removing ==
  at = "rmtree" =>
    /\ entry \in todo
    /\ status[entry] = "done" /\ files[entry] = "copy" => Past(made[entry])

\* What it has passed over is not.
Swept ==
  /\ at \in {"prune", "rmtree", "download"} =>
       \A k \in Export : dir[k] = "preferred" => k \in todo \/ mtime[k] >= cutoff
  /\ at = "download" => todo = {}

\* What a request's answer was based on.
Asked ==
  /\ request \in Asking
  /\ request.reply # "torn"
  /\ request.reply = "pending" =>
       /\ request.job \in Export /\ request.file \in File
       /\ status[request.job] = "done" /\ request.from = files[request.job]
  /\ request.reply \in {"unknown", "gone", "broken"} =>
       /\ request.job \in Export
       /\ Finished(request.job) \/ status[request.job] = "lost"
       /\ status[request.job] = "done" => Past(made[request.job])

\* Whose a temporary directory is (the first half of NothingPilesUp).
Temps ==
  \A j \in tmp :
    \/ j = job
    \/ status[j] = "done" /\ files[j] = "scratch" /\ (j \in known \/ \E k \in Export : j \in doomed[k])
    \/ status[j] \in {"unretained", "lost"}

IInv ==
  /\ TypeOK /\ Working /\ Ages /\ Forgotten /\ Doomed
  /\ Kept /\ Removing /\ Swept /\ Asked /\ Temps

-----------------------------------------------------------------------------
\* The invariant says what the properties say.
LEMMA InvariantSuffices ==
  IInv => TypeOK /\ ServedIsWhole /\ AvailableForTtl /\ NothingPilesUp
<1> SUFFICES ASSUME IInv PROVE TypeOK /\ ServedIsWhole /\ AvailableForTtl /\ NothingPilesUp
  OBVIOUS
<1>1. ServedIsWhole
  BY DEF IInv, Asked, ServedIsWhole
<1>2. AvailableForTtl
  BY RetentionAssumption DEF IInv, Asked, AvailableForTtl, Past, TypeOK, Moment
<1>3. NothingPilesUp
  BY DEF IInv, Temps, Swept, NothingPilesUp
<1> QED BY <1>1, <1>2, <1>3 DEF IInv

LEMMA Initially == Init => IInv
<1> SUFFICES ASSUME Init PROVE IInv
  OBVIOUS
<1> USE RetentionAssumption DEF Init
<1>1. TypeOK
  BY DEF TypeOK, Moment, NoRequest
<1>2. Working /\ Ages /\ Forgotten /\ Doomed /\ Kept
  BY DEF Working, Ages, Forgotten, Doomed, Kept, Finished, Ends
<1>3. Removing /\ Swept /\ Asked /\ Temps
  BY DEF Removing, Swept, Asked, Temps, NoRequest, Asking, Replies
<1> QED BY <1>1, <1>2, <1>3 DEF IInv

-----------------------------------------------------------------------------
(* The submissions.                                                        *)

LEMMA SubmitKeeps == ASSUME IInv, NEW j \in Export, Submit(j) PROVE IInv'
<1> USE RetentionAssumption DEF IInv, Submit, clients, disk, pruning
<1>1. status[j] = "none" /\ j # job /\ doomed[j] = {}
  BY DEF Working, Doomed
<1>2. \A k \in Export : Old(k) => Finished(k) /\ Past(finished[k])
  BY DEF Old, Past, TypeOK, Moment
<1>3. TypeOK'
  BY DEF TypeOK, Scratch
<1>4. Working' /\ Ages'
  BY <1>1 DEF Working, Ages, TypeOK
<1>5. Forgotten'
  BY <1>2 DEF Forgotten, Finished, Ends, Past, TypeOK, Old
<1>6. Doomed'
  BY <1>1, <1>2 DEF Doomed, Finished, Ends, Past, TypeOK, Scratch
<1>7. Kept' /\ Removing' /\ Swept' /\ Asked'
  BY <1>1 DEF Kept, Removing, Swept, Asked, Finished, Ends, Past, TypeOK
<1>8. Temps'
  BY <1>1 DEF Temps, Scratch, TypeOK
<1> QED BY <1>3, <1>4, <1>5, <1>6, <1>7, <1>8

LEMMA RemoveScratchKeeps == ASSUME IInv, NEW j \in Export, RemoveScratch(j) PROVE IInv'
<1> USE RetentionAssumption DEF IInv, RemoveScratch, clients, pruning
<1> PICK k \in doomed[j] : tmp' = tmp \ {k} /\ doomed' = [doomed EXCEPT ![j] = @ \ {k}]
  OBVIOUS
<1>1. k \in Export /\ Finished(k) /\ Past(finished[k])
  BY DEF Doomed, TypeOK
<1>2. k # job /\ Past(made[k])
  BY <1>1 DEF Working, Finished, Ends, Ages, Past, TypeOK, Moment
<1>3. TypeOK' /\ Working' /\ Ages' /\ Forgotten' /\ Removing' /\ Swept' /\ Asked'
  BY <1>2 DEF TypeOK, Working, Ages, Forgotten, Removing, Swept, Asked, Finished, Past
<1>4. Doomed'
  BY DEF Doomed, Finished, Past, TypeOK
<1>5. Kept'
  BY <1>2 DEF Kept, Past, TypeOK
<1>6. Temps'
  BY DEF Temps, TypeOK
<1> QED BY <1>3, <1>4, <1>5, <1>6

LEMMA InsertKeeps == ASSUME IInv, NEW j \in Export, Insert(j) PROVE IInv'
<1> USE RetentionAssumption DEF IInv, Insert, clients, disk, pruning
<1>1. j # job
  BY DEF Working
<1>2. TypeOK' /\ Working' /\ Ages' /\ Kept' /\ Removing' /\ Swept' /\ Asked'
  BY <1>1 DEF TypeOK, Working, Ages, Kept, Removing, Swept, Asked, Finished, Ends, Past
<1>3. Forgotten' /\ Doomed'
  BY DEF Forgotten, Doomed, Finished, Ends, Past, TypeOK
<1>4. Temps'
  BY <1>1 DEF Temps, TypeOK
<1> QED BY <1>2, <1>3, <1>4

-----------------------------------------------------------------------------
(* The worker's pruning.                                                   *)

LEMMA TakeKeeps == ASSUME IInv, Take PROVE IInv'
<1> USE RetentionAssumption DEF IInv, Take, clients, disk
<1> PICK j \in Export : status[j] = "queued" /\ job' = j /\ status' = [status EXCEPT ![j] = "running"]
  OBVIOUS
<1>1. j # Nobody /\ job = Nobody
  BY DEF Working
<1>2. TypeOK' /\ Working' /\ Ages' /\ Forgotten' /\ Doomed'
  BY <1>1 DEF TypeOK, Moment, Working, Ages, Forgotten, Doomed, Finished, Ends, Past
<1>3. Kept' /\ Removing' /\ Swept' /\ Asked'
  BY DEF Kept, Removing, Swept, Asked, Finished, Ends, Past, TypeOK
<1>4. Temps'
  BY <1>1 DEF Temps, TypeOK
<1> QED BY <1>2, <1>3, <1>4

LEMMA PruneKeepKeeps == ASSUME IInv, PruneKeep PROVE IInv'
<1> USE RetentionAssumption DEF IInv, PruneKeep, clients, jobs, disk
<1>1. TypeOK' /\ Working' /\ Ages' /\ Forgotten' /\ Doomed' /\ Kept' /\ Removing' /\ Asked' /\ Temps'
  BY DEF TypeOK, Working, Ages, Forgotten, Doomed, Kept, Removing, Asked, Temps, Finished, Past
<1>2. Swept'
  BY DEF Swept, Recent
<1> QED BY <1>1, <1>2

\* A copy that is too old by its directory's time is too old by its job's:
\* nothing was written or removed in it since.
LEMMA PruneRemoveKeeps == ASSUME IInv, PruneRemove PROVE IInv'
<1> USE RetentionAssumption DEF IInv, PruneRemove, clients, jobs, disk
<1>1. PICK k \in todo : ~Recent(k) /\ entry' = k
  OBVIOUS
<1>2. k \in Export /\ mtime[k] < cutoff /\ cutoff + Ttl <= clock
  BY <1>1 DEF Recent, Ages, TypeOK, Moment
<1>3. status[k] = "done" /\ files[k] = "copy" => Past(made[k])
  BY <1>2 DEF Kept, Past, TypeOK, Moment
<1>4. TypeOK' /\ Working' /\ Ages' /\ Forgotten' /\ Doomed' /\ Kept' /\ Asked' /\ Temps'
  BY <1>1 DEF TypeOK, Working, Ages, Forgotten, Doomed, Kept, Asked, Temps, Finished, Past
<1>5. Removing' /\ Swept'
  BY <1>1, <1>3 DEF Removing, Swept, Past
<1> QED BY <1>4, <1>5

LEMMA RemoveFileKeeps == ASSUME IInv, RemoveFile PROVE IInv'
<1> USE RetentionAssumption DEF IInv, RemoveFile, clients, jobs, pruning
<1>1. PICK f \in File : copy' = [copy EXCEPT ![entry][f] = "none"]
  OBVIOUS
<1>2. entry \in Export /\ (status[entry] = "done" /\ files[entry] = "copy" => Past(made[entry]))
  BY DEF Removing, TypeOK
<1>3. TypeOK'
  BY <1>1, <1>2 DEF TypeOK
<1>4. Working' /\ Ages' /\ Forgotten' /\ Doomed' /\ Removing' /\ Asked' /\ Temps'
  BY <1>2 DEF TypeOK, Moment, Working, Ages, Forgotten, Doomed, Removing, Asked, Temps, Finished, Past
<1>5. Kept'
  BY <1>1, <1>2 DEF Kept, Past, TypeOK
<1>6. Swept'
  BY <1>2 DEF Swept, Removing, TypeOK
<1> QED BY <1>3, <1>4, <1>5, <1>6

LEMMA RemoveDirKeeps == ASSUME IInv, RemoveDir PROVE IInv'
<1> USE RetentionAssumption DEF IInv, RemoveDir, clients, jobs
<1>1. entry \in Export /\ (status[entry] = "done" /\ files[entry] = "copy" => Past(made[entry]))
  BY DEF Removing, TypeOK
<1>2. TypeOK' /\ Working' /\ Ages' /\ Forgotten' /\ Doomed' /\ Removing' /\ Asked' /\ Temps'
  BY <1>1 DEF TypeOK, Working, Ages, Forgotten, Doomed, Removing, Asked, Temps, Finished, Past
<1>3. Kept'
  BY <1>1 DEF Kept, Past, TypeOK
<1>4. Swept'
  BY <1>1 DEF Swept, TypeOK
<1> QED BY <1>2, <1>3, <1>4

-----------------------------------------------------------------------------
(* run_export.                                                             *)

LEMMA MakeTempKeeps == ASSUME IInv, MakeTemp PROVE IInv'
<1> USE RetentionAssumption DEF IInv, MakeTemp, clients, jobs, pruning
<1>1. job \in Export
  BY DEF Working, TypeOK
<1>2. TypeOK' /\ Working' /\ Ages' /\ Forgotten' /\ Doomed' /\ Kept' /\ Removing' /\ Swept' /\ Asked'
  BY <1>1 DEF TypeOK, Working, Ages, Forgotten, Doomed, Kept, Removing, Swept, Asked, Finished, Past
<1>3. Temps'
  BY DEF Temps
<1> QED BY <1>2, <1>3

LEMMA DownloadKeeps == ASSUME IInv, Download PROVE IInv'
BY DEF IInv, Download, clients, jobs, disk, pruning, TypeOK, Working, Ages, Forgotten, Doomed, Kept,
       Removing, Swept, Asked, Temps, Finished, Past

\* How an export may end, and what has become of its files.
Ending(how, place) ==
  /\ End(how, place) /\ UNCHANGED <<dir, copy, mtime>>
  /\ \/ how = "failed" /\ place = "none" /\ tmp' = tmp \ {job}
     \/ how = "unretained" /\ place = "none" /\ tmp' = tmp
     \/ how = "done" /\ place = "scratch" /\ tmp' = tmp
     \/ how = "done" /\ place = "copy" /\ tmp' = tmp \ {job} /\ dir[job] # "none"
        /\ \A f \in File : copy[job][f] = "whole"

LEMMA EndingKeeps ==
  ASSUME IInv, at \in {"download", "retain", "copy"}, NEW how, NEW place, Ending(how, place)
  PROVE  IInv'
<1> USE RetentionAssumption DEF IInv, Ending, End, clients, pruning
<1>1. job \in Export /\ job \in tmp /\ status[job] = "running" /\ job \in known /\ job' = Nobody
  BY DEF Working, Forgotten, TypeOK
<1>2. \A k \in Export : k # job => /\ status'[k] = status[k] /\ finished'[k] = finished[k]
                                   /\ files'[k] = files[k] /\ made'[k] = made[k]
                                   /\ k \in tmp' <=> k \in tmp
  BY DEF TypeOK
<1>3. /\ status'[job] = how /\ finished'[job] = clock /\ files'[job] = place
      /\ made'[job] = IF place = "copy" THEN mtime[job] ELSE clock
  BY <1>1 DEF TypeOK
<1>4. TypeOK'
  BY <1>1 DEF TypeOK, Ends, Moment
<1>5. Working'
  BY DEF Working
<1>6. Ages'
  BY <1>2, <1>3 DEF Ages, TypeOK, Moment
<1>7. Forgotten'
  BY <1>1, <1>2, <1>3 DEF Forgotten, Finished, Ends, Past
<1>8. Doomed'
  BY <1>1, <1>2, <1>3 DEF Doomed, Finished, Ends, Past, TypeOK
<1>9. Kept'
  BY <1>1, <1>2, <1>3 DEF Kept, Past, TypeOK
<1>10. Removing' /\ Swept'
  BY DEF Removing, Swept
<1>11. Asked'
  BY <1>1, <1>2, <1>3 DEF Asked, Finished, Ends, Past
<1>12. Temps'
  BY <1>1, <1>2, <1>3 DEF Temps, TypeOK
<1> QED BY <1>4, <1>5, <1>6, <1>7, <1>8, <1>9, <1>10, <1>11, <1>12

LEMMA DownloadFailsKeeps == ASSUME IInv, DownloadFails PROVE IInv'
<1>1. Ending("failed", "none")
  BY DEF DownloadFails, Ending
<1> QED BY <1>1, EndingKeeps DEF DownloadFails

LEMMA KeepScratchKeeps == ASSUME IInv, at \in {"retain", "copy"}, KeepScratch PROVE IInv'
<1>1. Ending("done", "scratch")
  BY DEF KeepScratch, Ending, disk
<1> QED BY <1>1, EndingKeeps

LEMMA MakeDirKeeps == ASSUME IInv, MakeDir PROVE IInv'
<1>1. CASE KeepScratch
  BY <1>1, KeepScratchKeeps DEF MakeDir
<1>2. CASE End("unretained", "none") /\ UNCHANGED disk
  <2>1. Ending("unretained", "none")
    BY <1>2 DEF Ending, disk
  <2> QED BY <2>1, EndingKeeps DEF MakeDir
<1>3. ASSUME NEW place \in {"preferred", "fallback"},
             /\ dir' = [dir EXCEPT ![job] = place]
             /\ mtime' = [mtime EXCEPT ![job] = clock]
             /\ at' = "copy"
             /\ UNCHANGED <<clients, jobs, tmp, copy, pruning, job>>
      PROVE  IInv'
  <2> USE RetentionAssumption, <1>3 DEF IInv, MakeDir, clients, jobs, pruning
  <2>1. job \in Export /\ status[job] = "running"
    BY DEF Working, TypeOK
  <2>2. TypeOK' /\ Working' /\ Ages' /\ Forgotten' /\ Doomed' /\ Removing' /\ Swept' /\ Asked' /\ Temps'
    BY <2>1 DEF TypeOK, Moment, Working, Ages, Forgotten, Doomed, Removing, Swept, Asked, Temps, Finished, Past
  <2>3. Kept'
    BY <2>1 DEF Kept, Past, TypeOK
  <2> QED BY <2>2, <2>3
<1> QED BY <1>1, <1>2, <1>3 DEF MakeDir

LEMMA StartCopyKeeps == ASSUME IInv, StartCopy PROVE IInv'
<1> USE RetentionAssumption DEF IInv, StartCopy, clients, jobs, pruning
<1>1. PICK f \in File : copy' = [copy EXCEPT ![job][f] = "partial"]
  OBVIOUS
<1>2. job \in Export /\ status[job] = "running"
  BY DEF Working, TypeOK
<1>3. TypeOK'
  BY <1>1, <1>2 DEF TypeOK
<1>4. Working' /\ Ages' /\ Forgotten' /\ Doomed' /\ Removing' /\ Swept' /\ Asked' /\ Temps'
  BY <1>2 DEF TypeOK, Moment, Working, Ages, Forgotten, Doomed, Removing, Swept, Asked, Temps, Finished, Past
<1>5. Kept'
  BY <1>1, <1>2 DEF Kept, Past, TypeOK
<1> QED BY <1>3, <1>4, <1>5

LEMMA EndCopyKeeps == ASSUME IInv, EndCopy PROVE IInv'
<1> USE RetentionAssumption DEF IInv, EndCopy, clients, jobs, pruning
<1>1. PICK f \in File : copy' = [copy EXCEPT ![job][f] = "whole"]
  OBVIOUS
<1>2. job \in Export /\ status[job] = "running"
  BY DEF Working, TypeOK
<1>3. TypeOK'
  BY <1>1, <1>2 DEF TypeOK
<1>4. Working' /\ Ages' /\ Forgotten' /\ Doomed' /\ Removing' /\ Swept' /\ Asked' /\ Temps'
  BY DEF Working, Ages, Forgotten, Doomed, Removing, Swept, Asked, Temps, Finished, Past
<1>5. Kept'
  BY <1>1, <1>2 DEF Kept, Past, TypeOK
<1> QED BY <1>3, <1>4, <1>5

LEMMA CopyFailsKeeps == ASSUME IInv, CopyFails PROVE IInv'
BY KeepScratchKeeps DEF CopyFails

LEMMA RetainedKeeps == ASSUME IInv, Retained PROVE IInv'
<1>1. Ending("done", "copy")
  BY DEF Retained, Ending, IInv, Working
<1> QED BY <1>1, EndingKeeps DEF Retained

-----------------------------------------------------------------------------
(* The requests, time, and restarts.                                       *)

LEMMA AskKeeps == ASSUME IInv, NEW j \in Export, NEW f \in File, Ask(j, f) PROVE IInv'
<1> USE RetentionAssumption DEF IInv, Ask, jobs, disk, pruning
<1>1. TypeOK' /\ Working' /\ Ages' /\ Forgotten' /\ Doomed' /\ Kept' /\ Removing' /\ Swept' /\ Temps'
  BY DEF TypeOK, Working, Ages, Forgotten, Doomed, Kept, Removing, Swept, Temps, Finished, Past, ReplyTo
<1>2. ReplyTo(j, f) = "unknown" => (Finished(j) /\ Past(finished[j])) \/ status[j] = "lost"
  BY DEF ReplyTo, Forgotten, Finished, Ends, TypeOK
<1>3. ReplyTo(j, f) = "gone" => status[j] = "done" /\ Past(made[j])
  BY DEF ReplyTo, Contents, Kept, TypeOK
<1>4. ReplyTo(j, f) = "pending" => status[j] = "done"
  BY DEF ReplyTo
<1>5. ReplyTo(j, f) \in {"unknown", "failed", "notReady", "gone", "pending"}
  BY DEF ReplyTo
<1>6. Past(finished[j]) => Past(made[j])
  BY DEF Past, Ages, TypeOK, Moment
<1>7. Asked'
  BY <1>2, <1>3, <1>4, <1>5, <1>6 DEF Asked, Asking, Replies, Finished, Ends, Past, TypeOK
<1> QED BY <1>1, <1>7

LEMMA SendKeeps == ASSUME IInv, Send PROVE IInv'
<1> USE RetentionAssumption DEF IInv
<1> DEFINE C == Contents(request.job, request.file, request.from)
<1>1. request.job \in Export /\ request.file \in File /\ status[request.job] = "done"
      /\ request.from = files[request.job] /\ request \in Asking
  BY DEF Asked, Send
<1>2. C \in {"none", "whole"} /\ (C = "none" => Past(made[request.job]))
  BY <1>1 DEF Contents, Kept, TypeOK
<1>3. request' = [request EXCEPT !.reply = IF C = "none" THEN "broken" ELSE "whole"]
  BY <1>2 DEF Send
<1>4. UNCHANGED <<clock, jobs, disk, pruning, job, at>>
  BY DEF Send
<1> USE <1>4 DEF jobs, disk, pruning
<1>5. Asked'
  BY <1>1, <1>2, <1>3 DEF Asked, Asking, Replies, Finished, Ends, Past
<1>6. request'.reply \in {"broken", "whole"}
  BY <1>1, <1>3 DEF Asking
<1>7. TypeOK' /\ Working' /\ Ages' /\ Forgotten' /\ Doomed' /\ Kept' /\ Removing' /\ Swept' /\ Temps'
  BY <1>6 DEF TypeOK, Working, Ages, Forgotten, Doomed, Kept, Removing, Swept, Temps, Finished, Past
<1> QED BY <1>5, <1>7

LEMMA TickKeeps == ASSUME IInv, Tick PROVE IInv'
<1> USE RetentionAssumption DEF IInv, Tick, jobs, disk, pruning
<1>1. \A m \in Moment : Past(m) => m + Ttl < clock'
  BY DEF Past, TypeOK, Moment
<1>2. TypeOK' /\ Working' /\ Ages'
  BY DEF TypeOK, Moment, Working, Ages
<1>3. Forgotten' /\ Doomed' /\ Kept' /\ Removing' /\ Asked'
  BY <1>1 DEF Forgotten, Doomed, Kept, Removing, Asked, Finished, Past, TypeOK
<1>4. Swept' /\ Temps'
  BY DEF Swept, Temps
<1> QED BY <1>2, <1>3, <1>4

\* What was done is lost to the requests, and what is on disk stays.
LEMMA RestartKeeps == ASSUME IInv, Restart PROVE IInv'
<1> USE RetentionAssumption DEF IInv, Restart, disk
<1>1. \A j \in tmp : status[j] # "none"
  BY DEF Temps, Working, TypeOK
<1>2. TypeOK' /\ Working' /\ Ages' /\ Forgotten' /\ Doomed'
  BY DEF TypeOK, Working, Ages, Forgotten, Doomed, Finished, Ends, NoRequest
<1>3. Kept' /\ Removing' /\ Swept' /\ Asked'
  BY DEF Kept, Removing, Swept, Asked, Asking, Replies, NoRequest, Finished, Ends
<1>4. Temps'
  BY <1>1 DEF Temps, TypeOK
<1> QED BY <1>2, <1>3, <1>4

-----------------------------------------------------------------------------
\* The invariant holds of every reachable state.
THEOREM Invariant == Spec => []IInv
<1>1. IInv /\ [Next]_vars => IInv'
  <2> SUFFICES ASSUME IInv, [Next]_vars PROVE IInv'
    OBVIOUS
  <2>1. CASE \E j \in Export : Submit(j) \/ RemoveScratch(j) \/ Insert(j)
    BY <2>1, SubmitKeeps, RemoveScratchKeeps, InsertKeeps
  <2>2. CASE Take \/ Prune
    BY <2>2, TakeKeeps, PruneKeepKeeps, PruneRemoveKeeps, RemoveFileKeeps, RemoveDirKeeps DEF Prune
  <2>3. CASE MakeTemp \/ DownloadFails \/ Download
    BY <2>3, MakeTempKeeps, DownloadFailsKeeps, DownloadKeeps
  <2>4. CASE Retain
    BY <2>4, MakeDirKeeps, StartCopyKeeps, EndCopyKeeps, CopyFailsKeeps, RetainedKeeps DEF Retain
  <2>5. CASE \E j \in Export, f \in File : Ask(j, f)
    BY <2>5, AskKeeps
  <2>6. CASE Send \/ Tick \/ Restart
    BY <2>6, SendKeeps, TickKeeps, RestartKeeps
  <2>7. CASE UNCHANGED vars
    BY <2>7 DEF vars, clients, jobs, disk, pruning, IInv, TypeOK, Working, Ages, Forgotten, Doomed, Kept,
         Removing, Swept, Asked, Temps, Finished, Past
  <2> QED BY <2>1, <2>2, <2>3, <2>4, <2>5, <2>6, <2>7 DEF Next, Work
<1> QED BY Initially, <1>1, PTL DEF Spec

\* Every variable of the export's files keeps its type.
THEOREM TypeCorrect == Spec => []TypeOK
<1>1. IInv => TypeOK
  BY InvariantSuffices
<1> QED BY Invariant, <1>1, PTL

\* No download is part of a file, although shutil.copy2 and rmtree work while
\* requests read (retain_exports hands out a copy only when it is complete).
THEOREM Whole == Spec => []ServedIsWhole
<1>1. IInv => ServedIsWhole
  BY InvariantSuffices
<1> QED BY Invariant, <1>1, PTL

\* A finished export can be fetched until its TTL is over: neither _prune nor
\* prune_exports takes anything from it before, and a restart is the only
\* other way to lose it.
THEOREM Available == Spec => []AvailableForTtl
<1>1. IInv => AvailableForTtl
  BY InvariantSuffices
<1> QED BY Invariant, <1>1, PTL

\* Temporary directories have an owner and old copies are gone before the
\* next download (run_export, prune_exports, _prune).
THEOREM Tidy == Spec => []NothingPilesUp
<1>1. IInv => NothingPilesUp
  BY InvariantSuffices
<1> QED BY Invariant, <1>1, PTL
=============================================================================
