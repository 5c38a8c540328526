-------------------------- MODULE DownloadsProofs --------------------------
(***************************************************************************)
(* Proofs about the wait for downloads: for any number of files and any    *)
(* settling times, what it reports is settled.                             *)
(*                                                                         *)
(* A poll reads its files one after another, so what it found is true of   *)
(* no single moment.  The invariant says what it is worth all the same: a  *)
(* size that was read is the file's size or the file has changed since     *)
(* (Fresh in this poll, Kept from the one before), and a file that the     *)
(* last listing had is, while silence lasts, one that this poll reads      *)
(* (Quiet and Read).                                                       *)
(***************************************************************************)
EXTENDS Downloads, TLAPS, FiniteSetTheorems

IsDone(f) == disk[f].state = "finished"

\* No file is read twice in a poll.
Single(S)  == \A r, s \in S : r[1] = s[1] => r = s
ReadOnce ==
  /\ Single(todo) /\ Single(finished) /\ Single(snapshot)
  /\ \A e \in todo, r \in finished : e[1] # r[1]

\* Nothing has changed in the future.
InPast == \A f \in File : changed[f] <= now

\* A name of the listing is there still, and a finished one is finished.
StillThere == \A e \in todo : disk[e[1]].state # "absent" /\ (e[2] = "finished" => IsDone(e[1]))

\* What this poll has read, the file has, or it has changed at this very poll.
Fresh ==
  at = "visit" =>
    \A r \in finished :
      /\ IsDone(r[1]) /\ r[2] <= disk[r[1]].size
      /\ disk[r[1]].size # r[2] => changed[r[1]] = now

\* What the last poll read, a file has only if it did not change since the silence began.
Kept ==
  stableSince # Never /\ at # "done" =>
    \A r \in snapshot :
      /\ IsDone(r[1]) /\ r[2] <= disk[r[1]].size
      /\ disk[r[1]].size = r[2] => changed[r[1]] <= stableSince

\* In silence, no file of the last listing is partial.
Quiet ==
  stableSince # Never =>
    /\ at = "scan"  => \A f \in listed : IsDone(f)
    /\ at = "visit" => \A f \in seen : IsDone(f)

\* A file of this listing that was passed over has become a finished one.
Accounted ==
  at = "visit" =>
    \A f \in listed :
      \/ \E e \in todo : e[1] = f
      \/ partial
      \/ IsDone(f)

\* In silence, this poll reads every file of the listing before.
Read ==
  at = "visit" /\ stableSince # Never =>
    \A f \in seen :
      \/ <<f, "finished">> \in todo
      \/ \E r \in finished : r[1] = f
      \/ partial

\* Until the wait is over, nothing is reported.
Undecided == at # "done" => outcome = "none"

IInv ==
  /\ TypeOK /\ Undecided /\ ReadOnce /\ InPast /\ StillThere /\ Fresh /\ Kept
  /\ Quiet /\ Accounted /\ Read /\ ReportIsSettled

-----------------------------------------------------------------------------
\* Readings of different files are no more than the files.
LEMMA AsMany ==
  ASSUME NEW S \in SUBSET (File \X Nat), Single(S)
  PROVE  /\ Cardinality({e[1] : e \in S}) \in Nat /\ Cardinality(S) \in Nat
         /\ Cardinality(S) <= Cardinality({e[1] : e \in S})
<1> DEFINE F == {e[1] : e \in S}
           g == [e \in S |-> e[1]]
<1>1. IsFiniteSet(F)
  <2>1. IsFiniteSet(File) /\ F \subseteq File
    BY DownloadAssumption
  <2> QED BY <2>1, FS_Subset
<1>2. g \in Injection(S, F)
  BY DEF Single, Injection, IsInjective
<1> HIDE DEF F, g
<1>3. IsFiniteSet(S) /\ Cardinality(S) <= Cardinality(F)
  BY <1>1, <1>2, FS_Injection
<1> QED BY <1>1, <1>3, FS_CardinalityType DEF F

\* A step of the browser changes one file, for good and for the better.
LEMMA BrowserStep ==
  ASSUME TypeOK, InPast, Browser
  PROVE  /\ UNCHANGED <<locals, expected, now, at, outcome, listed, seen>>
         /\ disk' \in [File -> {Absent, Partial} \union {Done(n) : n \in 1 .. MaxSize}]
         /\ changed' \in [File -> 0 .. Timeout]
         /\ \A g \in File :
              /\ changed'[g] \in {changed[g], now}
              /\ disk[g].state # "absent" => disk'[g].state # "absent"
              /\ IsDone(g) => IsDone(g)' /\ disk[g].size <= disk'[g].size
              /\ IsDone(g) /\ disk'[g].size = disk[g].size => changed'[g] = changed[g]
              /\ IsDone(g) /\ disk'[g].size # disk[g].size => changed'[g] = now
<1>1. PICK f \in File : Begin(f) \/ Rename(f) \/ Rewrite(f)
  BY DEF Browser
<1>2. now \in 0 .. Timeout /\ Timeout \in Nat /\ MaxSize \in Nat \ {0}
  BY DownloadAssumption DEF TypeOK
<1>3. CASE Begin(f)
  BY <1>2, <1>3, SMTT(30) DEF Begin, Change, TypeOK, Absent, Partial, Done, IsDone
<1>4. CASE Rename(f)
  BY <1>2, <1>4, SMTT(30) DEF Rename, Change, TypeOK, Absent, Partial, Done, IsDone
<1>5. CASE Rewrite(f)
  <2>1. PICK n \in 1 .. MaxSize - 1 : Change(f, Done(n), Done(n + 1))
    BY <1>5 DEF Rewrite
  <2>2. n + 1 \in 1 .. MaxSize /\ n < n + 1
    BY <1>2, <2>1
  <2> QED BY <1>2, <2>1, <2>2, SMTT(30) DEF Change, TypeOK, Absent, Partial, Done, IsDone
<1> QED BY <1>1, <1>3, <1>4, <1>5

-----------------------------------------------------------------------------
(* What each step keeps.                                                   *)

LEMMA Initially == Init => IInv
<1> SUFFICES ASSUME Init PROVE IInv
  OBVIOUS
<1>1. Timeout \in Nat \ {0} /\ MaxSize \in Nat \ {0}
  BY DownloadAssumption
<1>2. TypeOK
  <2>1. /\ disk \in [File -> {Absent, Partial} \union {Done(n) : n \in 1 .. MaxSize}]
        /\ changed \in [File -> 0 .. Timeout] /\ expected \in 0 .. Cardinality(File)
    BY <1>1 DEF Init
  <2>2. now \in 0 .. Timeout /\ stableSince \in -1 .. Timeout
    BY <1>1 DEF Init, Never
  <2>3. /\ todo = {} /\ finished = {} /\ snapshot = {} /\ listed = {} /\ seen = {}
        /\ partial = FALSE /\ at = "scan" /\ outcome = "none"
    BY DEF Init
  <2> QED BY <2>1, <2>2, <2>3 DEF TypeOK
<1> QED BY <1>1, <1>2
      DEF Init, IInv, Undecided, ReadOnce, Single, InPast, StillThere, Fresh, Kept, Quiet, Accounted, Read,
          ReportIsSettled, Never

LEMMA BrowserKeeps == IInv /\ Browser => IInv'
<1> SUFFICES ASSUME IInv, Browser PROVE IInv'
  OBVIOUS
<1> USE DEF IInv
<1>1. /\ UNCHANGED <<locals, expected, now, at, outcome, listed, seen>>
      /\ disk' \in [File -> {Absent, Partial} \union {Done(n) : n \in 1 .. MaxSize}]
      /\ changed' \in [File -> 0 .. Timeout]
      /\ \A g \in File :
           /\ changed'[g] \in {changed[g], now}
           /\ disk[g].state # "absent" => disk'[g].state # "absent"
           /\ IsDone(g) => IsDone(g)' /\ disk[g].size <= disk'[g].size
           /\ IsDone(g) /\ disk'[g].size = disk[g].size => changed'[g] = changed[g]
           /\ IsDone(g) /\ disk'[g].size # disk[g].size => changed'[g] = now
  BY BrowserStep
<1>2. TypeOK' /\ Undecided'
  BY <1>1 DEF TypeOK, Undecided, locals
<1>3. ReadOnce' /\ StillThere' /\ InPast'
  <2>1. now \in Int
    BY DownloadAssumption DEF TypeOK
  <2> QED BY <1>1, <2>1 DEF ReadOnce, Single, StillThere, InPast, locals, TypeOK
<1>4. \A g \in File : disk[g].size \in Int /\ disk'[g].size \in Int
  BY <1>1, DownloadAssumption DEF TypeOK, Absent, Partial, Done
<1>5. Fresh'
  <2> SUFFICES ASSUME at' = "visit", NEW r \in finished'
               PROVE  /\ IsDone(r[1])' /\ r[2] <= disk'[r[1]].size
                      /\ disk'[r[1]].size # r[2] => changed'[r[1]] = now'
    BY DEF Fresh
  <2>1. r \in finished /\ at = "visit" /\ r[1] \in File /\ r[2] \in Int /\ now' = now
    BY <1>1 DEF locals, TypeOK
  <2>2. IsDone(r[1]) /\ r[2] <= disk[r[1]].size /\ (disk[r[1]].size # r[2] => changed[r[1]] = now)
    BY <2>1 DEF Fresh
  <2>3. IsDone(r[1])' /\ r[2] <= disk'[r[1]].size
    BY <1>1, <1>4, <2>1, <2>2
  <2>4. disk'[r[1]].size # r[2] => changed'[r[1]] = now
    BY <1>1, <2>1, <2>2
  <2> QED BY <2>1, <2>3, <2>4
<1>6. Kept'
  <2> SUFFICES ASSUME stableSince' # Never, at' # "done", NEW r \in snapshot'
               PROVE  /\ IsDone(r[1])' /\ r[2] <= disk'[r[1]].size
                      /\ disk'[r[1]].size = r[2] => changed'[r[1]] <= stableSince'
    BY DEF Kept
  <2>1. /\ r \in snapshot /\ at # "done" /\ r[1] \in File /\ r[2] \in Int
        /\ stableSince' = stableSince /\ stableSince # Never
    BY <1>1 DEF locals, TypeOK
  <2>2. IsDone(r[1]) /\ r[2] <= disk[r[1]].size /\ (disk[r[1]].size = r[2] => changed[r[1]] <= stableSince)
    BY <2>1 DEF Kept
  <2>3. IsDone(r[1])' /\ r[2] <= disk'[r[1]].size
    BY <1>1, <1>4, <2>1, <2>2
  <2>4. ASSUME disk'[r[1]].size = r[2] PROVE changed'[r[1]] <= stableSince
    <3>1. disk[r[1]].size = r[2]
      BY ONLY <1>1, <1>4, <2>1, <2>2, <2>4
    <3>2. changed'[r[1]] = changed[r[1]]
      BY ONLY <1>1, <2>1, <2>2, <2>4, <3>1
    <3> QED BY <2>2, <3>1, <3>2
  <2> QED BY <2>1, <2>3, <2>4
<1>7. Quiet' /\ Accounted' /\ Read'
  <2>1. UNCHANGED <<at, todo, finished, partial, stableSince, listed, seen>> /\ listed \subseteq File /\ seen \subseteq File
    BY <1>1 DEF locals, TypeOK
  <2> QED BY <1>1, <2>1 DEF Quiet, Accounted, Read
<1>8. ReportIsSettled'
  <2>1. UNCHANGED <<snapshot, now, outcome, seen, expected>>
    BY <1>1 DEF locals
  <2>2. \A f \in {e[1] : e \in snapshot} : f \in File
    BY DEF TypeOK
  <2>3. \A f \in File : changed'[f] < now => changed'[f] = changed[f]
    BY <1>1, DownloadAssumption DEF TypeOK
  <2> QED BY <2>1, <2>2, <2>3 DEF ReportIsSettled, Returned
<1> QED BY <1>2, <1>3, <1>5, <1>6, <1>7, <1>8

LEMMA ListKeeps == IInv /\ List => IInv'
<1> SUFFICES ASSUME IInv, List PROVE IInv'
  OBVIOUS
<1> USE DEF IInv
<1>1. \A f \in File : disk[f].state \in {"absent", "partial", "finished"} /\ (disk[f].state = "absent" => disk[f] = Absent)
  BY DEF TypeOK, Absent, Partial, Done
<1>2. todo' \subseteq File \X {"partial", "finished"}
  <2>1. \A f \in Present : f \in File /\ disk[f].state \in {"partial", "finished"}
    BY <1>1 DEF Present
  <2> QED BY <2>1 DEF List
<1>3. TypeOK' /\ Undecided'
  BY <1>2 DEF List, TypeOK, Undecided, browser, Present
<1>4. \A f \in Present : <<f, disk[f].state>> \in todo'
  BY DEF List
<1>5. \A e \in todo' : e[1] \in Present /\ e[2] = disk[e[1]].state
  BY DEF List
<1>6. ReadOnce' /\ InPast' /\ StillThere' /\ Fresh' /\ Kept'
  <2>1. Single(todo')
    <3> SUFFICES ASSUME NEW d \in todo', NEW e \in todo', d[1] = e[1] PROVE d = e
      BY DEF Single
    <3> QED BY <1>2, <1>5
  <2>2. UNCHANGED <<snapshot, disk, changed, now, stableSince>> /\ finished' = {} /\ at = "scan" /\ at' = "visit"
    BY DEF List, browser
  <2>3. StillThere'
    BY <1>1, <1>2, <1>5, <2>2 DEF StillThere, IsDone, Present
  <2>4. ReadOnce' /\ InPast'
    BY <2>1, <2>2 DEF ReadOnce, Single, InPast
  <2>5. Fresh' /\ Kept'
    BY <2>2 DEF Fresh, Kept, IsDone
  <2> QED BY <2>3, <2>4, <2>5
<1>7. \A f \in Present : \E e \in todo' : e[1] = f
  BY <1>4
<1>8. Quiet' /\ Accounted'
  BY <1>7 DEF List, Quiet, Accounted, browser, IsDone
<1>9. Read'
  <2> SUFFICES ASSUME stableSince' # Never, NEW f \in seen' PROVE <<f, "finished">> \in todo'
    BY DEF Read
  <2>1. f \in listed /\ stableSince # Never /\ at = "scan" /\ f \in File
    BY DEF List, TypeOK
  <2>2. disk[f].state = "finished"
    BY <2>1 DEF Quiet, IsDone
  <2>3. f \in Present
    BY <2>1, <2>2 DEF Present, Absent
  <2> QED BY <2>2, <2>3, <1>4
<1>10. ReportIsSettled'
  <2>1. outcome' # "settled"
    BY DEF List, Undecided
  <2> QED BY <2>1 DEF ReportIsSettled
<1> QED BY <1>3, <1>6, <1>8, <1>9, <1>10

LEMMA VisitKeeps == IInv /\ Visit => IInv'
<1> SUFFICES ASSUME IInv, Visit PROVE IInv'
  OBVIOUS
<1> USE DEF IInv
<1>1. PICK e \in todo :
        /\ at = "visit" /\ todo' = todo \ {e}
        /\ \/ disk[e[1]].state # e[2] /\ UNCHANGED <<finished, partial>>
           \/ IsPartial(e[2]) /\ disk[e[1]].state = e[2] /\ partial' = TRUE /\ UNCHANGED finished
           \/ ~IsPartial(e[2]) /\ finished' = finished \union {<<e[1], disk[e[1]].size>>} /\ UNCHANGED partial
           \/ ~IsPartial(e[2]) /\ partial' = TRUE /\ UNCHANGED finished
        /\ UNCHANGED <<browser, snapshot, stableSince, expected, now, at, outcome, listed, seen>>
  BY DEF Visit
<1>2. e[1] \in File /\ e[2] \in {"partial", "finished"} /\ e = <<e[1], e[2]>>
  BY DEF TypeOK
<1>3. e[2] = "finished" => IsDone(e[1]) /\ disk[e[1]].size \in 1 .. MaxSize
  <2>1. ASSUME e[2] = "finished" PROVE IsDone(e[1])
    BY <2>1, <1>1 DEF StillThere
  <2>2. ASSUME IsDone(e[1]) PROVE disk[e[1]].size \in 1 .. MaxSize
    BY <2>2, <1>2 DEF TypeOK, IsDone, Absent, Partial, Done
  <2> QED BY <2>1, <2>2
\* What is read is what is there.
<1>4. \/ UNCHANGED finished
      \/ /\ finished' = finished \union {<<e[1], disk[e[1]].size>>}
         /\ e[2] = "finished" /\ IsDone(e[1]) /\ disk[e[1]].size \in 1 .. MaxSize
  BY <1>1, <1>2, <1>3 DEF IsPartial
\* A file that is neither counted as partial nor read has become a finished one.
<1>5. partial' \/ IsDone(e[1])
  <2>1. CASE e[2] = "finished"
    BY <2>1, <1>3
  <2>2. CASE e[2] = "partial"
    <3>1. disk[e[1]].state # e[2] => disk[e[1]].state \in {"absent", "finished"}
      BY <2>2, <1>2 DEF TypeOK, Absent, Partial, Done
    <3>2. disk[e[1]].state # "absent"
      BY <1>1 DEF StillThere
    <3> QED BY <2>2, <3>1, <3>2, <1>1, <1>2 DEF IsPartial, IsDone
  <2> QED BY <2>1, <2>2, <1>2
<1>6. partial => partial'
  BY <1>1
<1>7. UNCHANGED <<disk, changed, snapshot, stableSince, expected, now, at, outcome, listed, seen>>
  BY <1>1 DEF browser
<1>8. TypeOK' /\ Undecided'
  <2>1. finished' \subseteq File \X (1 .. MaxSize)
    BY <1>2, <1>4 DEF TypeOK
  <2>2. partial' \in BOOLEAN /\ todo' \subseteq todo
    BY <1>1 DEF TypeOK
  <2> QED BY <1>7, <2>1, <2>2 DEF TypeOK, Undecided
<1>9. ReadOnce'
  <2>1. \A d \in todo' : d \in todo /\ d[1] # e[1]
    BY <1>1 DEF ReadOnce, Single
  <2>2. \A r \in finished : r[1] # e[1]
    BY <1>1 DEF ReadOnce
  <2>3. CASE UNCHANGED finished
    BY <2>1, <2>3, <1>7 DEF ReadOnce, Single
  <2>4. CASE finished' = finished \union {<<e[1], disk[e[1]].size>>}
    BY <2>1, <2>2, <2>4, <1>7 DEF ReadOnce, Single
  <2> QED BY <1>4, <2>3, <2>4
<1>10. InPast' /\ StillThere'
  BY <1>1, <1>7 DEF InPast, StillThere, IsDone
<1>11. Fresh'
  <2>1. disk[e[1]].size \in 1 .. MaxSize => disk[e[1]].size <= disk[e[1]].size
    BY DownloadAssumption
  <2> QED BY <1>1, <1>4, <1>7, <2>1 DEF Fresh, IsDone
<1>12. Kept' /\ Quiet'
  BY <1>1, <1>7 DEF Kept, Quiet, IsDone
<1>13. Accounted'
  <2> SUFFICES ASSUME NEW f \in listed
               PROVE  (\E d \in todo' : d[1] = f) \/ partial' \/ IsDone(f)
    BY <1>7 DEF Accounted, IsDone
  <2>1. (\E d \in todo : d[1] = f) \/ partial \/ IsDone(f)
    BY <1>1 DEF Accounted
  <2> QED BY <1>1, <1>5, <1>6, <2>1
<1>14. Read'
  <2> SUFFICES ASSUME stableSince # Never, NEW f \in seen
               PROVE  <<f, "finished">> \in todo' \/ (\E r \in finished' : r[1] = f) \/ partial'
    BY <1>7 DEF Read
  <2>1. <<f, "finished">> \in todo \/ (\E r \in finished : r[1] = f) \/ partial
    BY <1>1 DEF Read
  <2>2. CASE <<f, "finished">> = e
    <3>1. e[1] = f /\ ~IsPartial(e[2]) /\ disk[e[1]].state = e[2]
      <4>1. e[1] = f /\ e[2] = "finished"
        BY <2>2
      <4> QED BY <4>1, <1>3 DEF IsPartial, IsDone
    <3>2. partial' \/ finished' = finished \union {<<e[1], disk[e[1]].size>>}
      BY <3>1, <1>1
    <3>3. <<f, disk[e[1]].size>>[1] = f
      OBVIOUS
    <3> QED BY <3>1, <3>2, <3>3
  <2>3. CASE <<f, "finished">> # e
    BY <2>1, <2>3, <1>1, <1>4, <1>6
  <2> QED BY <2>2, <2>3
<1>15. ReportIsSettled'
  BY <1>1, <1>7 DEF Undecided, ReportIsSettled
<1> QED BY <1>8, <1>9, <1>10, <1>11, <1>12, <1>13, <1>14, <1>15

LEMMA DecideKeeps == IInv /\ Decide => IInv'
<1> SUFFICES ASSUME IInv, Decide PROVE IInv'
  OBVIOUS
<1> USE DEF IInv
<1>1. /\ at = "visit" /\ todo = {} /\ snapshot' = finished /\ stableSince' = StillSince /\ outcome' = Result
      /\ UNCHANGED <<disk, changed, todo, finished, partial, expected, listed, seen>>
      /\ at' \in {"scan", "done"} /\ (at' = "done" <=> Result # "none")
  BY DEF Decide, browser
<1>2. now \in 0 .. Timeout /\ Timeout \in Nat /\ stableSince \in -1 .. Timeout /\ Never = -1
  BY DownloadAssumption DEF TypeOK, Never
<1>3. Result \in {"settled", "late", "failed", "none"}
  BY DEF Result
\* The clock stands still when the wait is over, and else goes on by one.
<1>4. /\ at' = "done" => now' = now
      /\ at' = "scan" => now' = now + 1 /\ now < Timeout
  <2>1. Result = "none" => ~Late
    BY DEF Result
  <2> QED BY <1>1, <1>2, <2>1 DEF Decide, Later, Late
<1>5. now' \in 0 .. Timeout /\ now <= now'
  BY <1>1, <1>2, <1>4
<1>6. /\ StillSince \in {Never, now, stableSince}
      /\ StillSince # Never => ~partial
      /\ StillSince # Never /\ StillSince # now => finished = snapshot /\ StillSince = stableSince
  BY <1>2 DEF StillSince, TypeOK
<1>7. TypeOK' /\ Undecided'
  <2>1. stableSince' \in -1 .. Timeout
    BY <1>1, <1>2, <1>6
  <2> QED BY <1>1, <1>3, <1>5, <2>1 DEF TypeOK, Undecided
<1>8. ReadOnce' /\ InPast' /\ StillThere' /\ Fresh'
  <2>1. InPast'
    <3> SUFFICES ASSUME NEW f \in File PROVE changed[f] <= now'
      BY <1>1 DEF InPast
    <3> QED BY <1>2, <1>5 DEF InPast, TypeOK
  <2> QED BY <1>1, <2>1 DEF ReadOnce, Single, StillThere, Fresh
\* A reading that is still the file's size was true all through the silence.
<1>9. ASSUME StillSince # Never, NEW r \in finished
      PROVE  /\ IsDone(r[1]) /\ r[2] <= disk[r[1]].size
             /\ disk[r[1]].size = r[2] => changed[r[1]] <= StillSince
  <2>1. r[1] \in File /\ changed[r[1]] <= now
    BY DEF TypeOK, InPast
  <2>2. IsDone(r[1]) /\ r[2] <= disk[r[1]].size
    BY <1>1 DEF Fresh
  <2>3. CASE StillSince = now
    BY <2>1, <2>2, <2>3
  <2>4. CASE StillSince # now
    <3>1. r \in snapshot /\ StillSince = stableSince /\ stableSince # Never
      BY <1>6, <1>9, <2>4
    <3> QED BY <1>1, <2>2, <3>1 DEF Kept
  <2> QED BY <2>3, <2>4
<1>10. Kept'
  BY <1>1, <1>9 DEF Kept, IsDone
<1>11. Quiet' /\ Accounted' /\ Read'
  <2>1. ASSUME StillSince # Never, NEW f \in listed PROVE IsDone(f)
    BY <2>1, <1>1, <1>6 DEF Accounted
  <2> QED BY <1>1, <2>1 DEF Quiet, Accounted, Read, IsDone
<1>12. ReportIsSettled'
  <2> SUFFICES ASSUME outcome' = "settled" PROVE ReportIsSettled'
    BY DEF ReportIsSettled
  <2>1. Settled
    BY <1>1 DEF Result
  <2>2. at' = "done" /\ now' = now
    BY <1>1, <1>4
  <2>3. Required \in {Settle, IncompleteSettle} /\ Settle \in Nat \ {0} /\ IncompleteSettle \in Nat \ {0} /\ Settle <= IncompleteSettle
    BY DownloadAssumption DEF Required
  <2>4. StillSince # Never /\ StillSince # now /\ now - StillSince >= Required /\ StillSince \in Int
    BY <1>2, <1>6, <2>1, <2>3 DEF Settled
  <2>5. finished = snapshot /\ StillSince = stableSince /\ stableSince # Never /\ ~partial
    BY <1>6, <2>4
  <2> DEFINE R == {e[1] : e \in finished}
  <2>6. Returned' = R
    BY <1>1 DEF Returned
  <2>7. seen \subseteq R
    <3> SUFFICES ASSUME NEW f \in seen PROVE f \in R
      OBVIOUS
    <3>1. \E r \in finished : r[1] = f
      BY <1>1, <2>5 DEF Read
    <3> QED BY <3>1
  <2>8. Required >= (IF expected = 0 \/ Cardinality(R) >= expected THEN Settle ELSE IncompleteSettle)
    <3>1. finished \in SUBSET (File \X Nat) /\ Single(finished)
      BY DownloadAssumption DEF TypeOK, ReadOnce
    <3>2. Cardinality(R) \in Nat /\ Cardinality(finished) \in Nat /\ Cardinality(finished) <= Cardinality(R)
      BY <3>1, AsMany
    <3>3. expected \in Int
      <4>1. Cardinality(File) \in Nat
        BY DownloadAssumption, FS_CardinalityType
      <4> QED BY <4>1 DEF TypeOK
    <3> HIDE DEF R
    <3> QED BY <2>3, <3>2, <3>3 DEF Required, Complete
  <2>9. ASSUME NEW f \in R, changed[f] < now PROVE now - changed[f] >= Required
    <3>1. PICK r \in finished : r[1] = f
      OBVIOUS
    <3>2. f \in File /\ changed[f] \in Int /\ now \in Int
      BY <3>1, DownloadAssumption DEF TypeOK
    <3>3. disk[f].size = r[2]
      BY <1>1, <2>9, <3>1, <3>2 DEF Fresh
    <3>4. changed[f] <= StillSince
      BY <1>9, <2>4, <3>1, <3>3
    <3> QED BY <2>3, <2>4, <3>2, <3>4
  <2>10. \A f \in R : changed[f] < now =>
           now - changed[f] >= (IF expected = 0 \/ Cardinality(R) >= expected THEN Settle ELSE IncompleteSettle)
    <3> SUFFICES ASSUME NEW f \in R, changed[f] < now
                 PROVE  now - changed[f] >= (IF expected = 0 \/ Cardinality(R) >= expected THEN Settle ELSE IncompleteSettle)
      OBVIOUS
    <3>1. changed[f] \in Int /\ now \in Int
      BY DownloadAssumption DEF TypeOK
    <3>2. now - changed[f] >= Required
      BY <2>9
    <3> HIDE DEF R
    <3> QED BY <2>3, <2>8, <3>1, <3>2
  <2> HIDE DEF R
  <2> QED BY <1>1, <2>2, <2>6, <2>7, <2>10 DEF ReportIsSettled
<1> QED BY <1>7, <1>8, <1>10, <1>11, <1>12

-----------------------------------------------------------------------------
\* The invariant holds of every reachable state: for any finite set of files,
\* any expectation of them and any settling times and deadline.
THEOREM Invariant == Spec => []IInv
<1>1. IInv /\ [Next]_vars => IInv'
  <2> SUFFICES ASSUME IInv, [Next]_vars PROVE IInv'
    OBVIOUS
  <2>1. CASE Browser
    BY <2>1, BrowserKeeps
  <2>2. CASE List
    BY <2>2, ListKeeps
  <2>3. CASE Visit
    BY <2>3, VisitKeeps
  <2>4. CASE Decide
    BY <2>4, DecideKeeps
  <2>5. CASE UNCHANGED vars
    BY <2>5 DEF vars, browser, locals, IInv, TypeOK, Undecided, ReadOnce, Single, InPast, StillThere, Fresh,
         Kept, Quiet, Accounted, Read, ReportIsSettled, Returned, IsDone
  <2> QED BY <2>1, <2>2, <2>3, <2>4, <2>5 DEF Next, Wait
<1> QED BY Initially, <1>1, PTL DEF Spec

\* What _wait_for_downloads reports as settled was quiet for as long as asked,
\* and no download that a poll saw is missing from it, though the scans from
\* which it concludes this are interleaved with the browser's work.
THEOREM ReportSettled == Spec => []ReportIsSettled
<1>1. IInv => ReportIsSettled
  BY DEF IInv
<1> QED BY Invariant, <1>1, PTL
=============================================================================
