--------------------------- MODULE JobFeedProofs ----------------------------
(***************************************************************************)
(* Proofs about the feed of a job's end: for any number of progress        *)
(* updates, a page never shows an end that the job does not have, nor other *)
(* files than it ended with.                                               *)
(*                                                                         *)
(* A snapshot is read field by field while the worker writes, so it may be *)
(* of no single moment.  The argument is that of the order: once the state *)
(* is an end the worker writes no field of it any more (Over), snapshot()  *)
(* reads the state before the files (Reading), and the result, read before *)
(* the state, is the job's unless the reading began early, so that whatever *)
(* was made of a snapshot since is still true (Truthful).                  *)
(***************************************************************************)
EXTENDS JobFeed, SequenceTheorems, TLAPS

Result == <<"result", TRUE>>
Files  == <<"files", TRUE>>

\* The writes that the worker may have ahead of it.
Due ==
  \/ writes = << >>
  \/ phase = "work" /\ writes = <<SetState("running"), NewVersion>>
  \/ phase \in {"work", "noted", "over"} /\ writes = <<NewVersion>>
  \/ phase = "over" /\ \E end \in Ends : writes = <<SetState(end), NewVersion>>
  \/ phase \in {"noted", "returned"} /\ writes \in {<<Result>>, <<Files>>}

\* Each operation of the worker but the storing of a result or of files writes
\* the version once, and last.
Unwritten == IF writes \in {<< >>, <<Result>>, <<Files>>} THEN 0 ELSE 1
Begun     == IF phase = "queued" THEN 0 ELSE 1
Ended     == IF phase = "over" THEN 1 ELSE 0
Counted   == job.version + Unwritten <= progress + Begun + Ended

\* The job's state is an end once the worker has written it, and not before.
Over ==
  job.state \in Ends => phase = "over" /\ (writes = << >> \/ writes = <<NewVersion>>)

\* What a copy says of the end is so, and its result is the job's unless its
\* reading began early; its files are the job's, when they have been read.
SaysTheEnd(copy) ==
  /\ copy.state \in Ends => copy.state = job.state
  /\ copy.early \/ (job.state \in Ends /\ copy.result = job.result)
HasFiles(copy) == copy.state \in Ends => copy.files = job.files
Truthful(copy) == SaysTheEnd(copy) /\ HasFiles(copy)

Reading ==
  /\ reader \in [Readers -> [next : 0 .. Len(Fields) + 1, copy : Snapshot]]
  /\ \A r \in Readers : /\ SaysTheEnd(reader[r].copy)
                        /\ Complete(r) => HasFiles(reader[r].copy)

Sent == \A i \in 1 .. Len(wire) : Truthful(wire[i])

\* The page has a truthful copy, or made up a failure for a job that was lost.
Shown == Truthful(latest) \/ (latest.state = "failed" /\ ~known)

IInv == TypeOK /\ Due /\ Counted /\ Over /\ Reading /\ Sent /\ Shown

-----------------------------------------------------------------------------
(* The worker.                                                             *)

LEMMA FieldsAre ==
  /\ Len(Fields) = 4
  /\ Fields[1] = "result" /\ Fields[2] = "state" /\ Fields[3] = "version" /\ Fields[4] = "files"
BY DEF Fields

LEMMA OneWrite == ASSUME NEW a PROVE Head(<<a>>) = a /\ Tail(<<a>>) = << >>
OBVIOUS

LEMMA TwoWrites == ASSUME NEW a, NEW b PROVE Head(<<a, b>>) = a /\ Tail(<<a, b>>) = <<b>>
OBVIOUS

LEMMA Initially == Init => IInv
<1> SUFFICES ASSUME Init PROVE IInv
  OBVIOUS
<1> USE FeedAssumption, FieldsAre DEF Init
<1>1. Blank \in Snapshot
  BY DEF Blank, Snapshot, Ends
<1>2. TypeOK
  <2>1. wire \in Seq(Snapshot)
    BY EmptySeq
  <2>2. \A r \in Readers : reader[r].next \in 0 .. Len(Fields) + 1 /\ reader[r].copy \in Snapshot
    <3>1. \A r \in Readers : reader[r] = Fresh \/ reader[r] = Idle
      BY DEF Readers
    <3> QED BY ONLY <1>1, <3>1, FieldsAre DEF Fresh, Idle
  <2>3. sent \in -1 .. MaxProgress + 2
    OBVIOUS
  <2>4. /\ kind \in Kinds /\ job = Blank /\ latest = Blank /\ phase = "queued" /\ progress = 0
        /\ known = TRUE /\ linked = FALSE /\ stream = "off" /\ mode = "posting" /\ 0 \in 0 .. MaxProgress
    OBVIOUS
  <2> QED BY ONLY <1>1, <2>1, <2>2, <2>3, <2>4 DEF TypeOK
<1>3. Due /\ Counted /\ Over
  BY DEF Due, Counted, Unwritten, Begun, Ended, Over, Blank, Ends
<1>4. Reading
  <2>1. \A r \in Readers : reader[r] = Fresh \/ reader[r] = Idle
    BY DEF Readers
  <2>2. Fresh \in [next : 0 .. 5, copy : Snapshot] /\ Idle \in [next : 0 .. 5, copy : Snapshot]
    BY ONLY <1>1 DEF Fresh, Idle
  <2>3. reader \in [Readers -> [next : 0 .. 5, copy : Snapshot]]
    BY ONLY <2>2, Init DEF Init
  <2>4. SaysTheEnd(Blank) /\ HasFiles(Blank)
    BY ONLY DEF SaysTheEnd, HasFiles, Blank, Ends
  <2>5. \A r \in Readers : reader[r].copy = Blank
    BY ONLY <2>1 DEF Fresh, Idle
  <2> QED BY ONLY <2>3, <2>4, <2>5, FieldsAre DEF Reading
<1>5. Sent /\ Shown
  BY DEF Sent, Shown, Truthful, SaysTheEnd, HasFiles, Blank, Ends
<1> QED BY <1>2, <1>3, <1>4, <1>5 DEF IInv

\* The end of the job, once there is one, is not written over.
LEMMA EndStays ==
  ASSUME IInv, UNCHANGED <<kind, reader, wire, latest, known, mode, stream, sent, linked>>,
         job.state \in Ends => /\ job'.state = job.state
                               /\ job'.files = job.files /\ job'.result = job.result
  PROVE  Reading' /\ Sent' /\ Shown'
BY DEF IInv, Reading, Sent, Shown, Truthful, SaysTheEnd, HasFiles, Complete

LEMMA WriteKeeps == ASSUME IInv, Write PROVE IInv'
<1> USE FeedAssumption DEF IInv, Write, page
<1>1. job \in Snapshot /\ progress \in Nat /\ progress <= MaxProgress /\ job.version \in Nat
  BY DEF TypeOK, Snapshot
<1>0. \A w : w = Head(writes) =>
        job' = [job EXCEPT ![w[1]] = IF w[1] = "version" THEN job[w[1]] + 1 ELSE w[2]]
  OBVIOUS
<1>2. CASE phase = "work" /\ writes = <<SetState("running"), NewVersion>>
  <2>1. /\ job' = [job EXCEPT !["state"] = "running"] /\ writes' = <<NewVersion>>
    <3>1. Head(writes) = SetState("running") /\ writes' = <<NewVersion>>
      BY <1>2, TwoWrites
    <3> QED BY ONLY <1>0, <1>1, <3>1 DEF SetState, Snapshot
  <2>2. /\ job' \in Snapshot /\ job'.state = "running" /\ job'.version = job.version /\ job'.files = job.files
        /\ job.state \notin Ends
    BY <1>1, <1>2, <2>1 DEF Snapshot, Over, Ends, NewVersion
  <2>3. TypeOK'
    BY <2>2 DEF TypeOK
  <2>4. Due' /\ Counted' /\ Over'
    BY <1>1, <1>2, <2>1, <2>2
    DEF Due, Counted, Unwritten, Begun, Ended, Over, Ends, SetState, NewVersion, Result, Files
  <2> QED BY <2>2, <2>3, <2>4, EndStays
<1>3. CASE phase \in {"work", "noted", "over"} /\ writes = <<NewVersion>>
  <2>1. /\ job' = [job EXCEPT !["version"] = job["version"] + 1] /\ writes' = << >>
    <3>1. Head(writes) = NewVersion /\ writes' = << >>
      BY <1>3, OneWrite
    <3> QED BY ONLY <1>0, <1>1, <3>1 DEF NewVersion, Snapshot
  <2>2. job.version + 1 <= MaxProgress + 2 /\ job.version + 1 <= progress + Begun + Ended
    BY <1>1, <1>3 DEF Counted, Unwritten, Begun, Ended, NewVersion, Result, Files
  <2>3. /\ job' \in Snapshot /\ job'.state = job.state /\ job'.version = job.version + 1
        /\ job'.files = job.files /\ job'.result = job.result
    BY <1>1, <1>3, <2>1, <2>2 DEF Snapshot
  <2>4. TypeOK'
    BY <2>3 DEF TypeOK
  <2>5. Due' /\ Over'
    BY <1>3, <2>1, <2>3 DEF Due, Over
  <2>6. Counted'
    BY <1>1, <1>3, <2>1, <2>2, <2>3 DEF Counted, Unwritten, Begun, Ended
  <2> QED BY <2>3, <2>4, <2>5, <2>6, EndStays
<1>4. ASSUME NEW end \in Ends, phase = "over", writes = <<SetState(end), NewVersion>> PROVE IInv'
  <2>1. /\ job' = [job EXCEPT !["state"] = end] /\ writes' = <<NewVersion>>
    <3>1. Head(writes) = SetState(end) /\ writes' = <<NewVersion>>
      BY <1>4, TwoWrites
    <3> QED BY ONLY <1>0, <1>1, <3>1 DEF SetState, Snapshot
  <2>2. /\ job' \in Snapshot /\ job'.state = end /\ job'.version = job.version /\ job'.files = job.files
    BY <1>1, <1>4, <2>1 DEF Snapshot, Ends
  <2>3. job.state \notin Ends
    BY <1>4 DEF Over
  <2>4. TypeOK'
    BY <2>2 DEF TypeOK
  <2>5. Due' /\ Over'
    BY <1>4, <2>1, <2>2 DEF Due, Over
  <2>6. Counted'
    BY <1>1, <1>4, <2>1, <2>2 DEF Counted, Unwritten, Begun, Ended, SetState, NewVersion, Result, Files
  <2> QED BY <2>2, <2>3, <2>4, <2>5, <2>6, EndStays
<1>5. CASE phase \in {"noted", "returned"} /\ writes \in {<<Result>>, <<Files>>}
  <2>1. PICK field \in {"result", "files"} : job' = [job EXCEPT ![field] = TRUE]
    <3>1. CASE writes = <<Files>>
      <4>1. Head(writes) = Files
        BY <3>1, OneWrite
      <4>2. job' = [job EXCEPT !["files"] = TRUE]
        <5>1. job' = [job EXCEPT !["files"] = Files[2]]
          BY ONLY <1>0, <1>1, <4>1 DEF Files, Snapshot
        <5>2. Files[2] = TRUE
          BY ONLY DEF Files
        <5> QED BY ONLY <5>1, <5>2
      <4> QED BY <3>1, <4>2
    <3>2. CASE writes # <<Files>>
      <4>1. Head(writes) = Result
        BY <1>5, <3>2, OneWrite
      <4>2. job' = [job EXCEPT !["result"] = TRUE]
        <5>1. job' = [job EXCEPT !["result"] = Result[2]]
          BY ONLY <1>0, <1>1, <4>1 DEF Result, Snapshot
        <5>2. Result[2] = TRUE
          BY ONLY DEF Result
        <5> QED BY ONLY <5>1, <5>2
      <4> QED BY <3>2, <4>2
    <3> QED BY <3>1, <3>2
  <2>2. /\ job' \in Snapshot /\ job'.state = job.state /\ job'.version = job.version
    BY <1>1, <2>1 DEF Snapshot
  <2>3. writes' = << >>
    BY <1>5, OneWrite
  <2>4. job.state \notin Ends
    BY <1>5 DEF Over
  <2>5. TypeOK'
    BY <2>2 DEF TypeOK
  <2>6. Due' /\ Over'
    BY <1>5, <2>2, <2>3, <2>4 DEF Due, Over
  <2>7. Counted'
    BY <1>1, <1>5, <2>2, <2>3 DEF Counted, Unwritten, Begun, Ended
  <2> QED BY <2>2, <2>4, <2>5, <2>6, <2>7, EndStays
<1> QED BY <1>2, <1>3, <1>4, <1>5 DEF Due

\* A worker's operation only lines up its writes.
LEMMA OperationKeeps ==
  ASSUME IInv, NEW from, NEW to, NEW ahead, Operation(from, to, ahead),
         Due', Counted', Over',
         to \in {"queued", "work", "noted", "returned", "over"}, progress' \in 0 .. MaxProgress
  PROVE  IInv'
<1> USE DEF IInv, Operation, page
<1>1. TypeOK'
  BY DEF TypeOK
<1> QED BY <1>1, EndStays

LEMMA WorkKeeps == ASSUME IInv, Work PROVE IInv'
<1> USE FeedAssumption
<1>1. job \in Snapshot /\ progress \in 0 .. MaxProgress /\ job.version \in Nat
  BY DEF IInv, TypeOK, Snapshot
<1>2. CASE Begin
  <2> USE <1>2 DEF Begin, Operation, IInv
  <2>1. Due' /\ Over'
    BY DEF Due, Over, SetState, Ends
  <2>2. Counted'
    BY <1>1 DEF Counted, Unwritten, Begun, Ended, SetState, NewVersion, Result, Files
  <2> QED BY <1>1, <2>1, <2>2, OperationKeeps
<1>3. CASE Progress
  <2>1. PICK at \in {"work", "noted"} : Operation(at, at, <<NewVersion>>)
    BY <1>3 DEF Progress
  <2>2. progress' = progress + 1 /\ progress < MaxProgress
    BY <1>3 DEF Progress
  <2> USE <2>1, <2>2 DEF Operation, IInv
  <2>3. Due' /\ Over'
    BY DEF Due, Over
  <2>4. Counted'
    BY <1>1 DEF Counted, Unwritten, Begun, Ended, NewVersion, Result, Files
  <2> QED BY <1>1, <2>3, <2>4, OperationKeeps
<1>4. CASE Return
  <2>1. PICK from \in {"work", "noted"}, to \in {"noted", "returned"}, ahead \in {<<Result>>, <<Files>>} :
          Operation(from, to, ahead)
    BY <1>4 DEF Return, Result, Files
  <2>2. UNCHANGED progress
    BY <1>4 DEF Return
  <2> USE <2>1, <2>2 DEF Operation, IInv
  <2>3. Due' /\ Over'
    BY DEF Due, Over
  <2>4. Counted'
    BY <1>1 DEF Counted, Unwritten, Begun, Ended
  <2> QED BY <1>1, <2>3, <2>4, OperationKeeps
<1>5. ASSUME NEW from \in {"work", "noted", "returned"}, NEW end \in Ends,
             Operation(from, "over", FinishWrites(end)), UNCHANGED progress
      PROVE  IInv'
  <2> USE <1>5 DEF Operation, IInv
  <2>1. writes' = <<SetState(end), NewVersion>> /\ job.state \notin Ends
    BY DEF FinishWrites, Over
  <2>2. Due' /\ Over'
    BY <2>1 DEF Due, Over
  <2>3. Counted'
    BY <1>1, <2>1 DEF Counted, Unwritten, Begun, Ended, SetState, NewVersion, Result, Files
  <2> QED BY <1>1, <2>2, <2>3, OperationKeeps
<1>6. CASE Finish
  BY <1>5, <1>6 DEF Finish, Ends
<1> QED BY <1>2, <1>3, <1>4, <1>6, WriteKeeps DEF Work

-----------------------------------------------------------------------------
(* snapshot(), the stream and the page.                                    *)

\* Where the worker stands still, so does what is true of it.
LEMMA WorkerStands ==
  ASSUME IInv, UNCHANGED <<worker, known>>
  PROVE  Due' /\ Counted' /\ Over'
<1> USE DEF IInv, worker
<1>1. Due' /\ Counted'
  BY DEF Due, Counted, Unwritten, Begun, Ended
<1>2. Over'
  BY DEF Over
<1> QED BY <1>1, <1>2

\* The readers, the wire and the page, each by itself.
LEMMA ReadingStands ==
  ASSUME IInv, UNCHANGED <<worker, known>>, reader' \in [Readers -> [next : 0 .. Len(Fields) + 1, copy : Snapshot]],
         \A r \in Readers : reader'[r] = reader[r] \/ reader'[r] = Fresh \/ reader'[r] = Idle
  PROVE  Reading'
<1>1. ASSUME NEW r \in Readers
      PROVE  SaysTheEnd(reader[r].copy)' /\ (Complete(r) => HasFiles(reader[r].copy))'
  <2>1. CASE reader'[r] = reader[r]
    BY <2>1 DEF IInv, Reading, SaysTheEnd, HasFiles, Complete, worker, Fields
  <2>2. CASE reader'[r] = Fresh \/ reader'[r] = Idle
    BY <2>2 DEF SaysTheEnd, HasFiles, Fresh, Idle, Blank, Ends
  <2> QED BY <2>1, <2>2
<1> QED BY <1>1 DEF Reading, Fields

LEMMA SentStands ==
  ASSUME IInv, UNCHANGED <<worker, known>>,
         \/ wire' = wire \/ wire' = << >>
         \/ wire # << >> /\ wire' = Tail(wire)
         \/ \E copy \in Snapshot : Truthful(copy) /\ wire' = Append(wire, copy)
  PROVE  wire' \in Seq(Snapshot) /\ Sent'
<1>1. wire \in Seq(Snapshot) /\ \A i \in 1 .. Len(wire) : Truthful(wire[i])
  BY DEF IInv, TypeOK, Sent
<1>2. wire' \in Seq(Snapshot) /\ \A i \in 1 .. Len(wire') : Truthful(wire'[i])
  <2>1. CASE wire' = wire
    BY <1>1, <2>1
  <2>4. CASE wire' = << >>
    <3>1. Len(wire') = 0 /\ wire' \in Seq(Snapshot)
      BY ONLY <2>4, EmptySeq
    <3> QED BY ONLY <3>1
  <2>2. CASE wire # << >> /\ wire' = Tail(wire)
    BY <1>1, <2>2, HeadTailProperties
  <2>3. ASSUME NEW copy \in Snapshot, Truthful(copy), wire' = Append(wire, copy)
        PROVE  wire' \in Seq(Snapshot) /\ \A i \in 1 .. Len(wire') : Truthful(wire'[i])
    <3>1. /\ wire' \in Seq(Snapshot) /\ Len(wire') = Len(wire) + 1
          /\ \A i \in 1 .. Len(wire) : wire'[i] = wire[i]
          /\ wire'[Len(wire) + 1] = copy
      BY <1>1, <2>3, AppendProperties
    <3>2. Len(wire) \in Nat
      BY <1>1, LenProperties
    <3>3. ASSUME NEW i \in 1 .. Len(wire') PROVE Truthful(wire'[i])
      BY <1>1, <2>3, <3>1, <3>2
    <3> QED BY <3>1, <3>3
  <2> QED BY <2>1, <2>2, <2>3, <2>4
<1>3. \A i \in 1 .. Len(wire') : Truthful(wire[i])'
  BY <1>2 DEF Truthful, SaysTheEnd, HasFiles, worker
<1> QED BY <1>2, <1>3 DEF Sent

LEMMA ShownStands ==
  ASSUME IInv, UNCHANGED <<worker, known>>,
         \/ latest' = latest
         \/ Truthful(latest')
         \/ latest'.state = "failed" /\ ~known
  PROVE  Shown'
BY DEF IInv, Shown, Truthful, SaysTheEnd, HasFiles, worker

LEMMA ReadKeeps == ASSUME IInv, NEW r \in Readers, Read(r) PROVE IInv'
<1> USE FieldsAre DEF IInv
<1>1. /\ reader \in [Readers -> [next : 0 .. 5, copy : Snapshot]] /\ reader[r].copy \in Snapshot
      /\ job \in Snapshot
  BY DEF Reading, TypeOK
<1>0. reader[r].next \in 1 .. 4 /\ UNCHANGED <<worker, known, stream, sent, wire, linked, page>>
  BY DEF Read
<1> DEFINE n    == reader[r].next
           c    == reader[r].copy
           made == [c EXCEPT ![Fields[n]] = job[Fields[n]]]
           d    == IF Fields[n] = "result" THEN [made EXCEPT !.early = job.state \notin Ends] ELSE made
<1>2. reader' = [reader EXCEPT ![r] = [next |-> n + 1, copy |-> d]]
  BY DEF Read
<1>3. /\ d \in Snapshot
      /\ d.result = IF n = 1 THEN job.result ELSE c.result
      /\ d.early  = IF n = 1 THEN job.state \notin Ends ELSE c.early
      /\ d.state  = IF n = 2 THEN job.state ELSE c.state
      /\ d.files  = IF n = 4 THEN job.files ELSE c.files
  <2>1. CASE n = 1
    BY ONLY <1>1, <2>1, FieldsAre DEF Snapshot
  <2>2. CASE n = 2
    BY ONLY <1>1, <2>2, FieldsAre DEF Snapshot
  <2>3. CASE n = 3
    BY ONLY <1>1, <2>3, FieldsAre DEF Snapshot
  <2>4. CASE n = 4
    BY ONLY <1>1, <2>4, FieldsAre DEF Snapshot
  <2>5. n = 1 \/ n = 2 \/ n = 3 \/ n = 4
    BY ONLY <1>0
  <2> QED BY ONLY <2>1, <2>2, <2>3, <2>4, <2>5
<1> HIDE DEF d, made
<1>4. reader'[r] = [next |-> n + 1, copy |-> d] /\ \A q \in Readers : q # r => reader'[q] = reader[q]
  BY <1>0, <1>1, <1>2
<1>5. reader' \in [Readers -> [next : 0 .. 5, copy : Snapshot]]
  BY <1>0, <1>1, <1>2, <1>3
<1>6. TypeOK'
  BY <1>0, <1>5 DEF TypeOK, worker, page
<1>7. SaysTheEnd(d) /\ (n + 1 > 4 => HasFiles(d))
  <2>1. SaysTheEnd(c)
    BY DEF Reading
  <2>2. SaysTheEnd(d)
    BY <1>3, <2>1 DEF SaysTheEnd
  <2>3. n = 4 => HasFiles(d)
    BY <1>3, <2>2 DEF HasFiles
  <2> QED BY ONLY <1>0, <2>2, <2>3
<1>8. Reading'
  <2>1. ASSUME NEW q \in Readers
        PROVE  SaysTheEnd(reader[q].copy)' /\ (Complete(q) => HasFiles(reader[q].copy))'
    <3>1. CASE q = r
      <4>1. reader'[q] = [next |-> n + 1, copy |-> d] /\ UNCHANGED <<job, kind>>
        BY <1>0, <1>4, <3>1 DEF worker
      <4>2. reader'[q].copy = d /\ reader'[q].next = n + 1
        BY ONLY <4>1
      <4> QED BY ONLY <1>7, <4>1, <4>2, FieldsAre DEF SaysTheEnd, HasFiles, Complete, Fields
    <3>2. CASE q # r
      <4>1. reader'[q] = reader[q] /\ UNCHANGED <<job, kind>>
        BY <1>0, <1>4, <3>2 DEF worker
      <4>2. SaysTheEnd(reader[q].copy) /\ (reader[q].next > 4 => HasFiles(reader[q].copy))
        BY DEF Reading, Complete
      <4> QED BY ONLY <4>1, <4>2, FieldsAre DEF SaysTheEnd, HasFiles, Complete, Fields
    <3> QED BY <3>1, <3>2
  <2> QED BY <1>5, <2>1 DEF Reading, Fields
<1>9. UNCHANGED <<worker, known, wire, latest>>
  BY <1>0 DEF page
<1> QED BY <1>6, <1>8, <1>9, WorkerStands, SentStands, ShownStands

LEMMA StreamKeeps == ASSUME IInv, Stream PROVE IInv'
<1> USE FeedAssumption, FieldsAre DEF IInv, page
<1>1. /\ reader \in [Readers -> [next : 0 .. 5, copy : Snapshot]] /\ Blank \in Snapshot /\ "stream" \in Readers
      /\ Fresh \in [next : 0 .. 5, copy : Snapshot] /\ Idle \in [next : 0 .. 5, copy : Snapshot]
  BY DEF Reading, Readers, Blank, Snapshot, Ends, Fresh, Idle
<1>2. CASE StreamCheck
  <2>1. reader' \in [Readers -> [next : 0 .. 5, copy : Snapshot]]
        /\ \A r \in Readers : reader'[r] = reader[r] \/ reader'[r] = Fresh
    BY <1>1, <1>2 DEF StreamCheck
  <2>2. TypeOK'
    <3>1. sent' \in -1 .. MaxProgress + 2
      BY <1>2 DEF StreamCheck, TypeOK, Snapshot
    <3>2. stream' \in {"read", "pause"} /\ UNCHANGED <<worker, known, wire, linked, page>>
      BY <1>2 DEF StreamCheck
    <3> QED BY <2>1, <3>1, <3>2 DEF TypeOK, worker
  <2> QED BY <1>2, <2>1, <2>2, WorkerStands, ReadingStands, SentStands, ShownStands DEF StreamCheck
<1>3. CASE StreamYield
  <2>1. reader' \in [Readers -> [next : 0 .. 5, copy : Snapshot]]
        /\ \A r \in Readers : reader'[r] = reader[r] \/ reader'[r] = Idle
    BY <1>1, <1>3 DEF StreamYield
  <2>2. reader["stream"].copy \in Snapshot /\ Truthful(reader["stream"].copy)
    BY <1>1, <1>3 DEF StreamYield, Reading, Truthful
  <2>3. wire' \in Seq(Snapshot) /\ Sent'
    BY <1>3, <2>2, SentStands DEF StreamYield
  <2>4. TypeOK'
    BY <1>3, <2>1, <2>3 DEF TypeOK, worker, StreamYield
  <2> QED BY <1>3, <2>1, <2>3, <2>4, WorkerStands, ReadingStands, ShownStands DEF StreamYield
<1>4. CASE StreamTest \/ StreamPause
  <2>1. TypeOK'
    BY <1>4 DEF TypeOK, worker, StreamTest, StreamPause
  <2> QED BY <1>1, <1>4, <2>1, WorkerStands, ReadingStands, SentStands, ShownStands DEF StreamTest, StreamPause
<1>5. CASE Read("stream")
  BY <1>1, <1>5, ReadKeeps
<1> QED BY <1>2, <1>3, <1>4, <1>5 DEF Stream

LEMMA PageKeeps == ASSUME IInv, Page \/ PollReceive \/ PollLost PROVE IInv'
<1> USE FeedAssumption, FieldsAre DEF IInv, page
<1>1. /\ reader \in [Readers -> [next : 0 .. 5, copy : Snapshot]] /\ Blank \in Snapshot
      /\ "post" \in Readers /\ "poll" \in Readers
      /\ Fresh \in [next : 0 .. 5, copy : Snapshot] /\ Idle \in [next : 0 .. 5, copy : Snapshot]
  BY DEF Reading, Readers, Blank, Snapshot, Ends, Fresh, Idle
<1>2. CASE Open
  <2>1. reader' \in [Readers -> [next : 0 .. 5, copy : Snapshot]]
        /\ \A r \in Readers : reader'[r] = reader[r] \/ reader'[r] = Idle
    BY <1>1, <1>2 DEF Open
  <2>2. latest' \in Snapshot /\ Truthful(latest')
    BY <1>1, <1>2 DEF Open, Reading, Truthful
  <2>3. TypeOK'
    <3>1. /\ stream' \in {"off", "check", "read", "yielded", "pause", "over"} /\ linked' \in BOOLEAN
          /\ mode' \in {"settled", "streaming"}
      BY <1>2 DEF Open, TypeOK
    <3>2. UNCHANGED <<kind, job, phase, progress, known, sent, wire>>
      BY <1>2 DEF Open, worker
    <3>3. \A r \in Readers : reader'[r].next \in 0 .. Len(Fields) + 1 /\ reader'[r].copy \in Snapshot
      BY ONLY <2>1, FieldsAre
    <3> QED BY ONLY TypeOK, <2>2, <3>1, <3>2, <3>3 DEF TypeOK, Fields
  <2> QED BY <1>2, <2>1, <2>2, <2>3, WorkerStands, ReadingStands, SentStands, ShownStands DEF Open
<1>3. CASE PostFails \/ OnError
  <2>1. TypeOK' /\ UNCHANGED <<worker, known, reader, wire, latest>>
    BY <1>3 DEF TypeOK, worker, PostFails, OnError
  <2> QED BY <1>1, <2>1, WorkerStands, ReadingStands, SentStands, ShownStands
<1>4. CASE OnMessage
  <2>1. wire \in Seq(Snapshot) /\ wire # << >>
    BY <1>4 DEF TypeOK, OnMessage
  <2>2. Head(wire) = wire[1] /\ 1 \in 1 .. Len(wire)
    BY <2>1, HeadTailProperties
  <2>3. Head(wire) \in Snapshot /\ Truthful(Head(wire))
    BY <2>1, <2>2 DEF Sent
  <2>4. latest' = latest \/ latest' = Head(wire)
    BY <1>4 DEF OnMessage, Receive
  <2>5. wire' = << >> \/ wire' = Tail(wire)
    BY <1>4 DEF OnMessage
  <2>6. wire' \in Seq(Snapshot) /\ Sent'
    BY <1>4, <2>1, <2>5, SentStands DEF OnMessage
  <2>7. mode' \in {"streaming", "settled"} /\ linked' \in BOOLEAN
    BY <1>4 DEF OnMessage, Receive, TypeOK
  <2>8. TypeOK'
    <3>1. latest' \in Snapshot
      BY <2>3, <2>4 DEF TypeOK
    <3>2. UNCHANGED <<kind, job, phase, progress, known, reader, stream, sent>>
      BY <1>4 DEF OnMessage, worker
    <3> QED BY ONLY TypeOK, <2>6, <2>7, <3>1, <3>2 DEF TypeOK, Fields
  <2> QED BY <1>1, <1>4, <2>3, <2>4, <2>6, <2>8, WorkerStands, ReadingStands, ShownStands DEF OnMessage
<1>5. CASE PollSend \/ PollLost
  <2>1. reader' \in [Readers -> [next : 0 .. 5, copy : Snapshot]]
        /\ \A r \in Readers : reader'[r] = reader[r] \/ reader'[r] = Fresh \/ reader'[r] = Idle
    BY <1>1, <1>5 DEF PollSend, PollLost
  <2>2. TypeOK' /\ UNCHANGED <<worker, known, wire, latest>>
    BY <1>5, <2>1 DEF TypeOK, worker, PollSend, PollLost
  <2> QED BY <2>1, <2>2, WorkerStands, ReadingStands, SentStands, ShownStands
<1>6. CASE PollReceive
  <2>1. reader' \in [Readers -> [next : 0 .. 5, copy : Snapshot]]
        /\ \A r \in Readers : reader'[r] = reader[r] \/ reader'[r] = Idle
    BY <1>1, <1>6 DEF PollReceive
  <2>2. reader["poll"].copy \in Snapshot /\ Truthful(reader["poll"].copy)
    BY <1>1, <1>6 DEF PollReceive, Reading, Truthful
  <2>3. latest' = latest \/ latest' = reader["poll"].copy
    BY <1>6 DEF PollReceive, Receive
  <2>4. mode' \in {"polling", "settled"} /\ UNCHANGED <<worker, known, stream, sent, wire, linked>>
    BY <1>6 DEF PollReceive, Receive
  <2>5. TypeOK'
    BY <2>1, <2>2, <2>3, <2>4 DEF TypeOK, worker
  <2> QED BY <2>1, <2>2, <2>3, <2>4, <2>5, WorkerStands, ReadingStands, SentStands, ShownStands
<1>7. CASE PollUnknown
  <2>1. latest' \in Snapshot /\ latest'.state = "failed" /\ ~known
    BY <1>7 DEF PollUnknown, TypeOK, Snapshot, Ends
  <2>2. TypeOK' /\ UNCHANGED <<worker, known, reader, wire>>
    BY <1>7, <2>1 DEF TypeOK, worker, PollUnknown
  <2> QED BY <1>1, <2>1, <2>2, WorkerStands, ReadingStands, SentStands, ShownStands
<1> QED BY <1>2, <1>3, <1>4, <1>5, <1>6, <1>7 DEF Page

LEMMA DropKeeps == ASSUME IInv, Drop PROVE IInv'
<1>1. TypeOK' /\ UNCHANGED <<worker, known, reader, latest>> /\ wire' = << >>
  BY EmptySeq DEF Drop, IInv, TypeOK, worker, page
<1>2. Reading'
  BY <1>1, ReadingStands DEF IInv, Reading
<1> QED BY <1>1, <1>2, WorkerStands, SentStands, ShownStands DEF IInv

\* A restart takes the job's thread, the copies that are being made and those
\* on their way; the page keeps what it has shown.
LEMMA RestartKeeps == ASSUME IInv, Restart PROVE IInv'
<1> USE FieldsAre DEF IInv, Restart, page
<1>1. Idle \in [next : 0 .. 5, copy : Snapshot]
  BY ONLY FeedAssumption DEF Idle, Blank, Snapshot, Ends
<1>2. reader' \in [Readers -> [next : 0 .. 5, copy : Snapshot]] /\ \A r \in Readers : reader'[r] = Idle
  BY <1>1
<1>3. TypeOK'
  <2>1. wire' \in Seq(Snapshot) /\ stream' \in {"off", "over"}
        /\ linked' \in BOOLEAN /\ known' \in BOOLEAN
    BY EmptySeq
  <2>2. mode' \in {"posting", "refused", "streaming", "polling", "fetching", "settled"}
    BY DEF TypeOK
  <2>3. UNCHANGED <<kind, job, phase, progress, sent, latest>>
    OBVIOUS
  <2>4. \A r \in Readers : reader'[r].next \in 0 .. Len(Fields) + 1 /\ reader'[r].copy \in Snapshot
    BY ONLY <1>1, <1>2, FieldsAre
  <2> QED BY ONLY TypeOK, <2>1, <2>2, <2>3, <2>4 DEF TypeOK, Fields
<1>4. Due'
  BY DEF Due
<1>5. Counted'
  BY DEF Counted, Unwritten, Begun, Ended, TypeOK, Snapshot
<1>6. Over'
  BY DEF Over
<1>7. Reading'
  BY <1>2 DEF Reading, Fields, SaysTheEnd, HasFiles, Idle, Blank, Ends
<1>8. Sent' /\ Shown'
  BY DEF Sent, Shown, Truthful, SaysTheEnd, HasFiles
<1> QED BY <1>3, <1>4, <1>5, <1>6, <1>7, <1>8

-----------------------------------------------------------------------------
\* The invariant holds of every reachable state, for either kind of job and
\* any number of progress updates.
THEOREM Invariant == Spec => []IInv
<1>1. IInv /\ [Next]_vars => IInv'
  <2> SUFFICES ASSUME IInv, [Next]_vars PROVE IInv'
    OBVIOUS
  <2>1. CASE Work
    BY <2>1, WorkKeeps
  <2>2. CASE Stream
    BY <2>2, StreamKeeps
  <2>3. CASE Page \/ PollReceive \/ PollLost
    BY <2>3, PageKeeps
  <2>4. CASE Read("post") \/ Read("poll")
    BY <2>4, ReadKeeps DEF Readers
  <2>5. CASE Drop \/ Restart
    BY <2>5, DropKeeps, RestartKeeps
  <2>6. CASE UNCHANGED vars
    <3>1. UNCHANGED <<worker, known, reader, wire, latest>> /\ TypeOK'
      BY <2>6 DEF vars, worker, page, IInv, TypeOK
    <3>2. Reading'
      BY <3>1, ReadingStands DEF IInv, Reading
    <3> QED BY <3>1, <3>2, WorkerStands, SentStands, ShownStands DEF IInv
  <2> QED BY <2>1, <2>2, <2>3, <2>4, <2>5, <2>6 DEF Next
<1> QED BY Initially, <1>1, PTL DEF Spec

\* Every variable of the feed keeps its type: versions are bounded by the
\* operations of the worker (JobManager._update).
THEOREM TypeCorrect == Spec => []TypeOK
<1>1. IInv => TypeOK
  BY DEF IInv
<1> QED BY Invariant, <1>1, PTL

\* What the page ends on is how the job ended, with the files it ended with
\* and, unless the snapshot was begun early, its result, although snapshot()
\* takes no lock (Job.snapshot, receive of jobs.js).
THEOREM Settled == Spec => []SettledIsTrue
<1>1. IInv => SettledIsTrue
  BY DEF IInv, Shown, Truthful, SaysTheEnd, HasFiles, SettledIsTrue, Ends
<1> QED BY Invariant, <1>1, PTL
=============================================================================
