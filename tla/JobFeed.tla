------------------------------ MODULE JobFeed -------------------------------
(***************************************************************************)
(* How a page learns of its job's end: the worker writes the job's fields  *)
(* one by one under the manager's lock (jobs/manager.py), Job.snapshot     *)
(* reads them one by one without it, /jobs/{id} and /jobs/{id}/events      *)
(* (jobs/router.py) send the copies, and frontend/jobs.js follows them,    *)
(* by the stream first and by polling once the stream has ended.           *)
(***************************************************************************)
EXTENDS Integers, Sequences

CONSTANTS
  Kinds,        \* subset of {"login", "export"}: the kinds of job considered
  MaxProgress   \* bound: progress updates of the job

ASSUME FeedAssumption == Kinds \subseteq {"login", "export"} /\ MaxProgress \in Nat

VARIABLES
  kind,    \* the job's kind
  job,     \* the fields other threads can see
  writes,  \* field writes the worker has yet to make, in order
  phase,   \* the worker: queued, work, noted (an export's notes are stored), returned, over
  progress, \* progress updates made (bounds the model)
  known,   \* the manager still has the job: no restart yet
  reader,  \* snapshot() in progress, for the POST answer, the stream, a poll
  stream,  \* the /events generator
  sent,    \* its sent_version
  wire,    \* events sent and not yet received
  linked,  \* the connection of the stream is up
  mode,    \* the page
  latest   \* the last snapshot the page accepted

vars == <<kind, job, writes, phase, progress, known, reader, stream, sent, wire, linked,
          mode, latest>>
worker == <<kind, job, writes, phase, progress>>
page   == <<mode, latest>>

Ends    == {"done", "failed"}
Readers == {"post", "stream", "poll"}

\* Mutant of Fields: the files are read with the result, before the state.
FieldsFilesFirst == <<"files", "result", "state", "version">>

\* The fields in the order snapshot() reads them; `files' stands for the list
\* an export has, `result' for what login and verify return and for notes,
\* `state' for the error, stage and time written with it.
Fields == <<"result", "state", "version", "files">>

\* `early' is history, of a copy: the job was not over when its result was read.
Blank == [result |-> FALSE, state |-> "queued", version |-> 0, files |-> FALSE, early |-> TRUE]

Snapshot == [result : BOOLEAN, state : {"queued", "running"} \cup Ends,
             version : 0 .. MaxProgress + 2, files : BOOLEAN, early : BOOLEAN]

-----------------------------------------------------------------------------
(* The worker: _update sets each field in turn and the version last.       *)

Write ==
  /\ writes # << >>
  /\ LET w == Head(writes) IN
       job' = [job EXCEPT ![w[1]] = IF w[1] = "version" THEN @ + 1 ELSE w[2]]
  /\ writes' = Tail(writes)
  /\ UNCHANGED <<kind, phase, progress, known, reader, stream, sent, wire, linked, page>>

NewVersion == <<"version", 1>>

\* Mutant of SetState: a name the states do not have.
SetStateOver(s) == <<"state", IF s = "done" THEN "over" ELSE s>>

SetState(s) == <<"state", s>>

Operation(from, to, sequence) ==
  /\ known /\ phase = from /\ writes = << >>
  /\ phase' = to
  /\ writes' = sequence
  /\ UNCHANGED <<kind, job, known, reader, stream, sent, wire, linked, page>>

Begin == Operation("queued", "work", <<SetState("running"), NewVersion>>) /\ UNCHANGED progress

\* A stage, or a log line relayed as the job's detail.
Progress ==
  /\ progress < MaxProgress
  /\ \E at \in {"work", "noted"} : Operation(at, at, <<NewVersion>>)
  /\ progress' = progress + 1

\* An export stores its notes before it retains the files, and its files last;
\* a login or a verify stores its result last.
Return ==
  /\ \/ kind = "export" /\ \/ Operation("work", "noted", <<<<"result", TRUE>>>>)
                           \/ Operation("noted", "returned", <<<<"files", TRUE>>>>)
     \/ kind # "export" /\ Operation("work", "returned", <<<<"result", TRUE>>>>)
  /\ UNCHANGED progress

FinishWrites(end) == <<SetState(end), NewVersion>>

\* Work that raises fails; but _finish takes an empty text for no error, so a
\* JobFailed without one, which the scraper's own text may be, ends as done.
Finish ==
  /\ \/ Operation("returned", "over", FinishWrites("done"))
     \/ Operation("work", "over", FinishWrites("done"))
     \/ \E at \in {"work", "noted"} : Operation(at, "over", FinishWrites("failed"))
  /\ UNCHANGED progress

-----------------------------------------------------------------------------
(* Job.snapshot: one field read at a time, whatever the worker does.       *)

Complete(r) == reader[r].next > Len(Fields)
Fresh == [next |-> 1, copy |-> Blank]
Idle  == [next |-> 0, copy |-> Blank]

Read(r) ==
  /\ reader[r].next \in 1 .. Len(Fields)
  /\ LET f    == Fields[reader[r].next]
         copy == [reader[r].copy EXCEPT ![f] = job[f]]
     IN reader' = [reader EXCEPT ![r] =
          [next |-> reader[r].next + 1,
           copy |-> IF f = "result" THEN [copy EXCEPT !.early = job.state \notin Ends] ELSE copy]]
  /\ UNCHANGED <<worker, known, stream, sent, wire, linked, page>>

-----------------------------------------------------------------------------
(* The generator of /jobs/{id}/events.                                     *)

Changed == job.version # sent

\* Both reads of job.version: nothing lies between them but a larger version.
StreamCheck ==
  /\ stream = "check"
  /\ IF Changed
     THEN /\ sent' = job.version
          /\ reader' = [reader EXCEPT !["stream"] = Fresh]
          /\ stream' = "read"
     ELSE /\ stream' = "pause"
          /\ UNCHANGED <<sent, reader>>
  /\ UNCHANGED <<worker, known, wire, linked, page>>

StreamYield ==
  /\ stream = "read" /\ Complete("stream")
  /\ wire' = IF linked THEN Append(wire, reader["stream"].copy) ELSE wire
  /\ reader' = [reader EXCEPT !["stream"] = Idle]
  /\ stream' = "yielded"
  /\ UNCHANGED <<worker, known, sent, linked, page>>

\* `if job.finished' reads the job again, not the event just sent.
StreamTest ==
  /\ stream = "yielded"
  /\ stream' = IF job.state \in Ends THEN "over" ELSE "pause"
  /\ UNCHANGED <<worker, known, reader, sent, wire, linked, page>>

\* The client is gone, or half a second passes.
StreamPause ==
  /\ stream = "pause"
  /\ stream' = IF linked THEN "check" ELSE "over"
  /\ UNCHANGED <<worker, known, reader, sent, wire, linked, page>>

-----------------------------------------------------------------------------
(* frontend/jobs.js.                                                       *)

\* Mutant of Newer: a snapshot of the version already shown is dropped.
NewerOnly(next) == next.version > latest.version

Newer(next) == next.version >= latest.version

\* receive(): the page settles on the first finished snapshot it accepts.
Receive(next, otherwise) ==
  /\ latest' = IF Newer(next) THEN next ELSE latest
  /\ mode' = IF Newer(next) /\ next.state \in Ends THEN "settled" ELSE otherwise

\* start() resolves with the 202 answer; follow() opens the stream.
Open ==
  /\ mode = "posting" /\ Complete("post")
  /\ latest' = reader["post"].copy
  /\ IF reader["post"].copy.state \in Ends
     THEN mode' = "settled" /\ UNCHANGED <<stream, linked>>
     ELSE /\ mode' = "streaming"
          /\ IF known THEN stream' = "check" /\ linked' = TRUE
                      ELSE UNCHANGED <<stream, linked>>
  /\ reader' = [reader EXCEPT !["post"] = Idle]
  /\ UNCHANGED <<worker, known, sent, wire>>

PostFails ==
  /\ mode = "posting" /\ ~known
  /\ mode' = "refused"
  /\ UNCHANGED <<worker, known, reader, stream, sent, wire, linked, latest>>

OnMessage ==
  /\ mode = "streaming" /\ wire # << >>
  /\ Receive(Head(wire), "streaming")
  /\ IF mode' = "settled" THEN wire' = << >> /\ linked' = FALSE
                          ELSE wire' = Tail(wire) /\ UNCHANGED linked
  /\ UNCHANGED <<worker, known, reader, stream, sent>>

\* The stream ended or dropped and what had arrived was handled: poll.
OnError ==
  /\ mode = "streaming" /\ wire = << >>
  /\ ~linked \/ stream = "over"
  /\ mode' = "polling"
  /\ linked' = FALSE
  /\ UNCHANGED <<worker, known, reader, stream, sent, wire, latest>>

PollSend ==
  /\ mode = "polling" /\ known
  /\ mode' = "fetching"
  /\ reader' = [reader EXCEPT !["poll"] = Fresh]
  /\ UNCHANGED <<worker, known, stream, sent, wire, linked, latest>>

PollReceive ==
  /\ mode = "fetching" /\ Complete("poll")
  /\ Receive(reader["poll"].copy, "polling")
  /\ reader' = [reader EXCEPT !["poll"] = Idle]
  /\ UNCHANGED <<worker, known, stream, sent, wire, linked>>

\* The answer is lost; the page keeps trying.
PollLost ==
  /\ mode = "fetching" /\ Complete("poll")
  /\ mode' = "polling"
  /\ reader' = [reader EXCEPT !["poll"] = Idle]
  /\ UNCHANGED <<worker, known, stream, sent, wire, linked, latest>>

\* 404: the page makes up a failed job.
PollUnknown ==
  /\ mode = "polling" /\ ~known
  /\ mode' = "settled"
  /\ latest' = [latest EXCEPT !.state = "failed"]
  /\ UNCHANGED <<worker, known, reader, stream, sent, wire, linked>>

-----------------------------------------------------------------------------
(* The surroundings.                                                       *)

\* The stream's connection drops; what was on its way is lost.
Drop ==
  /\ linked
  /\ linked' = FALSE
  /\ wire' = << >>
  /\ UNCHANGED <<worker, known, reader, stream, sent, page>>

\* The server restarts: jobs live in memory, and every connection is cut.
Restart ==
  /\ known
  /\ known' = FALSE
  /\ writes' = << >>
  /\ stream' = IF stream = "off" THEN "off" ELSE "over"
  /\ linked' = FALSE
  /\ wire' = << >>
  /\ reader' = [r \in Readers |-> Idle]
  /\ mode' = IF mode = "fetching" THEN "polling" ELSE mode
  /\ UNCHANGED <<kind, job, phase, progress, sent, latest>>

Init ==
  /\ kind \in Kinds
  /\ job = Blank
  /\ writes = << >>
  /\ phase = "queued"
  /\ progress = 0
  /\ known = TRUE
  /\ reader = [r \in Readers |-> IF r = "post" THEN Fresh ELSE Idle]
  /\ stream = "off"
  /\ sent = -1
  /\ wire = << >>
  /\ linked = FALSE
  /\ mode = "posting"
  /\ latest = Blank

Work   == Write \/ Begin \/ Progress \/ Return \/ Finish
Stream == StreamCheck \/ StreamYield \/ StreamTest \/ StreamPause \/ Read("stream")
Page   == Open \/ PostFails \/ OnMessage \/ OnError \/ PollSend \/ PollUnknown

Next ==
  \/ Work \/ Stream \/ Page \/ PollReceive \/ PollLost
  \/ Read("post") \/ Read("poll")
  \/ Drop \/ Restart

Spec == Init /\ [][Next]_vars

\* The worker thread, the event loop, a request thread and the page each run;
\* a poll that is sent again and again is answered in the end.
Fairness ==
  /\ WF_vars(Work) /\ WF_vars(Stream) /\ WF_vars(Page)
  /\ WF_vars(Read("post")) /\ WF_vars(Read("poll")) /\ SF_vars(PollReceive)

FairSpec == Spec /\ Fairness

-----------------------------------------------------------------------------
TypeOK ==
  /\ kind \in Kinds
  /\ job \in Snapshot /\ latest \in Snapshot
  /\ phase \in {"queued", "work", "noted", "returned", "over"}
  /\ progress \in 0 .. MaxProgress
  /\ known \in BOOLEAN /\ linked \in BOOLEAN
  /\ \A r \in Readers : reader[r].next \in 0 .. Len(Fields) + 1 /\ reader[r].copy \in Snapshot
  /\ stream \in {"off", "check", "read", "yielded", "pause", "over"}
  /\ sent \in -1 .. MaxProgress + 2
  /\ wire \in Seq(Snapshot)
  /\ mode \in {"posting", "refused", "streaming", "polling", "fetching", "settled"}

(* What the page ends on is how the job ended: failed only of a job that     *)
(* failed, unless a restart lost it, and done only of a job that is done.    *)
(* Then it has the very files the job ends with, none if the job stored      *)
(* none: snapshot() reads them after the state, the worker stores them       *)
(* before it.  The result it reads first; only a snapshot begun before the   *)
(* job was over may be of a job that is done and lack it.                    *)
SettledIsTrue ==
  mode = "settled" =>
    /\ latest.state = "failed" => job.state = "failed" \/ ~known
    /\ latest.state = "done" =>
         /\ job.state = "done"
         /\ latest.files = job.files
         /\ latest.result = job.result \/ latest.early

(* Unless the POST itself failed, the page learns how its job ended, whether *)
(* the stream drops, ends early or never opens, and though the server        *)
(* restarts; and the generator of its stream does not poll a finished job    *)
(* for ever.                                                                 *)
PageLearnsTheEnd ==
  /\ (phase = "over" \/ ~known) ~> mode \in {"settled", "refused"}
  /\ (stream # "off" /\ phase = "over") ~> stream = "over"

=============================================================================
