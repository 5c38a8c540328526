------------------------------ MODULE JobQueue ------------------------------
(***************************************************************************)
(* The job manager of pennyspy/jobs/manager.py and the blocking callers of *)
(* pennyspy/scrapers/router.py.  Every submission runs on a request thread *)
(* of its own; the executor's worker takes jobs off its queue.  One action *)
(* is one section under JobManager._lock, or one unlocked step between two *)
(* of them.                                                                *)
(***************************************************************************)
EXTENDS Naturals, Sequences, FiniteSets

CONSTANTS
  Job,          \* job ids (uuid4), one for each submission
  NoJob,        \* the worker holds no job
  Blocking,     \* jobs started by the endpoints that wait for their job
  MaxProgress   \* bound: stage changes and relayed log lines of one job

ASSUME JobAssumption ==
  /\ NoJob \notin Job
  /\ Blocking \subseteq Job
  /\ MaxProgress \in Nat

\* Mutant of PoolSize: a pool of two workers.
PoolSizeTwo == 2

PoolSize == 1
Worker == 1 .. PoolSize

VARIABLES
  submitter,  \* where each submission's request thread is in submit()
  busy,       \* submit()'s local: another job was unfinished
  known,      \* keys of JobManager._jobs
  queue,      \* the executor's work queue
  at,         \* where each worker thread is in _run()
  holds,      \* JobManager._running_by_thread
  state, stage, error, version,   \* the job's fields of those names
  progress,   \* how many progress updates a job has had (bounds the model)
  event,      \* jobs whose _done event is set
  overdue,    \* jobs whose last timestamp is more than their TTL ago
  closed,     \* JobManager.close() was called
  caller,     \* the blocking endpoint's thread: in _wait, or how it answered
  outcome,    \* history: how the job's work really ended
  earlier     \* history: submissions that had returned when this one began

threads == <<submitter, busy, caller, earlier>>
fields  == <<state, stage, error, version, progress, outcome>>
pool    == <<queue, at, holds>>
vars    == <<threads, fields, pool, known, event, overdue, closed>>

Ends     == {"done", "failed"}
Outcomes == {"returned", "failed", "failedBlank", "crashed"}
Stages   == {"Waiting for the browser", "Waiting for the previous job to finish",
             "working", "Done", "Failed"}
Answers  == {"ok", "broken", "error", "timeout"}

Finished(j) == state[j] \in Ends
Inserted(j) == submitter[j] \notin {"idle", "pruned"}
Returned(j) == submitter[j] \in {"enqueued", "refused"}

-----------------------------------------------------------------------------
(* JobManager.submit, step by step.                                        *)

\* Mutant of Stale: the age test without `job.finished'.
StaleByAge(j) == j \in overdue

\* _prune: the lock section that drops finished jobs past their TTL.
Stale(j) == Finished(j) /\ j \in overdue

Prune(j) ==
  /\ submitter[j] = "idle"
  /\ submitter' = [submitter EXCEPT ![j] = "pruned"]
  /\ earlier' = [earlier EXCEPT ![j] = {k \in Job : submitter[k] = "enqueued"}]
  /\ known' = {k \in known : ~Stale(k)}
  /\ UNCHANGED <<busy, caller, fields, pool, event, overdue, closed>>

\* Mutant of Busy: only the running job counts.
BusyIfRunning == \E k \in known : state[k] = "running"

\* Whether the job must wait is decided in the section that inserts it.
Busy == \E k \in known : ~Finished(k)

Insert(j) ==
  /\ submitter[j] = "pruned"
  /\ submitter' = [submitter EXCEPT ![j] = "inserted"]
  /\ busy' = [busy EXCEPT ![j] = Busy]
  /\ known' = known \cup {j}
  /\ UNCHANGED <<caller, earlier, fields, pool, event, overdue, closed>>

\* Mutant of SetStage: the stage is written after the job was handed over.
SetStageLate(j) ==
  \/ /\ submitter[j] = "inserted"
     /\ submitter' = [submitter EXCEPT ![j] = "staged"]
     /\ UNCHANGED <<busy, caller, earlier, fields, pool, known, event, overdue, closed>>
  \/ /\ submitter[j] = "enqueued" /\ busy[j]
     /\ stage' = [stage EXCEPT ![j] = "Waiting for the previous job to finish"]
     /\ UNCHANGED <<threads, state, error, version, progress, outcome,
                    pool, known, event, overdue, closed>>

\* Unlocked and without a new version.
SetStage(j) ==
  /\ submitter[j] = "inserted"
  /\ submitter' = [submitter EXCEPT ![j] = "staged"]
  /\ stage' = IF busy[j]
              THEN [stage EXCEPT ![j] = "Waiting for the previous job to finish"]
              ELSE stage
  /\ UNCHANGED <<busy, caller, earlier, state, error, version, progress, outcome,
                 pool, known, event, overdue, closed>>

\* Mutant of Enqueue: the newest job first.
EnqueueInFront(j) ==
  /\ submitter[j] = "staged" /\ ~closed
  /\ submitter' = [submitter EXCEPT ![j] = "enqueued"]
  /\ queue' = <<j>> \o queue
  /\ caller' = IF j \in Blocking THEN [caller EXCEPT ![j] = "waiting"] ELSE caller
  /\ UNCHANGED <<busy, earlier, fields, at, holds, known, event, overdue, closed>>

\* executor.submit raises once the executor is shut down: the job stays listed.
Enqueue(j) ==
  /\ submitter[j] = "staged"
  /\ IF closed
     THEN /\ submitter' = [submitter EXCEPT ![j] = "refused"]
          /\ UNCHANGED <<queue, caller>>
     ELSE /\ submitter' = [submitter EXCEPT ![j] = "enqueued"]
          /\ queue' = Append(queue, j)
          /\ caller' = IF j \in Blocking THEN [caller EXCEPT ![j] = "waiting"] ELSE caller
  /\ UNCHANGED <<busy, earlier, fields, at, holds, known, event, overdue, closed>>

-----------------------------------------------------------------------------
(* JobManager._run on a worker thread.                                     *)

Take(w) ==
  /\ at[w] = "idle"
  /\ queue # << >>
  /\ holds' = [holds EXCEPT ![w] = Head(queue)]
  /\ queue' = Tail(queue)
  /\ at' = [at EXCEPT ![w] = "taken"]
  /\ UNCHANGED <<threads, fields, known, event, overdue, closed>>

Begin(w) ==
  /\ at[w] = "taken"
  /\ at' = [at EXCEPT ![w] = "work"]
  /\ state' = [state EXCEPT ![holds[w]] = "running"]
  /\ version' = [version EXCEPT ![holds[w]] = @ + 1]
  /\ UNCHANGED <<threads, stage, error, progress, outcome, queue, holds,
                 known, event, overdue, closed>>

\* JobContext.stage, or (until close() detaches it) _JobDetailRelay: the
\* text of `detail' is left out, the new version is not.
Progress(w) ==
  /\ at[w] = "work"
  /\ progress[holds[w]] < MaxProgress
  /\ \/ stage' = [stage EXCEPT ![holds[w]] = "working"]
     \/ ~closed /\ UNCHANGED stage
  /\ progress' = [progress EXCEPT ![holds[w]] = @ + 1]
  /\ version' = [version EXCEPT ![holds[w]] = @ + 1]
  /\ UNCHANGED <<threads, state, error, outcome, pool, known, event, overdue, closed>>

\* JobFailed carries str(e), which may be empty; any other exception's text
\* falls back on its type's name.
ErrorOf(o) ==
  CASE o = "returned"    -> "none"
    [] o = "failedBlank" -> "blank"
    [] OTHER             -> "text"

\* Mutant of EndOf: a name the states do not have.
EndOfError(e) == IF e = "text" THEN "error" ELSE "done"

\* _finish tests the text's truth value, and None and "" are both false.
EndOf(e) == IF e = "text" THEN "failed" ELSE "done"

\* Mutant of Finish: only JobFailed is caught.
FinishUncaught(w) ==
  /\ at[w] = "work"
  /\ \/ /\ outcome' = [outcome EXCEPT ![holds[w]] = "returned"]
        /\ state' = [state EXCEPT ![holds[w]] = "done"]
        /\ at' = [at EXCEPT ![w] = "finished"]
     \/ /\ outcome' = [outcome EXCEPT ![holds[w]] = "crashed"]
        /\ at' = [at EXCEPT ![w] = "signalled"]
        /\ UNCHANGED state
  /\ UNCHANGED <<threads, stage, error, version, progress, queue, holds,
                 known, event, overdue, closed>>

Finish(w) ==
  /\ at[w] = "work"
  /\ \E o \in Outcomes :
       /\ outcome' = [outcome EXCEPT ![holds[w]] = o]
       /\ error' = [error EXCEPT ![holds[w]] = ErrorOf(o)]
       /\ state' = [state EXCEPT ![holds[w]] = EndOf(ErrorOf(o))]
       /\ stage' = [stage EXCEPT ![holds[w]] =
                      IF EndOf(ErrorOf(o)) = "failed" THEN "Failed" ELSE "Done"]
  /\ version' = [version EXCEPT ![holds[w]] = @ + 1]
  /\ overdue' = overdue \ {holds[w]}
  /\ at' = [at EXCEPT ![w] = "finished"]
  /\ UNCHANGED <<threads, progress, queue, holds, known, event, closed>>

SetEvent(w) ==
  /\ at[w] = "finished"
  /\ event' = event \cup {holds[w]}
  /\ at' = [at EXCEPT ![w] = "signalled"]
  /\ UNCHANGED <<threads, fields, queue, holds, known, overdue, closed>>

Release(w) ==
  /\ at[w] = "signalled"
  /\ holds' = [holds EXCEPT ![w] = NoJob]
  /\ at' = [at EXCEPT ![w] = "idle"]
  /\ UNCHANGED <<threads, fields, queue, known, event, overdue, closed>>

-----------------------------------------------------------------------------
(* _wait in the blocking endpoints, the clock, and close().                *)

\* Mutant of AnswerOf: the answer is built without looking at job.state.
AnswerUnchecked(j) == IF outcome[j] = "returned" THEN "ok" ELSE "broken"

\* The login and verify answers index job.result, the scrape answer job.files:
\* both are filled only by work that returned.
AnswerOf(j) ==
  IF state[j] = "failed" THEN "error"
  ELSE IF outcome[j] = "returned" THEN "ok" ELSE "broken"

Wake(j) ==
  /\ caller[j] = "waiting"
  /\ j \in event
  /\ caller' = [caller EXCEPT ![j] = AnswerOf(j)]
  /\ UNCHANGED <<submitter, busy, earlier, fields, pool, known, event, overdue, closed>>

\* Mutant of GiveUp: what wait() returns is not looked at.
GiveUpUnchecked(j) ==
  /\ caller[j] = "waiting"
  /\ caller' = [caller EXCEPT ![j] = AnswerOf(j)]
  /\ UNCHANGED <<submitter, busy, earlier, fields, pool, known, event, overdue, closed>>

\* BLOCKING_WAIT_SECONDS pass: a 504, and the job carries on.
GiveUp(j) ==
  /\ caller[j] = "waiting"
  /\ j \notin event
  /\ caller' = [caller EXCEPT ![j] = "timeout"]
  /\ UNCHANGED <<submitter, busy, earlier, fields, pool, known, event, overdue, closed>>

Age(j) ==
  /\ Inserted(j)
  /\ j \notin overdue
  /\ overdue' = overdue \cup {j}
  /\ UNCHANGED <<threads, fields, pool, known, event, closed>>

\* shutdown(wait=False, cancel_futures=True): what is queued never runs.
Close ==
  /\ ~closed
  /\ closed' = TRUE
  /\ queue' = << >>
  /\ UNCHANGED <<threads, fields, at, holds, known, event, overdue>>

-----------------------------------------------------------------------------
Init ==
  /\ submitter = [j \in Job |-> "idle"]
  /\ busy = [j \in Job |-> FALSE]
  /\ known = {}
  /\ queue = << >>
  /\ at = [w \in Worker |-> "idle"]
  /\ holds = [w \in Worker |-> NoJob]
  /\ state = [j \in Job |-> "queued"]
  /\ stage = [j \in Job |-> "Waiting for the browser"]
  /\ error = [j \in Job |-> "none"]
  /\ version = [j \in Job |-> 0]
  /\ progress = [j \in Job |-> 0]
  /\ event = {}
  /\ overdue = {}
  /\ closed = FALSE
  /\ caller = [j \in Job |-> "none"]
  /\ outcome = [j \in Job |-> "none"]
  /\ earlier = [j \in Job |-> {}]

Submit(j) == Prune(j) \/ Insert(j) \/ SetStage(j) \/ Enqueue(j)
Run(w)    == Take(w) \/ Begin(w) \/ Progress(w) \/ Finish(w) \/ SetEvent(w) \/ Release(w)
Answer(j) == Wake(j) \/ GiveUp(j)

Next ==
  \/ \E j \in Job : Submit(j) \/ Answer(j) \/ Age(j)
  \/ \E w \in Worker : Run(w)
  \/ Close

Spec == Init /\ [][Next]_vars

\* The worker thread keeps running and every job's work returns or raises
\* (each browser wait has a timeout); a request thread that entered submit()
\* or a timed wait leaves it.  Nobody has to call anything.
Fairness ==
  /\ \A w \in Worker : WF_vars(Run(w))
  /\ \A j \in Job : WF_vars(Insert(j) \/ SetStage(j) \/ Enqueue(j)) /\ WF_vars(Answer(j))

FairSpec == Spec /\ Fairness

-----------------------------------------------------------------------------
TypeOK ==
  /\ submitter \in [Job -> {"idle", "pruned", "inserted", "staged", "enqueued", "refused"}]
  /\ busy \in [Job -> BOOLEAN]
  /\ known \subseteq Job
  /\ queue \in Seq(Job)
  /\ at \in [Worker -> {"idle", "taken", "work", "finished", "signalled"}]
  /\ holds \in [Worker -> Job \cup {NoJob}]
  /\ state \in [Job -> {"queued", "running"} \cup Ends]
  /\ stage \in [Job -> Stages]
  /\ error \in [Job -> {"none", "blank", "text"}]
  /\ version \in [Job -> Nat]
  /\ progress \in [Job -> 0 .. MaxProgress]
  /\ event \subseteq Job
  /\ overdue \subseteq Job
  /\ closed \in BOOLEAN
  /\ caller \in [Job -> {"none", "waiting"} \cup Answers]
  /\ outcome \in [Job -> Outcomes \cup {"none"}]
  /\ earlier \in [Job -> SUBSET Job]

Begun(j) == Finished(j) \/ \E w \in Worker : holds[w] = j

(* "Jobs run one at a time": no two jobs are running, and the one that is    *)
(* has the worker's log lines and no other job has.                          *)
OneAtATime ==
  /\ \A i, j \in Job : state[i] = "running" /\ state[j] = "running" => i = j
  /\ \A j \in Job : state[j] = "running" <=> \E w \in Worker : holds[w] = j /\ at[w] = "work"

(* "In order": a job whose submission began after another submission had     *)
(* returned does not begin until that other job has finished.  (Two          *)
(* submissions that overlap may be inserted in one order and queued in the   *)
(* other.)                                                                   *)
RunsInOrder ==
  \A j \in Job : \A i \in earlier[j] : Begun(j) => Finished(i)

(* Of two unfinished jobs the manager lists, at most one was told that the   *)
(* browser is free: the busy test and the insertion are one lock section.    *)
OnlyOneFindsItIdle ==
  \A i, j \in known : i # j /\ ~Finished(i) /\ ~Finished(j) => busy[i] \/ busy[j]

(* A job that has not finished can always be looked up, however old it is.   *)
UnfinishedIsListed ==
  \A j \in Job : Inserted(j) /\ ~Finished(j) => j \in known

(* A blocked caller that is woken finds the job's end: it never reports      *)
(* success for a job that ended in an error or is still running.             *)
AnswersAreTrue ==
  \A j \in Job :
    /\ caller[j] = "ok" => outcome[j] = "returned" /\ state[j] = "done"
    /\ caller[j] = "error" => outcome[j] # "returned" /\ state[j] = "failed"
    /\ caller[j] = "broken" => Finished(j)

(* An exception that is not a JobFailed always ends the job as failed, with  *)
(* a text to show, and work that returns never does.                         *)
CrashIsFailure ==
  \A j \in Job :
    /\ outcome[j] = "crashed" => state[j] = "failed" /\ error[j] = "text"
    /\ outcome[j] = "returned" => state[j] = "done"

(* A finished job never changes again: not its state, its stage, its error   *)
(* or its version (followers stop reading at the first finished version).    *)
FinishedIsFinal ==
  [][\A j \in Job : Finished(j) =>
       UNCHANGED <<state[j], stage[j], error[j], version[j]>>]_vars

(* A job the executor accepted finishes unless the manager is closed first,  *)
(* and one that has begun finishes even then; no request thread is held for  *)
(* ever by a blocking endpoint, though a cancelled job's event is never set. *)
AcceptedJobsFinish ==
  \A j \in Job :
    /\ submitter[j] = "enqueued" ~> Finished(j) \/ closed
    /\ Begun(j) ~> Finished(j)
    /\ caller[j] = "waiting" ~> caller[j] \in Answers

-----------------------------------------------------------------------------
(* The manager implements the abstract lifecycle.                          *)

LifeOf(j) == IF Inserted(j) THEN state[j] ELSE "absent"

TellOf(j) ==
  CASE caller[j] \in {"ok", "broken"} -> "done"
    [] caller[j] = "error"            -> "failed"
    [] caller[j] = "timeout"          -> "timeout"
    [] OTHER                          -> "nothing"

Lifecycle == INSTANCE JobLifecycle WITH
  life   <- [j \in Job |-> LifeOf(j)],
  listed <- known,
  told   <- [j \in Job |-> TellOf(j)]

(* Every step of the manager is a step of the lifecycle it promises, or      *)
(* changes nothing a client can see.                                         *)
ImplementsLifecycle == Lifecycle!Spec
=============================================================================
