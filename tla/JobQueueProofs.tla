--------------------------- MODULE JobQueueProofs ---------------------------
(***************************************************************************)
(* Proofs about the job manager, for any number of jobs.                   *)
(***************************************************************************)
EXTENDS JobQueue, SequenceTheorems, TLAPS

(* The worker's slot in _running_by_thread is empty exactly while it idles. *)
WorkerSlot == \A w \in Worker : at[w] = "idle" <=> holds[w] = NoJob

LEMMA HeldIsJob ==
  ASSUME TypeOK, WorkerSlot, NEW w \in Worker, at[w] # "idle"
  PROVE  holds[w] \in Job
  BY DEF TypeOK, WorkerSlot

LEMMA TakenIsJob ==
  ASSUME TypeOK, queue # << >>
  PROVE  Head(queue) \in Job /\ Tail(queue) \in Seq(Job)
  BY HeadTailProperties DEF TypeOK

LEMMA Increment ==
  ASSUME NEW S, NEW f \in [S -> Nat], NEW x \in S
  PROVE  [f EXCEPT ![x] = @ + 1] \in [S -> Nat]
  <1>1. f[x] + 1 \in Nat
    OBVIOUS
  <1> QED BY <1>1

LEMMA TypeInductive == TypeOK /\ WorkerSlot /\ [Next]_vars => TypeOK' /\ WorkerSlot'
  <1> SUFFICES ASSUME TypeOK, WorkerSlot, [Next]_vars
               PROVE  TypeOK' /\ WorkerSlot'
    OBVIOUS
  <1> USE DEF TypeOK, WorkerSlot, Ends, Stages, Outcomes, Answers
  <1>1. ASSUME NEW j \in Job, Prune(j) PROVE TypeOK' /\ WorkerSlot'
    BY <1>1 DEF Prune, fields, pool
  <1>2. ASSUME NEW j \in Job, Insert(j) PROVE TypeOK' /\ WorkerSlot'
    BY <1>2 DEF Insert, Busy, fields, pool
  <1>3. ASSUME NEW j \in Job, SetStage(j) PROVE TypeOK' /\ WorkerSlot'
    BY <1>3 DEF SetStage, pool
  <1>4. ASSUME NEW j \in Job, Enqueue(j) PROVE TypeOK' /\ WorkerSlot'
    <2>1. /\ queue \in Seq(Job) /\ caller \in [Job -> {"none", "waiting"} \cup Answers]
          /\ submitter \in [Job -> {"idle", "pruned", "inserted", "staged", "enqueued", "refused"}]
      OBVIOUS
    <2>2. queue' = queue \/ queue' = Append(queue, j)
      BY ONLY <1>4 DEF Enqueue
    <2>3. queue' \in Seq(Job)
      BY ONLY <2>1, <2>2, <1>4, AppendProperties
    <2>4. submitter' \in [Job -> {"idle", "pruned", "inserted", "staged", "enqueued", "refused"}]
      BY ONLY <1>4, <2>1 DEF Enqueue
    <2>5. caller' \in [Job -> {"none", "waiting"} \cup Answers]
      BY ONLY <1>4, <2>1 DEF Enqueue
    <2>6. UNCHANGED <<busy, earlier, fields, at, holds, known, event, overdue, closed>>
      BY ONLY <1>4 DEF Enqueue
    <2> QED BY ONLY TypeOK, WorkerSlot, <2>3, <2>4, <2>5, <2>6 DEF TypeOK, WorkerSlot, fields
  <1>5. ASSUME NEW j \in Job, Wake(j) PROVE TypeOK' /\ WorkerSlot'
    BY <1>5 DEF Wake, AnswerOf, fields, pool
  <1>6. ASSUME NEW j \in Job, GiveUp(j) PROVE TypeOK' /\ WorkerSlot'
    BY <1>6 DEF GiveUp, fields, pool
  <1>7. ASSUME NEW j \in Job, Age(j) PROVE TypeOK' /\ WorkerSlot'
    BY <1>7 DEF Age, threads, fields, pool
  <1>8. ASSUME NEW w \in Worker, Take(w) PROVE TypeOK' /\ WorkerSlot'
    <2>1. Head(queue) \in Job /\ Tail(queue) \in Seq(Job) /\ NoJob \notin Job
      BY <1>8, TakenIsJob, JobAssumption DEF Take
    <2>2. /\ at' = [at EXCEPT ![w] = "taken"] /\ holds' = [holds EXCEPT ![w] = Head(queue)]
          /\ queue' = Tail(queue) /\ UNCHANGED <<threads, fields, known, event, overdue, closed>>
      BY ONLY <1>8 DEF Take
    <2>3. /\ at \in [Worker -> {"idle", "taken", "work", "finished", "signalled"}]
          /\ holds \in [Worker -> Job \cup {NoJob}]
      OBVIOUS
    <2>4. at' \in [Worker -> {"idle", "taken", "work", "finished", "signalled"}]
          /\ holds' \in [Worker -> Job \cup {NoJob}]
      BY ONLY <2>1, <2>2, <2>3
    <2>5. WorkerSlot'
      BY ONLY WorkerSlot, <2>1, <2>2, <2>3 DEF WorkerSlot
    <2>6. /\ UNCHANGED <<submitter, busy, caller, earlier, state, stage, error, version, progress, outcome>>
          /\ UNCHANGED <<known, event, overdue, closed>>
      BY ONLY <2>2 DEF threads, fields
    <2> QED BY <2>1, <2>2, <2>4, <2>5, <2>6
  <1>9. ASSUME NEW w \in Worker, Begin(w) PROVE TypeOK' /\ WorkerSlot'
    <2>1. holds[w] \in Job /\ at[w] = "taken"
      BY <1>9, HeldIsJob DEF Begin
    <2>2. version' \in [Job -> Nat]
      BY <1>9, <2>1, Increment DEF Begin
    <2> QED BY <1>9, <2>1, <2>2 DEF Begin, threads
  <1>10. ASSUME NEW w \in Worker, Progress(w) PROVE TypeOK' /\ WorkerSlot'
    <2>1. holds[w] \in Job /\ at[w] = "work"
      BY <1>10, HeldIsJob DEF Progress
    <2>2. version' \in [Job -> Nat]
      BY <1>10, <2>1, Increment DEF Progress
    <2>3. progress[holds[w]] + 1 \in 0 .. MaxProgress
      <3>1. progress[holds[w]] \in 0 .. MaxProgress
        BY <2>1
      <3>2. progress[holds[w]] < MaxProgress /\ MaxProgress \in Nat
        BY <1>10, JobAssumption DEF Progress
      <3> HIDE DEF TypeOK, WorkerSlot
      <3> QED BY <3>1, <3>2
    <2>4. progress' \in [Job -> 0 .. MaxProgress]
      <3>1. progress \in [Job -> 0 .. MaxProgress] /\ progress' = [progress EXCEPT ![holds[w]] = @ + 1]
        BY <1>10 DEF Progress
      <3> QED BY ONLY <2>1, <2>3, <3>1
    <2>5. stage' \in [Job -> Stages]
      <3>1. stage \in [Job -> Stages] /\ (stage' = [stage EXCEPT ![holds[w]] = "working"] \/ stage' = stage)
        BY <1>10 DEF Progress
      <3> QED BY ONLY <2>1, <3>1 DEF Stages
    <2>6. UNCHANGED <<threads, state, error, outcome, pool, known, event, overdue, closed>>
      BY <1>10 DEF Progress
    <2> QED BY <2>2, <2>4, <2>5, <2>6 DEF threads, pool
  <1>11. ASSUME NEW w \in Worker, Finish(w) PROVE TypeOK' /\ WorkerSlot'
    <2>1. PICK o \in Outcomes :
            /\ outcome' = [outcome EXCEPT ![holds[w]] = o]
            /\ error' = [error EXCEPT ![holds[w]] = ErrorOf(o)]
            /\ state' = [state EXCEPT ![holds[w]] = EndOf(ErrorOf(o))]
            /\ stage' = [stage EXCEPT ![holds[w]] =
                           IF EndOf(ErrorOf(o)) = "failed" THEN "Failed" ELSE "Done"]
      BY <1>11, Zenon DEF Finish
    <2>2. ErrorOf(o) \in {"none", "blank", "text"} /\ EndOf(ErrorOf(o)) \in Ends
      BY DEF ErrorOf, EndOf
    <2>3. UNCHANGED <<threads, progress, queue, holds, known, event, closed>>
          /\ version' = [version EXCEPT ![holds[w]] = @ + 1]
          /\ overdue' = overdue \ {holds[w]}
          /\ at' = [at EXCEPT ![w] = "finished"] /\ at[w] = "work"
      BY <1>11 DEF Finish
    <2>4. holds[w] \in Job
      BY <2>3, HeldIsJob
    <2>5. version' \in [Job -> Nat]
      BY <2>3, <2>4, Increment
    <2>6. /\ outcome' \in [Job -> Outcomes \cup {"none"}]
          /\ error' \in [Job -> {"none", "blank", "text"}]
          /\ state' \in [Job -> {"queued", "running"} \cup Ends]
          /\ stage' \in [Job -> Stages]
      BY <2>1, <2>2, <2>4
    <2>7. /\ UNCHANGED <<submitter, busy, caller, earlier, progress, queue, holds, known, event, closed>>
          /\ at \in [Worker -> {"idle", "taken", "work", "finished", "signalled"}] /\ overdue \subseteq Job
      BY <2>3 DEF threads
    <2>8. WorkerSlot'
      BY ONLY WorkerSlot, <2>3, <2>7 DEF WorkerSlot
    <2>9. at' \in [Worker -> {"idle", "taken", "work", "finished", "signalled"}] /\ overdue' \subseteq Job
      BY ONLY <2>3, <2>7
    <2> QED BY <2>5, <2>6, <2>7, <2>8, <2>9
  <1>12. ASSUME NEW w \in Worker, SetEvent(w) PROVE TypeOK' /\ WorkerSlot'
    <2>1. holds[w] \in Job
      BY <1>12, HeldIsJob DEF SetEvent
    <2>2. event' \subseteq Job /\ at' = [at EXCEPT ![w] = "signalled"] /\ at[w] = "finished"
      BY <1>12, <2>1 DEF SetEvent
    <2>3. UNCHANGED <<threads, fields, queue, holds, known, overdue, closed>>
      BY <1>12 DEF SetEvent
    <2> QED BY <2>1, <2>2, <2>3 DEF threads, fields
  <1>13. ASSUME NEW w \in Worker, Release(w) PROVE TypeOK' /\ WorkerSlot'
    <2>1. at' = [at EXCEPT ![w] = "idle"] /\ holds' = [holds EXCEPT ![w] = NoJob]
      BY <1>13 DEF Release
    <2>2. UNCHANGED <<threads, fields, queue, known, event, overdue, closed>>
      BY <1>13 DEF Release
    <2> QED BY <2>1, <2>2 DEF threads, fields
  <1>14. CASE Close
    BY <1>14, EmptySeq DEF Close, threads, fields
  <1>15. CASE UNCHANGED vars
    BY <1>15 DEF vars, threads, fields, pool
  <1> QED
    BY <1>1, <1>2, <1>3, <1>4, <1>5, <1>6, <1>7, <1>8, <1>9, <1>10, <1>11, <1>12,
       <1>13, <1>14, <1>15 DEF Next, Submit, Run, Answer

LEMMA TypeInit == Init => TypeOK /\ WorkerSlot
  <1> SUFFICES ASSUME Init PROVE TypeOK /\ WorkerSlot
    OBVIOUS
  <1>1. 0 \in 0 .. MaxProgress
    BY JobAssumption
  <1>2. queue \in Seq(Job)
    BY EmptySeq DEF Init
  <1>3. WorkerSlot
    BY DEF Init, WorkerSlot
  <1>4. progress \in [Job -> 0 .. MaxProgress]
    BY <1>1 DEF Init
  <1>5. at \in [Worker -> {"idle", "taken", "work", "finished", "signalled"}]
    BY DEF Init
  <1>6. holds \in [Worker -> Job \cup {NoJob}]
    BY DEF Init
  <1> QED BY <1>2, <1>3, <1>4, <1>5, <1>6 DEF Init, TypeOK, Ends, Stages, Outcomes, Answers

(* Every field of the manager, its jobs and its threads keeps to the values *)
(* manager.py declares for it.                                              *)
THEOREM TypeCorrect == Spec => [](TypeOK /\ WorkerSlot)
  BY TypeInit, TypeInductive, PTL DEF Spec

-----------------------------------------------------------------------------
(* The inductive invariant, part by part.                                  *)

(* What the worker's place in _run says of the job it holds, and back.      *)
WorkerInv ==
  /\ \A w \in Worker :
       /\ at[w] = "taken" => state[holds[w]] = "queued"
       /\ at[w] = "work" => state[holds[w]] = "running"
       /\ at[w] \in {"finished", "signalled"} => state[holds[w]] \in Ends
  /\ \A j \in Job : state[j] = "running" => \E w \in Worker : holds[w] = j /\ at[w] = "work"

Held(j) == \E w \in Worker : holds[w] = j
Queued(j) == \E p \in 1 .. Len(queue) : queue[p] = j

(* A job is handed to the executor once: it waits in the queue, or it has   *)
(* been taken, and nothing happens to it before.                            *)
QueueInv ==
  /\ \A p \in 1 .. Len(queue) :
       state[queue[p]] = "queued" /\ submitter[queue[p]] = "enqueued" /\ ~Held(queue[p])
  /\ \A p, q \in 1 .. Len(queue) : queue[p] = queue[q] => p = q
  /\ \A j \in Job : submitter[j] # "enqueued" => state[j] = "queued" /\ ~Held(j)

(* How a job ended fits how its work ended, and whoever asks knows it.      *)
OutcomeInv ==
  /\ \A j \in Job : outcome[j] = "none" <=> ~Finished(j)
  /\ \A j \in Job : Finished(j) => error[j] = ErrorOf(outcome[j]) /\ state[j] = EndOf(error[j])
  /\ \A j \in event : Finished(j)
  /\ \A j \in Job : caller[j] # "none" => submitter[j] = "enqueued"

(* The manager lists what was inserted, and every job that is not over.     *)
ListInv ==
  /\ UnfinishedIsListed
  /\ \A j \in known : Inserted(j)

Inv == TypeOK /\ WorkerSlot /\ WorkerInv /\ QueueInv /\ OutcomeInv /\ ListInv

(* Where the submissions that returned before j's began are, compared to j. *)
OrderInv ==
  /\ \A j \in Job : \A i \in earlier[j] : submitter[i] = "enqueued" /\ i # j
  /\ \A j \in Job : submitter[j] = "enqueued" => Begun(j) \/ Queued(j) \/ closed
  /\ closed => queue = << >>
  /\ \A q \in 1 .. Len(queue) : \A i \in earlier[queue[q]] :
       Begun(i) \/ \E p \in 1 .. q - 1 : queue[p] = i
  /\ RunsInOrder

(* There is one worker, so what it holds is held by nobody else.            *)
LEMMA OneWorker == Worker = {1}
  BY DEF Worker, PoolSize

LEMMA TakenQueue ==
  ASSUME TypeOK, queue # << >>
  PROVE  /\ Head(queue) = queue[1] /\ 1 \in 1 .. Len(queue)
         /\ \A p \in 1 .. Len(Tail(queue)) :
              p + 1 \in 1 .. Len(queue) /\ Tail(queue)[p] = queue[p + 1]
         /\ \A p \in 1 .. Len(queue) : p = 1 \/ (p - 1 \in 1 .. Len(Tail(queue)) /\ Tail(queue)[p - 1] = queue[p])
  <1>1. queue \in Seq(Job) /\ Len(queue) \in Nat /\ Len(queue) # 0
    BY LenProperties, EmptySeq DEF TypeOK
  <1>2. Len(Tail(queue)) = Len(queue) - 1
    BY <1>1, HeadTailProperties
  <1>3. \A p \in 1 .. Len(Tail(queue)) : Tail(queue)[p] = queue[p + 1]
    BY <1>1, HeadTailProperties
  <1>4. Head(queue) = queue[1]
    BY <1>1, HeadTailProperties
  <1> QED BY <1>1, <1>2, <1>3, <1>4

LEMMA EnqueuedQueue ==
  ASSUME TypeOK, NEW j \in Job
  PROVE  /\ Len(queue) \in Nat
         /\ Len(Append(queue, j)) = Len(queue) + 1
         /\ \A p \in 1 .. Len(queue) : Append(queue, j)[p] = queue[p]
         /\ Append(queue, j)[Len(queue) + 1] = j
  BY LenProperties, AppendProperties DEF TypeOK

LEMMA QueuedAreJobs ==
  ASSUME TypeOK
  PROVE  \A p \in 1 .. Len(queue) : queue[p] \in Job
  BY ElementOfSeq DEF TypeOK

LEMMA WorkerStep == Inv /\ [Next]_vars => WorkerInv'
  <1> SUFFICES ASSUME Inv, [Next]_vars
               PROVE  WorkerInv'
    OBVIOUS
  <1> USE OneWorker DEF Inv, WorkerInv, Ends
  <1>1. ASSUME NEW j \in Job, Submit(j) \/ Answer(j) \/ Age(j) PROVE WorkerInv'
    <2>1. state' = state /\ at' = at /\ holds' = holds
      <3>1. CASE Prune(j)
        BY ONLY <3>1 DEF Prune, fields, pool
      <3>2. CASE Insert(j)
        BY ONLY <3>2 DEF Insert, fields, pool
      <3>3. CASE SetStage(j)
        BY ONLY <3>3 DEF SetStage, pool
      <3>4. CASE Enqueue(j)
        BY ONLY <3>4 DEF Enqueue, fields
      <3>5. CASE Answer(j)
        BY ONLY <3>5 DEF Answer, Wake, GiveUp, fields, pool
      <3>6. CASE Age(j)
        BY ONLY <3>6 DEF Age, fields, pool
      <3> QED BY ONLY <1>1, <3>1, <3>2, <3>3, <3>4, <3>5, <3>6 DEF Submit
    <2> QED BY <2>1
  <1>2. ASSUME NEW w \in Worker, Take(w) PROVE WorkerInv'
    <2>1. Head(queue) \in Job /\ state[Head(queue)] = "queued"
      BY <1>2, TakenIsJob, TakenQueue DEF Take, QueueInv
    <2> QED BY <1>2, <2>1 DEF Take, threads, fields, TypeOK
  <1>3. ASSUME NEW w \in Worker, Begin(w) PROVE WorkerInv'
    <2>1. holds[w] \in Job
      BY <1>3, HeldIsJob DEF Begin
    <2> QED BY <1>3, <2>1 DEF Begin, threads, TypeOK
  <1>4. ASSUME NEW w \in Worker, Progress(w) PROVE WorkerInv'
    BY <1>4 DEF Progress, threads, pool
  <1>5. ASSUME NEW w \in Worker, Finish(w) PROVE WorkerInv'
    <2>1. holds[w] \in Job
      BY <1>5, HeldIsJob DEF Finish
    <2>2. PICK o \in Outcomes : state' = [state EXCEPT ![holds[w]] = EndOf(ErrorOf(o))]
      BY <1>5, Zenon DEF Finish
    <2>3. EndOf(ErrorOf(o)) \in {"done", "failed"}
      BY DEF EndOf
    <2>4. holds' = holds /\ at' = [at EXCEPT ![w] = "finished"] /\ at[w] = "work"
      BY <1>5 DEF Finish
    <2> QED BY <2>1, <2>2, <2>3, <2>4 DEF TypeOK
  <1>6. ASSUME NEW w \in Worker, SetEvent(w) PROVE WorkerInv'
    BY <1>6 DEF SetEvent, threads, fields, TypeOK
  <1>7. ASSUME NEW w \in Worker, Release(w) PROVE WorkerInv'
    BY <1>7 DEF Release, threads, fields, TypeOK
  <1>8. CASE Close
    BY <1>8 DEF Close, threads, fields
  <1>9. CASE UNCHANGED vars
    BY <1>9 DEF vars, threads, fields, pool
  <1> QED
    BY <1>1, <1>2, <1>3, <1>4, <1>5, <1>6, <1>7, <1>8, <1>9 DEF Next, Run

LEMMA QueueStep == Inv /\ [Next]_vars => QueueInv'
  <1> SUFFICES ASSUME Inv, [Next]_vars
               PROVE  QueueInv'
    OBVIOUS
  <1> USE OneWorker DEF Inv, QueueInv, Held
  <1>1. ASSUME NEW j \in Job, Prune(j) \/ Insert(j) \/ SetStage(j) PROVE QueueInv'
    <2>1. submitter[j] # "enqueued" /\ UNCHANGED <<queue, holds, state>>
      BY <1>1 DEF Prune, Insert, SetStage, fields, pool
    <2>2. \E s \in {"pruned", "inserted", "staged"} : submitter' = [submitter EXCEPT ![j] = s]
      BY <1>1 DEF Prune, Insert, SetStage
    <2> QED BY <2>1, <2>2, QueuedAreJobs DEF TypeOK
  <1>2. ASSUME NEW j \in Job, Enqueue(j) PROVE QueueInv'
    <2>1. CASE closed
      BY <1>2, <2>1, QueuedAreJobs DEF Enqueue, fields, TypeOK
    <2>2. CASE ~closed
      <3>1. /\ submitter' = [submitter EXCEPT ![j] = "enqueued"]
            /\ queue' = Append(queue, j)
            /\ UNCHANGED <<state, holds>> /\ submitter[j] = "staged"
        BY <1>2, <2>2 DEF Enqueue, fields
      <3>2. /\ Len(queue) \in Nat /\ Len(queue') = Len(queue) + 1
            /\ \A p \in 1 .. Len(queue) : queue'[p] = queue[p]
            /\ queue'[Len(queue) + 1] = j
        BY <3>1, EnqueuedQueue
      <3>3. \A p \in 1 .. Len(queue) : queue[p] # j /\ queue[p] \in Job
        BY <3>1, QueuedAreJobs
      <3>4. \A p \in 1 .. Len(queue') : p \in 1 .. Len(queue) \/ p = Len(queue) + 1
        BY <3>2
      <3>5. ASSUME NEW p \in 1 .. Len(queue')
            PROVE  /\ state'[queue'[p]] = "queued" /\ submitter'[queue'[p]] = "enqueued"
                   /\ \A w \in Worker : holds'[w] # queue'[p]
        BY <3>1, <3>2, <3>3, <3>4 DEF TypeOK
      <3>6. \A p, q \in 1 .. Len(queue') : queue'[p] = queue'[q] => p = q
        BY <3>2, <3>3, <3>4
      <3>7. \A i \in Job : submitter'[i] # "enqueued" =>
                state'[i] = "queued" /\ \A v \in Worker : holds'[v] # i
        BY <3>1 DEF TypeOK
      <3> QED BY <3>5, <3>6, <3>7
    <2> QED BY <2>1, <2>2
  <1>3. ASSUME NEW j \in Job, Answer(j) \/ Age(j) PROVE QueueInv'
    BY <1>3 DEF Answer, Wake, GiveUp, Age, threads, fields, pool
  <1>4. ASSUME NEW w \in Worker, Take(w) PROVE QueueInv'
    <2>1. /\ queue # << >> /\ queue' = Tail(queue) /\ UNCHANGED <<state, submitter>>
          /\ holds' = [holds EXCEPT ![w] = Head(queue)]
      BY <1>4 DEF Take, threads, fields
    <2>2. /\ Head(queue) = queue[1] /\ 1 \in 1 .. Len(queue)
          /\ \A p \in 1 .. Len(queue') : p + 1 \in 1 .. Len(queue) /\ queue'[p] = queue[p + 1]
      BY <2>1, TakenQueue
    <2>3. \A p \in 1 .. Len(queue') : p + 1 # 1
      OBVIOUS
    <2>4. ASSUME NEW p \in 1 .. Len(queue')
          PROVE  /\ state'[queue'[p]] = "queued" /\ submitter'[queue'[p]] = "enqueued"
                 /\ \A v \in Worker : holds'[v] # queue'[p]
      BY <2>1, <2>2, <2>3 DEF TypeOK
    <2>5. ASSUME NEW p \in 1 .. Len(queue'), NEW q \in 1 .. Len(queue'), queue'[p] = queue'[q]
          PROVE  p = q
      <3>1. p + 1 = q + 1
        BY <2>2, <2>5
      <3> QED BY <3>1
    <2>6. \A i \in Job : submitter'[i] # "enqueued" =>
                state'[i] = "queued" /\ \A v \in Worker : holds'[v] # i
      BY <2>1, <2>2 DEF TypeOK
    <2> QED BY <2>4, <2>5, <2>6
  <1>5. ASSUME NEW w \in Worker, Begin(w) \/ Progress(w) \/ Finish(w) PROVE QueueInv'
    <2>1. holds[w] \in Job /\ Held(holds[w])
      BY <1>5, HeldIsJob DEF Begin, Progress, Finish
    <2>2. UNCHANGED <<queue, holds, submitter>>
      BY <1>5 DEF Begin, Progress, Finish, threads, pool
    <2>3. \A j \in Job : j # holds[w] => state'[j] = state[j]
      BY <1>5, <2>1 DEF Begin, Progress, Finish, TypeOK
    <2> QED BY <2>1, <2>2, <2>3, QueuedAreJobs
  <1>6. ASSUME NEW w \in Worker, SetEvent(w) \/ Release(w) PROVE QueueInv'
    <2>1. UNCHANGED <<queue, state, submitter>>
      BY <1>6 DEF SetEvent, Release, threads, fields
    <2>2. holds' = holds \/ holds' = [holds EXCEPT ![w] = NoJob]
      BY <1>6 DEF SetEvent, Release
    <2> QED BY <2>1, <2>2, QueuedAreJobs, JobAssumption DEF TypeOK
  <1>7. CASE Close
    <2>1. Len(queue') = 0
      BY <1>7, EmptySeq DEF Close
    <2>2. UNCHANGED <<state, submitter, holds>>
      BY <1>7 DEF Close, threads, fields
    <2> QED BY <2>1, <2>2
  <1>8. CASE UNCHANGED vars
    BY <1>8 DEF vars, threads, fields, pool
  <1> QED
    BY <1>1, <1>2, <1>3, <1>4, <1>5, <1>6, <1>7, <1>8 DEF Next, Submit, Run

(* The end of a job is written once, and fits the outcome of its work.      *)
LEMMA FinishStep ==
  ASSUME Inv, NEW w \in Worker, Finish(w)
  PROVE  /\ holds[w] \in Job /\ state[holds[w]] = "running"
         /\ \E o \in Outcomes :
              /\ outcome' = [outcome EXCEPT ![holds[w]] = o]
              /\ error' = [error EXCEPT ![holds[w]] = ErrorOf(o)]
              /\ state' = [state EXCEPT ![holds[w]] = EndOf(ErrorOf(o))]
              /\ EndOf(ErrorOf(o)) \in Ends
  <1>1. holds[w] \in Job /\ state[holds[w]] = "running"
    BY HeldIsJob DEF Finish, Inv, WorkerInv
  <1>2. \A o \in Outcomes : EndOf(ErrorOf(o)) \in Ends
    BY DEF EndOf, Ends
  <1>3. \E o \in Outcomes :
          /\ outcome' = [outcome EXCEPT ![holds[w]] = o]
          /\ error' = [error EXCEPT ![holds[w]] = ErrorOf(o)]
          /\ state' = [state EXCEPT ![holds[w]] = EndOf(ErrorOf(o))]
    BY Zenon DEF Finish
  <1> QED BY <1>1, <1>2, <1>3

LEMMA OutcomeStep == Inv /\ [Next]_vars => OutcomeInv'
  <1> SUFFICES ASSUME Inv, [Next]_vars
               PROVE  OutcomeInv'
    OBVIOUS
  <1> USE DEF Inv, OutcomeInv, Finished, Ends
  <1>1. ASSUME NEW j \in Job, Prune(j) \/ Insert(j) \/ SetStage(j) PROVE OutcomeInv'
    <2>1. UNCHANGED <<outcome, state, error, event, caller>> /\ submitter[j] # "enqueued"
      BY <1>1 DEF Prune, Insert, SetStage, fields, pool
    <2>2. \E s \in {"pruned", "inserted", "staged"} : submitter' = [submitter EXCEPT ![j] = s]
      BY <1>1 DEF Prune, Insert, SetStage
    <2>3. \A i \in Job : submitter[i] = "enqueued" => submitter'[i] = "enqueued"
      BY <2>1, <2>2 DEF TypeOK
    <2> QED BY <2>1, <2>3
  <1>2. ASSUME NEW j \in Job, Enqueue(j) PROVE OutcomeInv'
    <2>1. UNCHANGED <<outcome, state, error, event>>
      BY <1>2 DEF Enqueue, fields
    <2>2. \A i \in Job :
            /\ submitter[i] = "enqueued" => submitter'[i] = "enqueued"
            /\ (caller'[i] = caller[i] \/ (i = j /\ submitter'[i] = "enqueued"))
      BY <1>2 DEF Enqueue, TypeOK
    <2> QED BY <2>1, <2>2
  <1>3. ASSUME NEW j \in Job, Answer(j) PROVE OutcomeInv'
    <2>1. UNCHANGED <<outcome, state, error, event, submitter>> /\ caller[j] # "none"
          /\ \A i \in Job : i # j => caller'[i] = caller[i]
      BY <1>3 DEF Answer, Wake, GiveUp, fields, TypeOK
    <2> QED BY <2>1
  <1>4. ASSUME NEW j \in Job, Age(j) PROVE OutcomeInv'
    BY <1>4 DEF Age, threads, fields
  <1>5. ASSUME NEW w \in Worker, Take(w) PROVE OutcomeInv'
    BY <1>5 DEF Take, threads, fields
  <1>6. ASSUME NEW w \in Worker, Begin(w) PROVE OutcomeInv'
    <2>1. holds[w] \in Job /\ state[holds[w]] = "queued"
      BY <1>6, HeldIsJob DEF Begin, WorkerInv
    <2>2. /\ UNCHANGED <<outcome, error, event, submitter, caller>>
          /\ state' = [state EXCEPT ![holds[w]] = "running"]
      BY <1>6 DEF Begin, threads
    <2>3. \A j \in Job : state'[j] = state[j] \/ (state[j] = "queued" /\ state'[j] = "running")
      BY <2>1, <2>2 DEF TypeOK
    <2>4. holds[w] \notin event
      BY <2>1
    <2> QED BY <2>1, <2>2, <2>3, <2>4 DEF TypeOK
  <1>7. ASSUME NEW w \in Worker, Progress(w) PROVE OutcomeInv'
    BY <1>7 DEF Progress, threads
  <1>8. ASSUME NEW w \in Worker, Finish(w) PROVE OutcomeInv'
    <2>1. PICK o \in Outcomes :
            /\ outcome' = [outcome EXCEPT ![holds[w]] = o]
            /\ error' = [error EXCEPT ![holds[w]] = ErrorOf(o)]
            /\ state' = [state EXCEPT ![holds[w]] = EndOf(ErrorOf(o))]
            /\ EndOf(ErrorOf(o)) \in Ends
      BY <1>8, FinishStep, Zenon
    <2>2. holds[w] \in Job /\ o # "none"
      BY <1>8, FinishStep DEF Outcomes
    <2>3. UNCHANGED <<event, submitter, caller>>
      BY <1>8 DEF Finish, threads
    <2> QED BY <2>1, <2>2, <2>3 DEF TypeOK
  <1>9. ASSUME NEW w \in Worker, SetEvent(w) PROVE OutcomeInv'
    BY <1>9 DEF SetEvent, threads, fields, WorkerInv
  <1>10. ASSUME NEW w \in Worker, Release(w) PROVE OutcomeInv'
    BY <1>10 DEF Release, threads, fields
  <1>11. CASE Close
    BY <1>11 DEF Close, threads, fields
  <1>12. CASE UNCHANGED vars
    BY <1>12 DEF vars, threads, fields, pool
  <1> QED
    BY <1>1, <1>2, <1>3, <1>4, <1>5, <1>6, <1>7, <1>8, <1>9, <1>10, <1>11, <1>12
       DEF Next, Submit, Run

(* Only a job that waits in the queue is begun, and only a running one ends. *)
LEMMA StateStep ==
  ASSUME Inv, NEW w \in Worker, Run(w)
  PROVE  \A j \in Job : \/ state'[j] = state[j]
                        \/ state[j] = "queued" /\ state'[j] = "running"
                        \/ state[j] = "running" /\ state'[j] \in Ends
  <1>1. CASE Begin(w)
    BY <1>1, HeldIsJob DEF Begin, Inv, WorkerInv, TypeOK
  <1>2. CASE Finish(w)
    BY <1>2, FinishStep DEF Inv, TypeOK
  <1>3. CASE Take(w) \/ Progress(w) \/ SetEvent(w) \/ Release(w)
    BY <1>3 DEF Take, Progress, SetEvent, Release, fields
  <1> QED BY <1>1, <1>2, <1>3 DEF Run

LEMMA ListStep == Inv /\ [Next]_vars => ListInv'
  <1> SUFFICES ASSUME Inv, [Next]_vars
               PROVE  ListInv'
    OBVIOUS
  <1> USE DEF Inv, ListInv, UnfinishedIsListed, Inserted, Finished, Ends
  <1>1. ASSUME NEW j \in Job, Prune(j) PROVE ListInv'
    BY <1>1 DEF Prune, Stale, fields, TypeOK
  <1>2. ASSUME NEW j \in Job, Insert(j) PROVE ListInv'
    BY <1>2 DEF Insert, fields, TypeOK
  <1>3. ASSUME NEW j \in Job, SetStage(j) \/ Enqueue(j) PROVE ListInv'
    <2>1. UNCHANGED <<known, state>> /\ submitter[j] \in {"inserted", "staged"}
      BY <1>3 DEF SetStage, Enqueue, fields
    <2>2. \A k \in Job : submitter'[k] = submitter[k]
                        \/ (k = j /\ submitter'[k] \in {"staged", "enqueued", "refused"})
      <3>1. submitter \in [Job -> {"idle", "pruned", "inserted", "staged", "enqueued", "refused"}]
        BY DEF TypeOK
      <3> QED BY ONLY <1>3, <3>1 DEF SetStage, Enqueue
    <2>3. known' = known /\ \A k \in Job : (Inserted(k)' <=> Inserted(k)) /\ (Finished(k)' <=> Finished(k))
      BY ONLY <2>1, <2>2 DEF Inserted, Finished
    <2>4. known \subseteq Job
      BY DEF TypeOK
    <2> QED BY ONLY ListInv, <2>3, <2>4 DEF ListInv, UnfinishedIsListed
  <1>4. ASSUME NEW j \in Job, Answer(j) \/ Age(j) PROVE ListInv'
    BY <1>4 DEF Answer, Wake, GiveUp, Age, threads, fields
  <1>5. ASSUME NEW w \in Worker, Run(w) PROVE ListInv'
    <2>1. UNCHANGED <<known, submitter>>
      BY <1>5 DEF Run, Take, Begin, Progress, Finish, SetEvent, Release, threads
    <2> QED BY <1>5, <2>1, StateStep
  <1>6. CASE Close
    BY <1>6 DEF Close, threads, fields
  <1>7. CASE UNCHANGED vars
    BY <1>7 DEF vars, threads, fields, pool
  <1> QED
    BY <1>1, <1>2, <1>3, <1>4, <1>5, <1>6, <1>7 DEF Next, Submit

LEMMA InvInit == Init => Inv
  <1> SUFFICES ASSUME Init PROVE Inv
    OBVIOUS
  <1>1. TypeOK /\ WorkerSlot
    BY TypeInit
  <1>2. Len(queue) = 0
    BY EmptySeq DEF Init
  <1>3. WorkerInv
    BY <1>1 DEF Init, WorkerInv
  <1>4. QueueInv
    <2>1. \A j \in Job : state[j] = "queued" /\ ~Held(j)
      BY JobAssumption DEF Init, Held
    <2>2. \A p \in 1 .. Len(queue) : FALSE
      BY <1>2
    <2> QED BY <2>1, <2>2 DEF QueueInv
  <1>5. OutcomeInv
    BY DEF Init, OutcomeInv, Finished, Ends
  <1>6. ListInv
    BY DEF Init, ListInv, UnfinishedIsListed, Inserted
  <1> QED BY <1>1, <1>3, <1>4, <1>5, <1>6 DEF Inv

LEMMA InvStep == Inv /\ [Next]_vars => Inv'
  BY TypeInductive, WorkerStep, QueueStep, OutcomeStep, ListStep DEF Inv

(* The inductive invariant the safety theorems rest on.                     *)
THEOREM Invariant == Spec => []Inv
  BY InvInit, InvStep, PTL DEF Spec

(* Jobs run one at a time, for any number of submissions.                   *)
THEOREM OneRuns == Spec => []OneAtATime
<1>1. Inv => OneAtATime
  BY OneWorker DEF Inv, WorkerInv, OneAtATime, TypeOK
<1> QED BY <1>1, Invariant, PTL

(* A job that is not over is listed, whatever submit's pruning does.        *)
THEOREM Listed == Spec => []UnfinishedIsListed
<1>1. Inv => UnfinishedIsListed
  BY DEF Inv, ListInv
<1> QED BY <1>1, Invariant, PTL

(* An exception the work raises by accident ends its job as failed.         *)
THEOREM Crashes == Spec => []CrashIsFailure
<1>1. Inv => CrashIsFailure
  BY DEF Inv, OutcomeInv, CrashIsFailure, ErrorOf, EndOf, Finished, Ends, TypeOK, Outcomes
<1> QED BY <1>1, Invariant, PTL

(* Whatever the order of the worker's and the caller's steps, a blocking    *)
(* endpoint answers what happened.                                          *)
THEOREM Answered == Spec => []AnswersAreTrue
<1>1. Init => AnswersAreTrue
  BY DEF Init, AnswersAreTrue
<1>2. Inv /\ AnswersAreTrue /\ [Next]_vars => AnswersAreTrue'
  <2> SUFFICES ASSUME Inv, AnswersAreTrue, [Next]_vars
               PROVE  AnswersAreTrue'
    OBVIOUS
  <2> USE DEF AnswersAreTrue, Finished, Ends
  <2>1. ASSUME NEW j \in Job, Wake(j) PROVE AnswersAreTrue'
    <3>1. /\ caller' = [caller EXCEPT ![j] = AnswerOf(j)]
          /\ UNCHANGED <<outcome, state>> /\ j \in event
      BY <2>1 DEF Wake, fields
    <3>2. /\ Finished(j) /\ caller \in [Job -> {"none", "waiting"} \cup Answers]
          /\ state[j] = EndOf(ErrorOf(outcome[j]))
      BY <3>1 DEF Inv, OutcomeInv, TypeOK
    <3>3. /\ AnswerOf(j) = "ok" => outcome[j] = "returned" /\ state[j] = "done"
          /\ AnswerOf(j) = "error" => outcome[j] # "returned" /\ state[j] = "failed"
      BY <3>2 DEF AnswerOf, ErrorOf, EndOf
    <3> QED BY <3>1, <3>2, <3>3
  <2>2. ASSUME NEW j \in Job, GiveUp(j) \/ Age(j) \/ Prune(j) \/ Insert(j) \/ SetStage(j)
        PROVE  AnswersAreTrue'
    <3>1. UNCHANGED <<state, outcome>>
      BY ONLY <2>2 DEF GiveUp, Age, Prune, Insert, SetStage, fields
    <3>2. caller' = caller \/ caller' = [caller EXCEPT ![j] = "timeout"]
      BY ONLY <2>2 DEF GiveUp, Age, Prune, Insert, SetStage, threads
    <3>3. caller \in [Job -> {"none", "waiting"} \cup Answers]
      BY DEF Inv, TypeOK
    <3> QED BY ONLY AnswersAreTrue, <3>1, <3>2, <3>3 DEF AnswersAreTrue
  <2>3. ASSUME NEW j \in Job, Enqueue(j) PROVE AnswersAreTrue'
    <3>1. UNCHANGED <<state, outcome>> /\ caller \in [Job -> {"none", "waiting"} \cup Answers]
      BY <2>3 DEF Enqueue, fields, Inv, TypeOK
    <3>2. \A k \in Job : caller'[k] = caller[k] \/ caller'[k] = "waiting"
      BY <2>3, <3>1 DEF Enqueue
    <3> QED BY <3>1, <3>2
  <2>4. ASSUME NEW w \in Worker, Run(w) PROVE AnswersAreTrue'
    <3>1. UNCHANGED caller
      BY <2>4 DEF Run, Take, Begin, Progress, Finish, SetEvent, Release, threads
    <3>2. \A j \in Job : Finished(j) => state'[j] = state[j]
      BY <2>4, StateStep
    <3>3. \A j \in Job : Finished(j) => outcome'[j] = outcome[j]
      <4>1. CASE Finish(w)
        BY <4>1, FinishStep DEF Inv, TypeOK
      <4>2. CASE ~Finish(w)
        BY <2>4, <4>2 DEF Run, Take, Begin, Progress, SetEvent, Release, fields
      <4> QED BY <4>1, <4>2
    <3> QED BY <3>1, <3>2, <3>3
  <2>5. CASE Close \/ UNCHANGED vars
    BY <2>5 DEF Close, vars, threads, fields
  <2> QED BY <2>1, <2>2, <2>3, <2>4, <2>5 DEF Next, Submit, Answer
<1> QED BY <1>1, <1>2, Invariant, PTL DEF Spec

(* Followers and callers may stop at the first finished version they see.   *)
THEOREM Final == Spec => FinishedIsFinal
<1>1. Inv /\ [Next]_vars =>
        [\A j \in Job : Finished(j) => UNCHANGED <<state[j], stage[j], error[j], version[j]>>]_vars
  <2> SUFFICES ASSUME Inv, Next, NEW j \in Job, Finished(j)
               PROVE  UNCHANGED <<state[j], stage[j], error[j], version[j]>>
    OBVIOUS
  <2> USE DEF Finished, Ends, Inv
  <2>1. ASSUME NEW i \in Job, SetStage(i) PROVE UNCHANGED <<state[j], stage[j], error[j], version[j]>>
    <3>1. submitter[i] = "inserted"
      BY <2>1 DEF SetStage
    <3>2. i # j
      BY <3>1 DEF QueueInv
    <3> QED BY <2>1, <3>2 DEF SetStage, TypeOK
  <2>2. ASSUME NEW i \in Job, Prune(i) \/ Insert(i) \/ Enqueue(i) \/ Answer(i) \/ Age(i)
        PROVE  UNCHANGED <<state[j], stage[j], error[j], version[j]>>
    BY <2>2 DEF Prune, Insert, Enqueue, Answer, Wake, GiveUp, Age, fields
  <2>3. ASSUME NEW w \in Worker, Begin(w) \/ Progress(w) \/ Finish(w)
        PROVE  UNCHANGED <<state[j], stage[j], error[j], version[j]>>
    <3>1. holds[w] \in Job /\ holds[w] # j
      BY <2>3, HeldIsJob DEF Begin, Progress, Finish, WorkerInv
    <3> QED BY <2>3, <3>1 DEF Begin, Progress, Finish, TypeOK
  <2>4. ASSUME NEW w \in Worker, Take(w) \/ SetEvent(w) \/ Release(w)
        PROVE  UNCHANGED <<state[j], stage[j], error[j], version[j]>>
    BY <2>4 DEF Take, SetEvent, Release, fields
  <2>5. CASE Close
    BY <2>5 DEF Close, fields
  <2> QED BY <2>1, <2>2, <2>3, <2>4, <2>5 DEF Next, Submit, Run
<1> QED BY <1>1, Invariant, PTL DEF Spec, FinishedIsFinal

(* However submissions overlap, one unfinished job at most was told that    *)
(* the browser is free.                                                     *)
THEOREM OneFindsItIdle == Spec => []OnlyOneFindsItIdle
<1>1. Init => OnlyOneFindsItIdle
  BY DEF Init, OnlyOneFindsItIdle
<1>2. Inv /\ OnlyOneFindsItIdle /\ [Next]_vars => OnlyOneFindsItIdle'
  <2> SUFFICES ASSUME Inv, OnlyOneFindsItIdle, [Next]_vars
               PROVE  OnlyOneFindsItIdle'
    OBVIOUS
  <2> USE DEF OnlyOneFindsItIdle, Finished, Ends
  <2>1. ASSUME NEW j \in Job, Prune(j) PROVE OnlyOneFindsItIdle'
    BY <2>1 DEF Prune, fields
  <2>2. ASSUME NEW j \in Job, Insert(j) PROVE OnlyOneFindsItIdle'
    <3>1. /\ busy' = [busy EXCEPT ![j] = Busy] /\ known' = known \cup {j}
          /\ UNCHANGED state /\ j \notin known
      BY <2>2 DEF Insert, fields, Inv, ListInv, Inserted
    <3>2. known \subseteq Job /\ busy \in [Job -> BOOLEAN]
      BY DEF Inv, TypeOK
    <3>3. ASSUME NEW i \in known, ~Finished(i) PROVE busy'[j]
      BY <3>1, <3>2, <3>3 DEF Busy
    <3>4. \A i \in known : busy'[i] = busy[i]
      BY <3>1, <3>2
    <3> QED BY <3>1, <3>3, <3>4
  <2>3. ASSUME NEW j \in Job, SetStage(j) \/ Enqueue(j) \/ Answer(j) \/ Age(j) PROVE OnlyOneFindsItIdle'
    BY <2>3 DEF SetStage, Enqueue, Answer, Wake, GiveUp, Age, threads, fields
  <2>4. ASSUME NEW w \in Worker, Run(w) PROVE OnlyOneFindsItIdle'
    <3>1. UNCHANGED <<known, busy>>
      BY <2>4 DEF Run, Take, Begin, Progress, Finish, SetEvent, Release, threads
    <3>2. \A j \in Job : Finished(j) => state'[j] = state[j]
      BY <2>4, StateStep
    <3> QED BY <3>1, <3>2 DEF Inv, TypeOK
  <2>5. CASE Close \/ UNCHANGED vars
    BY <2>5 DEF Close, vars, threads, fields
  <2> QED BY <2>1, <2>2, <2>3, <2>4, <2>5 DEF Next, Submit
<1> QED BY <1>1, <1>2, Invariant, PTL DEF Spec

-----------------------------------------------------------------------------
(* The order of the jobs.                                                  *)

(* What has begun stays begun, and what has finished stays finished.        *)
LEMMA BegunStays ==
  ASSUME Inv, [Next]_vars
  PROVE  \A j \in Job : (Begun(j) => Begun(j)') /\ (Finished(j) => Finished(j)')
  <1> USE OneWorker DEF Begun, Finished
  <1>1. ASSUME NEW j \in Job, Submit(j) \/ Answer(j) \/ Age(j)
        PROVE  UNCHANGED <<holds, state>>
    BY <1>1 DEF Submit, Prune, Insert, SetStage, Enqueue, Answer, Wake, GiveUp, Age, threads, fields, pool
  <1>2. ASSUME NEW w \in Worker, Run(w)
        PROVE  \A j \in Job : (Begun(j) => Begun(j)') /\ (Finished(j) => Finished(j)')
    <2>1. \A j \in Job : Finished(j) => state'[j] = state[j]
      BY <1>2, StateStep DEF Ends
    <2>2. CASE Take(w)
      <3>1. holds[w] = NoJob
        BY <2>2 DEF Take, Inv, WorkerSlot
      <3> QED BY <2>1, <2>2, <3>1, JobAssumption DEF Take, Inv, TypeOK
    <2>3. CASE Release(w)
      <3>1. holds[w] \in Job /\ Finished(holds[w])
        BY <2>3, HeldIsJob DEF Release, Inv, WorkerInv
      <3> QED BY <2>1, <2>3, <3>1 DEF Release, Inv, TypeOK
    <2>4. CASE Begin(w) \/ Progress(w) \/ Finish(w) \/ SetEvent(w)
      BY <2>1, <2>4 DEF Begin, Progress, Finish, SetEvent, pool
    <2> QED BY <1>2, <2>2, <2>3, <2>4 DEF Run
  <1>3. CASE Close \/ UNCHANGED vars
    BY <1>3 DEF Close, vars, threads, fields, pool
  <1> QED BY <1>1, <1>2, <1>3 DEF Next

LEMMA OrderStep == Inv /\ OrderInv /\ [Next]_vars => OrderInv'
  <1> SUFFICES ASSUME Inv, OrderInv, [Next]_vars
               PROVE  OrderInv'
    OBVIOUS
  <1> USE OneWorker, BegunStays DEF OrderInv, RunsInOrder
  <1>0. /\ \A j \in Job : earlier[j] \subseteq Job
        /\ submitter \in [Job -> {"idle", "pruned", "inserted", "staged", "enqueued", "refused"}]
        /\ closed \in BOOLEAN /\ queue \in Seq(Job) /\ Len(queue) \in Nat
    BY LenProperties DEF Inv, TypeOK
  <1>1. ASSUME NEW j \in Job, Prune(j) PROVE OrderInv'
    <2>1. /\ submitter[j] = "idle" /\ submitter' = [submitter EXCEPT ![j] = "pruned"]
          /\ earlier' = [earlier EXCEPT ![j] = {k \in Job : submitter[k] = "enqueued"}]
          /\ UNCHANGED <<state, queue, holds, closed>>
      BY <1>1 DEF Prune, fields, pool
    <2>2. earlier \in [Job -> SUBSET Job]
      BY DEF Inv, TypeOK
    <2>3. \A i \in Job : i # j => earlier'[i] = earlier[i]
      BY <2>1, <2>2
    <2>4. earlier'[j] = {k \in Job : submitter[k] = "enqueued"}
      BY <2>1, <2>2
    <2>5. \A i \in Job : i # j => submitter'[i] = submitter[i]
      BY <1>0, <2>1
    <2>6. \A i \in Job : Begun(i)' = Begun(i) /\ Finished(i)' = Finished(i) /\ Queued(i)' = Queued(i)
      BY <2>1 DEF Begun, Finished, Queued
    <2>7. ~Begun(j)
      BY <2>1 DEF Begun, Finished, Inv, QueueInv, Held, Ends
    <2>8. \A p \in 1 .. Len(queue) : queue[p] \in Job /\ queue[p] # j
      BY <2>1, QueuedAreJobs DEF Inv, QueueInv
    <2>9. \A k \in Job : \A i \in earlier'[k] : submitter'[i] = "enqueued" /\ i # k
      BY <1>0, <2>1, <2>3, <2>4, <2>5
    <2>10. \A k \in Job : submitter'[k] = "enqueued" => Begun(k)' \/ Queued(k)' \/ closed'
      BY <1>0, <2>1, <2>5, <2>6
    <2>11. \A q \in 1 .. Len(queue') : \A i \in earlier'[queue'[q]] :
             Begun(i)' \/ \E p \in 1 .. q - 1 : queue'[p] = i
      BY <1>0, <2>1, <2>3, <2>6, <2>8
    <2>12. RunsInOrder'
      BY <1>0, <2>3, <2>6, <2>7
    <2> QED BY <2>1, <2>9, <2>10, <2>11, <2>12
  <1>2. ASSUME NEW j \in Job, Insert(j) \/ SetStage(j) PROVE OrderInv'
    <2>1. /\ submitter[j] # "enqueued"
          /\ \E s \in {"inserted", "staged"} : submitter' = [submitter EXCEPT ![j] = s]
          /\ UNCHANGED <<earlier, state, queue, holds, closed>>
      BY <1>2 DEF Insert, SetStage, fields, pool
    <2>2. \A i \in Job : submitter'[i] = "enqueued" <=> submitter[i] = "enqueued"
      BY <1>0, <2>1
    <2>3. \A i \in Job : Begun(i)' = Begun(i) /\ Finished(i)' = Finished(i) /\ Queued(i)' = Queued(i)
      BY <2>1 DEF Begun, Finished, Queued
    <2>4. \A p \in 1 .. Len(queue) : queue[p] \in Job
      BY QueuedAreJobs DEF Inv
    <2> QED BY <1>0, <2>1, <2>2, <2>3, <2>4
  <1>3. ASSUME NEW j \in Job, Enqueue(j), ~closed PROVE OrderInv'
    <2>1. /\ submitter[j] = "staged" /\ submitter' = [submitter EXCEPT ![j] = "enqueued"]
          /\ queue' = Append(queue, j) /\ UNCHANGED <<earlier, state, holds, closed>>
      BY <1>3 DEF Enqueue, fields
    <2>2. /\ Len(queue') = Len(queue) + 1
          /\ \A p \in 1 .. Len(queue) : queue'[p] = queue[p] /\ queue[p] \in Job
          /\ queue'[Len(queue) + 1] = j
      BY <2>1, EnqueuedQueue, QueuedAreJobs DEF Inv
    <2>3. \A i \in Job : submitter[i] = "enqueued" => Begun(i) \/ Queued(i)
      BY <1>3
    <2>4. \A i \in Job : Begun(i)' = Begun(i) /\ Finished(i)' = Finished(i)
      BY <2>1 DEF Begun, Finished
    <2>5. \A i \in Job : Queued(i) => Queued(i)'
      BY <1>0, <2>2 DEF Queued
    <2>6. Queued(j)'
      BY <1>0, <2>2 DEF Queued
    <2>7. \A k \in Job : \A i \in earlier'[k] : submitter'[i] = "enqueued" /\ i # k
      BY <1>0, <2>1
    <2>8. \A k \in Job : submitter'[k] = "enqueued" => Begun(k)' \/ Queued(k)' \/ closed'
      BY <1>0, <2>1, <2>3, <2>4, <2>5, <2>6
    <2>9. ASSUME NEW q \in 1 .. Len(queue'), NEW i \in earlier'[queue'[q]]
          PROVE  Begun(i)' \/ \E p \in 1 .. q - 1 : queue'[p] = i
      <3>1. CASE q \in 1 .. Len(queue)
        <4>1. i \in earlier[queue[q]] /\ i \in Job
          BY <1>0, <2>1, <2>2, <2>9, <3>1
        <4>2. Begun(i) \/ \E p \in 1 .. q - 1 : queue[p] = i
          BY <3>1, <4>1
        <4> QED BY <1>0, <2>2, <2>4, <3>1, <4>1, <4>2
      <3>2. CASE q = Len(queue) + 1
        <4>1. i \in earlier[j] /\ i \in Job
          BY <1>0, <2>1, <2>2, <2>9, <3>2
        <4>2. Begun(i) \/ Queued(i)
          BY <2>3, <4>1
        <4> QED BY <1>0, <2>2, <2>4, <3>2, <4>1, <4>2 DEF Queued
      <3> QED BY <1>0, <2>2, <3>1, <3>2
    <2>10. RunsInOrder'
      BY <1>0, <2>1, <2>4
    <2> QED BY <1>3, <2>1, <2>7, <2>8, <2>9, <2>10
  <1>4. ASSUME NEW j \in Job, Enqueue(j), closed PROVE OrderInv'
    <2>1. /\ submitter[j] = "staged" /\ submitter' = [submitter EXCEPT ![j] = "refused"]
          /\ UNCHANGED <<earlier, state, queue, holds, closed>>
      BY <1>4 DEF Enqueue, fields
    <2>2. \A i \in Job : submitter'[i] = "enqueued" <=> submitter[i] = "enqueued"
      BY <1>0, <2>1
    <2>3. \A i \in Job : Begun(i)' = Begun(i) /\ Finished(i)' = Finished(i) /\ Queued(i)' = Queued(i)
      BY <2>1 DEF Begun, Finished, Queued
    <2>4. \A p \in 1 .. Len(queue) : queue[p] \in Job
      BY QueuedAreJobs DEF Inv
    <2> QED BY <1>0, <2>1, <2>2, <2>3, <2>4
  <1>5. ASSUME NEW w \in Worker, Take(w) PROVE OrderInv'
    <2>1. /\ queue # << >> /\ queue' = Tail(queue) /\ holds' = [holds EXCEPT ![w] = Head(queue)]
          /\ UNCHANGED <<earlier, submitter, state, closed>> /\ holds[w] = NoJob
      BY <1>5 DEF Take, threads, fields, Inv, WorkerSlot
    <2>2. /\ Head(queue) = queue[1] /\ 1 \in 1 .. Len(queue) /\ queue[1] \in Job
          /\ \A p \in 1 .. Len(queue') : p + 1 \in 1 .. Len(queue) /\ queue'[p] = queue[p + 1]
          /\ \A p \in 1 .. Len(queue) : p = 1 \/ (p - 1 \in 1 .. Len(queue') /\ queue'[p - 1] = queue[p])
      BY <2>1, TakenQueue, QueuedAreJobs DEF Inv
    <2>3. \A i \in Job : Finished(i)' = Finished(i) /\ (Begun(i)' <=> Begun(i) \/ i = queue[1])
      <3>1. \A i \in Job : (\E v \in Worker : holds'[v] = i) <=> i = queue[1]
        BY <2>1, <2>2 DEF Inv, TypeOK
      <3>2. \A i \in Job : ~ \E v \in Worker : holds[v] = i
        BY <2>1, JobAssumption
      <3> QED BY <2>1, <3>1, <3>2 DEF Begun, Finished
    <2>4. \A i \in Job : Begun(i) => Finished(i)
      BY <2>1, JobAssumption DEF Begun
    <2>5. \A p \in 1 .. Len(queue') : queue'[p] \in Job
      BY <2>2, QueuedAreJobs DEF Inv
    <2>6. ASSUME NEW k \in Job, submitter'[k] = "enqueued"
          PROVE  Begun(k)' \/ Queued(k)' \/ closed'
      <3>1. Begun(k) \/ Queued(k) \/ closed
        BY <2>1, <2>6
      <3>2. ASSUME NEW p \in 1 .. Len(queue), queue[p] = k
            PROVE  Begun(k)' \/ \E r \in 1 .. Len(queue') : queue'[r] = k
        <4>1. CASE p = 1
          BY <2>3, <3>2, <4>1
        <4>2. CASE p # 1
          BY <2>2, <3>2, <4>2
        <4> QED BY <4>1, <4>2
      <3> QED BY <2>1, <2>3, <3>1, <3>2 DEF Queued
    <2>7. ASSUME NEW q \in 1 .. Len(queue'), NEW i \in earlier'[queue'[q]]
          PROVE  Begun(i)' \/ \E p \in 1 .. q - 1 : queue'[p] = i
      <3>1. i \in earlier[queue[q + 1]] /\ i \in Job /\ q + 1 \in 1 .. Len(queue)
        BY <1>0, <2>1, <2>2, <2>5, <2>7
      <3>2. Begun(i) \/ \E p \in 1 .. q : queue[p] = i
        <4>1. (q + 1) - 1 = q
          OBVIOUS
        <4>2. Begun(i) \/ \E p \in 1 .. (q + 1) - 1 : queue[p] = i
          BY <3>1
        <4> QED BY <4>1, <4>2
      <3>3. ASSUME NEW p \in 1 .. q, queue[p] = i, p # 1
            PROVE  p - 1 \in 1 .. q - 1 /\ queue'[p - 1] = i
        <4>1. p \in 1 .. Len(queue)
          BY <1>0, <3>1
        <4> QED BY <2>2, <3>3, <4>1
      <3> QED BY <2>3, <3>1, <3>2, <3>3
    <2>8. RunsInOrder'
      <3>1. \A i \in earlier[queue[1]] : Finished(i)
        <4>1. \A i \in earlier[queue[1]] : i \in Job /\ Begun(i)
          BY <1>0, <2>2
        <4> QED BY <2>4, <4>1
      <3> QED BY <1>0, <2>1, <2>3, <3>1
    <2>9. closed' => queue' = << >>
      BY <2>1
    <2> QED BY <2>1, <2>6, <2>7, <2>8, <2>9
  <1>6. ASSUME NEW w \in Worker, Begin(w) \/ Progress(w) \/ Finish(w) \/ SetEvent(w) \/ Release(w)
        PROVE OrderInv'
    <2>1. UNCHANGED <<earlier, submitter, queue, closed>>
      BY <1>6 DEF Begin, Progress, Finish, SetEvent, Release, threads, pool
    <2>2. \A i \in Job : Begun(i)' => Begun(i)
      <3>1. CASE Release(w)
        BY <3>1, JobAssumption DEF Release, fields, Begun, Finished, Inv, TypeOK
      <3>2. CASE ~Release(w)
        <4>1. holds' = holds /\ holds[w] \in Job
          BY <1>6, <3>2, HeldIsJob DEF Begin, Progress, Finish, SetEvent, pool, Inv
        <4>2. \A i \in Job : i # holds[w] => state'[i] = state[i]
          BY <1>6, <3>2, <4>1 DEF Begin, Progress, Finish, SetEvent, fields, Inv, TypeOK
        <4> QED BY <4>1, <4>2 DEF Begun, Finished
      <3> QED BY <3>1, <3>2
    <2>3. \A p \in 1 .. Len(queue) : queue[p] \in Job
      BY QueuedAreJobs DEF Inv
    <2>4. \A i \in Job : Queued(i)' = Queued(i)
      BY <2>1 DEF Queued
    <2> QED BY <1>0, <2>1, <2>2, <2>3, <2>4
  <1>7. ASSUME NEW j \in Job, Answer(j) \/ Age(j) PROVE OrderInv'
    <2>1. UNCHANGED <<earlier, submitter, queue, closed, holds, state>>
      BY <1>7 DEF Answer, Wake, GiveUp, Age, threads, fields, pool
    <2> QED BY <2>1 DEF Begun, Finished, Queued
  <1>8. CASE Close
    <2>1. /\ UNCHANGED <<earlier, submitter, holds, state>> /\ closed' = TRUE
          /\ queue' = << >> /\ Len(queue') = 0
      BY <1>8, EmptySeq DEF Close, threads, fields
    <2>2. \A q \in 1 .. Len(queue') : FALSE
      BY <2>1
    <2>3. RunsInOrder'
      BY <2>1 DEF Begun, Finished
    <2> QED BY <2>1, <2>2, <2>3
  <1>9. CASE UNCHANGED vars
    <2>1. UNCHANGED <<earlier, submitter, queue, closed, holds, state>>
      BY <1>9 DEF vars, threads, fields, pool
    <2> QED BY <2>1 DEF Begun, Finished, Queued
  <1> QED
    BY <1>1, <1>2, <1>3, <1>4, <1>5, <1>6, <1>7, <1>8, <1>9 DEF Next, Submit, Run

(* Jobs begin in the order of their submissions, wherever one submission    *)
(* had returned before the other began.                                     *)
THEOREM InOrder == Spec => []RunsInOrder
<1>1. Init => OrderInv
  <2> SUFFICES ASSUME Init PROVE OrderInv
    OBVIOUS
  <2>1. Len(queue) = 0
    BY EmptySeq DEF Init
  <2>2. \A q \in 1 .. Len(queue) : FALSE
    BY <2>1
  <2> QED BY <2>2 DEF Init, OrderInv, RunsInOrder
<1>2. OrderInv => RunsInOrder
  BY DEF OrderInv
<1> QED BY <1>1, <1>2, Invariant, OrderStep, PTL DEF Spec

-----------------------------------------------------------------------------
(* The manager implements the abstract lifecycle.                          *)

Life == [j \in Job |-> LifeOf(j)]
Told == [j \in Job |-> TellOf(j)]

(* A step that leaves a job's state, insertion and answer alone is unseen.  *)
LEMMA Unseen ==
  ASSUME UNCHANGED <<state, caller, known>>,
         \A j \in Job : Inserted(j)' = Inserted(j)
  PROVE  UNCHANGED <<Life, known, Told>>
  BY DEF Life, Told, LifeOf, TellOf

LEMMA StepImplements == Inv /\ [Next]_vars => [Lifecycle!Next]_(Lifecycle!vars)
  <1> SUFFICES ASSUME Inv, [Next]_vars
               PROVE  Lifecycle!Next \/ UNCHANGED <<Life, known, Told>>
    BY DEF Lifecycle!vars, Life, Told
  <1>0. /\ submitter \in [Job -> {"idle", "pruned", "inserted", "staged", "enqueued", "refused"}]
        /\ state \in [Job -> {"queued", "running", "done", "failed"}]
        /\ caller \in [Job -> {"none", "waiting", "ok", "broken", "error", "timeout"}]
        /\ known \subseteq Job
    BY DEF Inv, TypeOK, Ends, Answers
  <1>1. ASSUME NEW j \in Job, Prune(j) PROVE Lifecycle!Next \/ UNCHANGED <<Life, known, Told>>
    <2>1. /\ UNCHANGED <<state, caller>> /\ known' = {k \in known : ~Stale(k)}
          /\ submitter[j] = "idle" /\ submitter' = [submitter EXCEPT ![j] = "pruned"]
      BY <1>1 DEF Prune, fields
    <2>2. \A i \in Job : Inserted(i)' = Inserted(i)
      BY <1>0, <2>1 DEF Inserted
    <2>3. UNCHANGED <<Life, Told>>
      BY <2>1, <2>2 DEF Life, Told, LifeOf, TellOf
    <2>4. \A k \in known \ known' : Life[k] \in Lifecycle!Ends
      BY <1>0, <2>1 DEF Stale, Finished, Ends, Inv, ListInv, Life, LifeOf, Lifecycle!Ends
    <2>5. Lifecycle!Forget
      BY <2>1, <2>3, <2>4 DEF Lifecycle!Forget, Life, Told
    <2> QED BY <2>5 DEF Lifecycle!Next
  <1>2. ASSUME NEW j \in Job, Insert(j) PROVE Lifecycle!Next \/ UNCHANGED <<Life, known, Told>>
    <2>1. /\ UNCHANGED <<state, caller>> /\ known' = known \cup {j}
          /\ submitter[j] = "pruned" /\ submitter' = [submitter EXCEPT ![j] = "inserted"]
      BY <1>2 DEF Insert, fields
    <2>2. state[j] = "queued"
      BY <2>1 DEF Inv, QueueInv
    <2>3. Life[j] = "absent" /\ Life' = [Life EXCEPT ![j] = "queued"] /\ Told' = Told
      BY <1>0, <2>1, <2>2 DEF Life, Told, LifeOf, TellOf, Inserted
    <2>4. Lifecycle!Accept(j)
      BY <2>1, <2>3 DEF Lifecycle!Accept, Life, Told
    <2> QED BY <2>4 DEF Lifecycle!Next
  <1>3. ASSUME NEW j \in Job, SetStage(j) PROVE UNCHANGED <<Life, known, Told>>
    <2>1. /\ UNCHANGED <<state, caller, known>>
          /\ submitter[j] = "inserted" /\ submitter' = [submitter EXCEPT ![j] = "staged"]
      BY <1>3 DEF SetStage
    <2> QED BY <1>0, <2>1, Unseen DEF Inserted
  <1>4. ASSUME NEW j \in Job, Enqueue(j) PROVE UNCHANGED <<Life, known, Told>>
    <2>1. /\ UNCHANGED <<state, known>> /\ submitter[j] = "staged"
          /\ \E s \in {"enqueued", "refused"} : submitter' = [submitter EXCEPT ![j] = s]
          /\ caller' = caller \/ caller' = [caller EXCEPT ![j] = "waiting"]
      BY <1>4 DEF Enqueue, fields
    <2>2. caller[j] = "none"
      BY <2>1 DEF Inv, OutcomeInv
    <2>3. Life' = Life
      BY <1>0, <2>1 DEF Life, LifeOf, Inserted
    <2>4. Told' = Told
      BY <1>0, <2>1, <2>2 DEF Told, TellOf
    <2> QED BY <2>1, <2>3, <2>4
  <1>5. ASSUME NEW j \in Job, Answer(j) PROVE Lifecycle!Next \/ UNCHANGED <<Life, known, Told>>
    <2>1. /\ UNCHANGED <<state, known, submitter>> /\ caller[j] = "waiting"
          /\ \/ caller' = [caller EXCEPT ![j] = AnswerOf(j)] /\ j \in event
             \/ caller' = [caller EXCEPT ![j] = "timeout"]
      BY <1>5 DEF Answer, Wake, GiveUp, fields
    <2>2. Life' = Life /\ Life[j] = state[j] /\ state[j] # "absent" /\ Told[j] = "nothing"
      <3>1. submitter[j] = "enqueued"
        BY <2>1 DEF Inv, OutcomeInv
      <3> QED BY <1>0, <2>1, <3>1 DEF Life, LifeOf, Inserted, Told, TellOf
    <2>3. CASE j \in event /\ caller' = [caller EXCEPT ![j] = AnswerOf(j)]
      <3>1. state[j] \in {"done", "failed"} /\ state[j] = EndOf(ErrorOf(outcome[j]))
        BY <2>3 DEF Inv, OutcomeInv, Finished, Ends
      <3>2. /\ state[j] = "done" => AnswerOf(j) \in {"ok", "broken"}
            /\ state[j] = "failed" => AnswerOf(j) = "error"
        BY DEF AnswerOf
      <3>3. Told' = [Told EXCEPT ![j] = Life[j]]
        BY <1>0, <2>2, <2>3, <3>1, <3>2 DEF Told, TellOf
      <3>4. Lifecycle!Tell(j)
        BY <2>1, <2>2, <3>1, <3>3 DEF Lifecycle!Tell, Lifecycle!Ends, Life, Told
      <3> QED BY <3>4 DEF Lifecycle!Next
    <2>4. CASE caller' = [caller EXCEPT ![j] = "timeout"]
      <3>1. Told' = [Told EXCEPT ![j] = "timeout"]
        BY <1>0, <2>4 DEF Told, TellOf
      <3>2. Lifecycle!Tell(j)
        BY <2>1, <2>2, <3>1 DEF Lifecycle!Tell, Life, Told
      <3> QED BY <3>2 DEF Lifecycle!Next
    <2> QED BY <2>1, <2>3, <2>4
  <1>6. ASSUME NEW j \in Job, Age(j) PROVE UNCHANGED <<Life, known, Told>>
    BY <1>6, Unseen DEF Age, threads, fields, Inserted
  <1>7. ASSUME NEW w \in Worker, Begin(w) PROVE Lifecycle!Next \/ UNCHANGED <<Life, known, Told>>
    <2>1. /\ holds[w] \in Job /\ state[holds[w]] = "queued" /\ Inserted(holds[w])
          /\ \A k \in Job : state[k] # "running"
      BY <1>7, HeldIsJob, OneWorker DEF Begin, Inv, WorkerInv, QueueInv, Held, Inserted
    <2>2. /\ UNCHANGED <<caller, known, submitter>>
          /\ state' = [state EXCEPT ![holds[w]] = "running"]
      BY <1>7 DEF Begin, threads
    <2>3. Life' = [Life EXCEPT ![holds[w]] = "running"] /\ Told' = Told
      BY <1>0, <2>1, <2>2 DEF Life, Told, LifeOf, TellOf, Inserted
    <2>4. Life[holds[w]] = "queued" /\ \A k \in Job : Life[k] # "running"
      BY <1>0, <2>1 DEF Life, LifeOf
    <2>5. Lifecycle!Start(holds[w])
      BY <2>2, <2>3, <2>4 DEF Lifecycle!Start, Life, Told
    <2> QED BY <2>1, <2>5 DEF Lifecycle!Next
  <1>8. ASSUME NEW w \in Worker, Finish(w) PROVE Lifecycle!Next \/ UNCHANGED <<Life, known, Told>>
    <2>1. holds[w] \in Job /\ state[holds[w]] = "running"
      BY <1>8, FinishStep
    <2>2. PICK o \in Outcomes : state' = [state EXCEPT ![holds[w]] = EndOf(ErrorOf(o))]
      BY <1>8, Zenon DEF Finish
    <2>3. /\ UNCHANGED <<caller, known, submitter>> /\ EndOf(ErrorOf(o)) \in {"done", "failed"}
      BY <1>8 DEF Finish, threads, EndOf
    <2>4. Inserted(holds[w])
      BY <2>1 DEF Inv, QueueInv, Inserted
    <2>5. Life' = [Life EXCEPT ![holds[w]] = EndOf(ErrorOf(o))] /\ Told' = Told
          /\ Life[holds[w]] = "running"
      BY <1>0, <2>1, <2>2, <2>3, <2>4 DEF Life, Told, LifeOf, TellOf, Inserted
    <2>6. Lifecycle!End(holds[w])
      BY <2>3, <2>5 DEF Lifecycle!End, Lifecycle!Ends, Life, Told
    <2> QED BY <2>1, <2>6 DEF Lifecycle!Next
  <1>9. ASSUME NEW w \in Worker, Take(w) \/ Progress(w) \/ SetEvent(w) \/ Release(w)
        PROVE  UNCHANGED <<Life, known, Told>>
    <2>1. UNCHANGED <<state, caller, known, submitter>>
      BY <1>9 DEF Take, Progress, SetEvent, Release, threads, fields
    <2> QED BY <2>1, Unseen DEF Inserted
  <1>10. CASE Close \/ UNCHANGED vars
    <2>1. UNCHANGED <<state, caller, known, submitter>>
      BY <1>10 DEF Close, vars, threads, fields
    <2> QED BY <2>1, Unseen DEF Inserted
  <1> QED
    BY <1>1, <1>2, <1>3, <1>4, <1>5, <1>6, <1>7, <1>8, <1>9, <1>10
       DEF Next, Submit, Answer, Run

(* The threads, the locks and the queue together do no more than the        *)
(* lifecycle allows: what a client sees of its job is one of its runs.      *)
THEOREM Implements == Spec => ImplementsLifecycle
<1>1. Init => Lifecycle!Init
  <2> SUFFICES ASSUME Init PROVE Lifecycle!Init
    OBVIOUS
  <2>1. \A j \in Job : LifeOf(j) = "absent"
    BY DEF Init, LifeOf, Inserted
  <2>2. \A j \in Job : caller[j] = "none"
    BY DEF Init
  <2>3. \A j \in Job : TellOf(j) = "nothing"
    BY <2>2 DEF TellOf
  <2>4. known = {}
    BY DEF Init
  <2> QED BY <2>1, <2>3, <2>4 DEF Lifecycle!Init
<1> QED
  BY <1>1, Invariant, StepImplements, PTL DEF Spec, ImplementsLifecycle, Lifecycle!Spec
=============================================================================
