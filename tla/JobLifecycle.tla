---------------------------- MODULE JobLifecycle ----------------------------
(***************************************************************************)
(* What the job service promises, without its threads: a job is accepted   *)
(* as queued, is the only one running while it runs, ends once as done or  *)
(* failed, is forgotten only after its end, and a caller that waits for it *)
(* is told of the end that really happened.                                *)
(***************************************************************************)
CONSTANT Job

VARIABLES
  life,     \* where each job is in its life
  listed,   \* jobs the service still answers for
  told      \* what the blocking caller of each job has been told

vars == <<life, listed, told>>

Ends == {"done", "failed"}
Lives == {"absent", "queued", "running"} \cup Ends
Answers == {"nothing", "done", "failed", "timeout"}

Init ==
  /\ life = [j \in Job |-> "absent"]
  /\ listed = {}
  /\ told = [j \in Job |-> "nothing"]

Accept(j) ==
  /\ life[j] = "absent"
  /\ life' = [life EXCEPT ![j] = "queued"]
  /\ listed' = listed \cup {j}
  /\ UNCHANGED told

Start(j) ==
  /\ life[j] = "queued"
  /\ \A k \in Job : life[k] # "running"
  /\ life' = [life EXCEPT ![j] = "running"]
  /\ UNCHANGED <<listed, told>>

End(j) ==
  /\ life[j] = "running"
  /\ \E end \in Ends : life' = [life EXCEPT ![j] = end]
  /\ UNCHANGED <<listed, told>>

\* Any number of ended jobs may be dropped at once.
Forget ==
  /\ listed' \subseteq listed
  /\ \A j \in listed \ listed' : life[j] \in Ends
  /\ UNCHANGED <<life, told>>

Tell(j) ==
  /\ told[j] = "nothing"
  /\ life[j] # "absent"
  /\ \/ life[j] \in Ends /\ told' = [told EXCEPT ![j] = life[j]]
     \/ told' = [told EXCEPT ![j] = "timeout"]
  /\ UNCHANGED <<life, listed>>

Next ==
  \/ \E j \in Job : Accept(j) \/ Start(j) \/ End(j) \/ Tell(j)
  \/ Forget

Spec == Init /\ [][Next]_vars
=============================================================================
