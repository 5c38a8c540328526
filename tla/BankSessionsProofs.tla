------------------------- MODULE BankSessionsProofs -------------------------
(***************************************************************************)
(* Proofs about the bank sessions: for any number of banks, logins, code   *)
(* checks and exports, there is one browser at a time, jobs drive none but *)
(* their own, and none is lost.                                            *)
(*                                                                         *)
(* The properties are no invariant by themselves: that a login finds no    *)
(* browser up when it starts its own rests on what close_all has done by   *)
(* then, and that an export's session does not come back rests on the      *)
(* queue, in which a login stands once.  Phase says what is up at each     *)
(* step of the worker; the rest says what its steps may rely on.           *)
(***************************************************************************)
EXTENDS BankSessions, TLAPS

LoginSteps == {"closeAll", "construct", "auth", "create"}
UseSteps   == {"lookup", "use", "remove", "quit", "after"}

\* The worker runs one job, of the kind whose steps it takes.
Working ==
  /\ at = "idle" <=> job = Nobody
  /\ at \in LoginSteps => job \in Login
  /\ at \in UseSteps => job \in Verify \cup Export
  /\ job # Nobody => status[job] = "running"

\* A request stands in the queue once, and only while it is queued.
Waiting ==
  /\ \A i \in 1 .. Len(queue) : status[queue[i]] = "queued"
  /\ \A i, j \in 1 .. Len(queue) : queue[i] = queue[j] => i = j

\* A code check or an export names the session of a login that succeeded,
\* and of its own bank unless it was turned away.
Named ==
  \A r \in Verify \cup Export : status[r] # "none" =>
    /\ target[r] \in Login /\ status[target[r]] = "done"
    /\ status[r] # "rejected" => bank[target[r]] = bank[r]

\* A login has nothing to its name until it starts its browser.
Untouched ==
  \A s \in Login :
    status[s] \in {"none", "checked", "rejected", "queued"} \/ (s = job /\ at \in {"closeAll", "construct"})
      => browser[s] = "none" /\ s \notin profile /\ s \notin sessions

Counted == \A s \in Login : quits[s] = IF browser[s] = "quit" THEN 1 ELSE 0

\* Exactly the browsers of S are up.
Up(S) == \A s \in Login : browser[s] = "live" <=> s \in S

\* What is up at each step of the worker.
Phase ==
  /\ \A s, t \in Login : browser[s] = "live" /\ browser[t] = "live" => s = t
  /\ at = "closeAll" => closing \subseteq sessions /\ Up(closing)
  /\ at # "closeAll" => closing = {}
  /\ at = "construct" => sessions = {} /\ Up({})
  /\ at \in {"auth", "create"} => sessions = {} /\ Up({job})
  /\ at \in {"idle", "lookup", "use", "remove", "after"} => Up(sessions)
  /\ at = "quit" => target[job] \notin sessions /\ Up(sessions \cup {target[job]})
  /\ at = "use" => Get(target[job], bank[job])
  /\ at = "after" => target[job] \notin sessions

Profiles == \A s \in profile : browser[s] = "live" \/ (browser[s] = "none" /\ status[s] = "failed")

\* The session of an export that has ended is gone, unless it was unready.
GivenUp == \A r \in Export : status[r] \in {"done", "failed"} => target[r] \notin sessions

IInv ==
  /\ TypeOK /\ Working /\ Waiting /\ Named /\ Untouched /\ Counted /\ Phase /\ Profiles /\ GivenUp

-----------------------------------------------------------------------------
\* The invariant says what the properties say.
LEMMA InvariantSuffices == IInv => TypeOK /\ OneBrowser /\ UsesOwnLiveBrowser /\ NoLostBrowser
<1> SUFFICES ASSUME IInv PROVE TypeOK /\ OneBrowser /\ UsesOwnLiveBrowser /\ NoLostBrowser
  OBVIOUS
<1> USE DEF IInv
<1>1. OneBrowser
  BY DEF Phase, OneBrowser, Live, Up
<1>2. UsesOwnLiveBrowser
  <2> SUFFICES ASSUME at = "use" PROVE target[job] \in Live /\ bank[target[job]] = bank[job]
    BY DEF UsesOwnLiveBrowser
  <2>1. Get(target[job], bank[job]) /\ Up(sessions) /\ sessions \subseteq Login
    BY DEF Phase, TypeOK
  <2> QED BY <2>1 DEF Get, Up, Live
<1>3. NoLostBrowser
  <2>1. \A s \in Live : \/ s \in sessions
                        \/ at \in {"auth", "create"} /\ s = job
                        \/ at = "quit" /\ s = target[job]
    BY DEF Phase, Up, Live, TypeOK, Steps
  <2>2. at # "closeAll" => sessions \subseteq Live
    BY DEF Phase, Up, Live, TypeOK, Steps
  <2>3. \A s \in Login : quits[s] <= 1
    BY DEF Counted
  <2>4. \A s \in profile : s \in Live \/ (browser[s] = "none" /\ status[s] = "failed")
    BY DEF Profiles, Live, TypeOK
  <2> QED BY <2>1, <2>2, <2>3, <2>4 DEF NoLostBrowser, GivenUp
<1> QED BY <1>1, <1>2, <1>3

LEMMA Initially == Init => IInv
<1> SUFFICES ASSUME Init PROVE IInv
  OBVIOUS
<1>1. TypeOK
  BY DEF Init, TypeOK, Steps
<1>2. Working /\ Waiting /\ Named
  BY SessionAssumption DEF Init, Working, Waiting, Named, Request, LoginSteps, UseSteps
<1>3. Untouched /\ Counted /\ Phase /\ Profiles /\ GivenUp
  BY SessionAssumption DEF Init, Untouched, Counted, Phase, Up, Profiles, GivenUp, Request
<1> QED BY <1>1, <1>2, <1>3 DEF IInv

-----------------------------------------------------------------------------
(* The request threads.                                                    *)

\* A request in the queue is a request.
LEMMA QueueType == TypeOK => \A i \in 1 .. Len(queue) : queue[i] \in Request
BY DEF TypeOK

LEMMA PostLoginKeeps == IInv /\ (\E r \in Login : PostLogin(r)) => IInv'
<1> SUFFICES ASSUME IInv, NEW r \in Login, PostLogin(r) PROVE IInv'
  OBVIOUS
<1> USE DEF IInv
<1>1. r \in Request /\ r # Nobody /\ r \notin Verify \cup Export
  BY SessionAssumption DEF Request
<1>2. PICK b \in Bank : bank' = [bank EXCEPT ![r] = b]
  BY DEF PostLogin
<1>3. /\ status[r] = "none" /\ status' = [status EXCEPT ![r] = "checked"]
      /\ UNCHANGED <<target, queue, job, at, sessions, closing, browser, profile, quits, stale>>
  BY DEF PostLogin, worker, browsers
<1>4. TypeOK'
  BY <1>1, <1>2, <1>3 DEF TypeOK
<1>5. Working' /\ Counted' /\ Untouched'
  BY <1>1, <1>3 DEF Working, Counted, Untouched, TypeOK
<1>6. Waiting'
  BY <1>1, <1>3, QueueType DEF Waiting, TypeOK
<1>7. Named'
  <2> SUFFICES ASSUME NEW u \in Verify \cup Export, status'[u] # "none"
               PROVE  /\ target'[u] \in Login /\ status'[target'[u]] = "done"
                      /\ status'[u] # "rejected" => bank'[target'[u]] = bank'[u]
    BY DEF Named
  <2>1. u # r /\ u \in Request
    BY <1>1 DEF Request
  <2>2. /\ target[u] \in Login /\ status[target[u]] = "done"
        /\ status[u] # "rejected" => bank[target[u]] = bank[u]
    BY <2>1, <1>3 DEF Named, TypeOK
  <2>3. target[u] # r /\ target[u] \in Request
    BY <2>2, <1>3 DEF Request
  <2> QED BY <1>1, <1>2, <1>3, <2>1, <2>2, <2>3 DEF TypeOK
<1>8. Phase'
  <2>1. job # Nobody => job # r
    BY <1>3 DEF Working
  <2>2. at = "use" => target[job] # r /\ target[job] \in sessions /\ sessions \subseteq Request
    BY <1>3 DEF Phase, Get, Untouched, TypeOK, Request
  <2>3. Up(sessions)' = Up(sessions) /\ Up(closing)' = Up(closing) /\ Up({})' = Up({}) /\ Up({job})' = Up({job})
    BY <1>3 DEF Up
  <2>4. Up(sessions \cup {target[job]})' = Up(sessions \cup {target[job]})
    BY <1>3 DEF Up
  <2>5. at = "use" => Get(target[job], bank[job])'
    <3> SUFFICES ASSUME at = "use" PROVE Get(target[job], bank[job])'
      OBVIOUS
    <3>1. job \in Request /\ job # r /\ Get(target[job], bank[job])
      BY <2>1 DEF Phase, Working, UseSteps, Request
    <3> QED BY <1>1, <1>2, <1>3, <2>2, <3>1 DEF Get, TypeOK
  <2> QED BY <1>3, <2>3, <2>4, <2>5 DEF Phase
<1>9. Profiles' /\ GivenUp'
  <2>1. \A s \in profile : s # r
    BY <1>3 DEF Untouched, TypeOK
  <2>2. \A x \in Export : x # r
    BY <1>1
  <2> QED BY <1>1, <1>3, <2>1, <2>2 DEF Profiles, GivenUp, TypeOK, Request
<1> QED BY <1>4, <1>5, <1>6, <1>7, <1>8, <1>9

LEMMA PostUseKeeps == IInv /\ (\E r \in Verify \cup Export : PostUse(r)) => IInv'
<1> SUFFICES ASSUME IInv, NEW r \in Verify \cup Export, PostUse(r) PROVE IInv'
  OBVIOUS
<1> USE DEF IInv
<1>1. r \in Request /\ r # Nobody /\ r \notin Login
  BY SessionAssumption DEF Request
<1>2. PICK b \in Bank, s \in {l \in Login : status[l] = "done"} :
        /\ bank' = [bank EXCEPT ![r] = b]
        /\ target' = [target EXCEPT ![r] = s]
        /\ status' = [status EXCEPT ![r] = IF Get(s, b) THEN "checked" ELSE "rejected"]
  BY DEF PostUse
<1>3. status[r] = "none" /\ UNCHANGED <<queue, job, at, sessions, closing, browser, profile, quits, stale>>
  BY DEF PostUse, worker, browsers
<1>4. status'[r] \in {"checked", "rejected"}
  BY <1>1, <1>2 DEF TypeOK
<1>5. \A u \in Request : u # r => bank'[u] = bank[u] /\ target'[u] = target[u] /\ status'[u] = status[u]
  BY <1>1, <1>2 DEF TypeOK
<1>6. TypeOK'
  BY <1>1, <1>2, <1>3 DEF TypeOK
<1>7. job # Nobody => job # r /\ job \in Request
  BY <1>3 DEF Working, TypeOK
<1>8. Working' /\ Counted' /\ Untouched'
  <2>1. Working'
    BY <1>3, <1>5, <1>7 DEF Working
  <2>2. \A l \in Login : l # r /\ l \in Request
    BY <1>1 DEF Request
  <2> QED BY <1>3, <1>5, <2>1, <2>2 DEF Counted, Untouched
<1>9. Waiting'
  <2>1. \A i \in 1 .. Len(queue) : queue[i] \in Request /\ queue[i] # r
    BY <1>3, QueueType DEF Waiting
  <2> QED BY <1>3, <1>5, <2>1 DEF Waiting
<1>10. Named'
  <2> SUFFICES ASSUME NEW u \in Verify \cup Export, status'[u] # "none"
               PROVE  /\ target'[u] \in Login /\ status'[target'[u]] = "done"
                      /\ status'[u] # "rejected" => bank'[target'[u]] = bank'[u]
    BY DEF Named
  <2>1. CASE u = r
    <3>1. s \in Login /\ s \in Request /\ s # r /\ status[s] = "done"
      BY <1>1, <1>2 DEF Request
    <3>2. target'[u] = s /\ bank'[u] = b /\ (status'[u] # "rejected" => Get(s, b))
      BY <1>1, <1>2, <2>1 DEF TypeOK
    <3> QED BY <1>5, <3>1, <3>2 DEF Get
  <2>2. CASE u # r
    <3>1. u \in Request /\ target[u] \in Login /\ status[target[u]] = "done"
          /\ (status[u] # "rejected" => bank[target[u]] = bank[u])
      BY <2>2, <1>5 DEF Named, Request
    <3>2. target[u] \in Request /\ target[u] # r
      BY <1>1, <3>1 DEF Request
    <3> QED BY <1>5, <2>2, <3>1, <3>2
  <2> QED BY <2>1, <2>2
<1>11. Phase'
  <2>1. at # "idle" => target'[job] = target[job] /\ bank'[job] = bank[job]
    BY <1>5, <1>7 DEF Working
  <2>2. ASSUME at = "use" PROVE Get(target[job], bank[job])'
    <3>1. Get(target[job], bank[job]) /\ target[job] \in Request /\ target[job] # r
      BY <1>1, <2>2 DEF Phase, Get, TypeOK, Request
    <3> QED BY <1>3, <1>5, <2>1, <2>2, <3>1 DEF Get
  <2>3. /\ Up(sessions)' = Up(sessions) /\ Up(closing)' = Up(closing) /\ Up({})' = Up({}) /\ Up({job})' = Up({job})
        /\ at = "quit" => Up(sessions \cup {target[job]})' = Up(sessions \cup {target[job]})
    BY <1>3, <2>1 DEF Up
  <2> QED BY <1>3, <2>1, <2>2, <2>3 DEF Phase
<1>12. Profiles' /\ GivenUp'
  <2>1. \A x \in profile : x \in Request /\ x # r
    BY <1>1 DEF TypeOK, Request
  <2>2. \A x \in Export : x \in Request
    BY DEF Request
  <2> QED BY <1>3, <1>4, <1>5, <2>1, <2>2 DEF Profiles, GivenUp
<1> QED BY <1>6, <1>8, <1>9, <1>10, <1>11, <1>12

LEMMA SubmitKeeps == IInv /\ (\E r \in Request : Submit(r)) => IInv'
<1> SUFFICES ASSUME IInv, NEW r \in Request, Submit(r) PROVE IInv'
  OBVIOUS
<1> USE DEF IInv
<1>1. /\ status[r] = "checked" /\ status' = [status EXCEPT ![r] = "queued"] /\ queue' = Append(queue, r)
      /\ UNCHANGED <<bank, target, job, at, sessions, closing, browser, profile, quits, stale>>
  BY DEF Submit, browsers
<1>2. /\ status'[r] = "queued" /\ \A u \in Request : u # r => status'[u] = status[u]
  BY <1>1 DEF TypeOK
<1>3. TypeOK'
  BY <1>1 DEF TypeOK
<1>4. job # Nobody => job # r /\ job \in Request
  BY <1>1 DEF Working, TypeOK
<1>5. Working' /\ Counted' /\ Untouched'
  <2>1. Login \subseteq Request
    BY DEF Request
  <2> QED BY <1>1, <1>2, <1>4, <2>1 DEF Working, Counted, Untouched
<1>6. Waiting'
  <2>1. queue \in Seq(Request) /\ Len(queue') = Len(queue) + 1 /\ Len(queue) \in Nat
        /\ queue'[Len(queue) + 1] = r /\ \A i \in 1 .. Len(queue) : queue'[i] = queue[i]
    BY <1>1 DEF TypeOK
  <2>2. \A i \in 1 .. Len(queue) : queue[i] \in Request /\ queue[i] # r
    BY <1>1, QueueType DEF Waiting
  <2>3. \A i \in 1 .. Len(queue') : status'[queue'[i]] = "queued"
    BY <1>2, <2>1, <2>2 DEF Waiting
  <2>4. \A i, j \in 1 .. Len(queue') : queue'[i] = queue'[j] => i = j
    <3> SUFFICES ASSUME NEW i \in 1 .. Len(queue'), NEW j \in 1 .. Len(queue'), queue'[i] = queue'[j]
                 PROVE  i = j
      OBVIOUS
    <3>1. CASE i \in 1 .. Len(queue) /\ j \in 1 .. Len(queue)
      BY <2>1, <3>1 DEF Waiting
    <3>2. CASE i = Len(queue) + 1 \/ j = Len(queue) + 1
      BY <2>1, <2>2, <3>2
    <3> QED BY <2>1, <3>1, <3>2
  <2> QED BY <2>3, <2>4 DEF Waiting
<1>7. Named'
  <2>1. Login \subseteq Request /\ Verify \cup Export \subseteq Request
    BY DEF Request
  <2> QED BY <1>1, <1>2, <2>1 DEF Named
<1>8. Phase'
  BY <1>1 DEF Phase, Up, Get
<1>9. Profiles' /\ GivenUp'
  <2>1. profile \subseteq Request /\ Export \subseteq Request
    BY DEF Request, TypeOK
  <2> QED BY <1>1, <1>2, <2>1 DEF Profiles, GivenUp
<1> QED BY <1>3, <1>5, <1>6, <1>7, <1>8, <1>9

LEMMA AgeKeeps == IInv /\ (\E s \in Login : Age(s)) => IInv'
<1> SUFFICES ASSUME IInv, NEW s \in Login, Age(s) PROVE IInv'
  OBVIOUS
<1>1. stale' \subseteq Login
  BY DEF IInv, TypeOK, Age
<1>2. UNCHANGED <<bank, target, status, queue, job, at, sessions, closing, browser, profile, quits>>
  BY DEF Age, requests, worker, browsers
<1> QED BY <1>1, <1>2 DEF IInv, TypeOK, Working, Waiting, Named, Untouched, Counted, Phase, Up, Get, Profiles, GivenUp

-----------------------------------------------------------------------------
(* The worker.                                                             *)

\* What the end of a job leaves as it should be.
LEMMA Ending ==
  ASSUME IInv, at # "idle", NEW how \in {"done", "failed", "unready"}, End(how)
  PROVE  /\ Working' /\ Waiting' /\ Named'
         /\ job \in Request /\ job' = Nobody /\ at' = "idle" /\ UNCHANGED <<bank, target, queue>>
         /\ status' \in [Request -> {"none", "checked", "rejected", "queued", "running", "done", "failed", "unready"}]
         /\ status[job] = "running" /\ status'[job] = how
         /\ \A u \in Request : u # job => status'[u] = status[u]
<1> USE DEF IInv
<1>1. job \in Request /\ status[job] = "running"
  BY DEF Working, TypeOK
<1>2. /\ job' = Nobody /\ at' = "idle" /\ UNCHANGED <<bank, target, queue>>
      /\ status' = [status EXCEPT ![job] = how]
  BY DEF End
<1>3. status' \in [Request -> {"none", "checked", "rejected", "queued", "running", "done", "failed", "unready"}]
  BY <1>1, <1>2 DEF TypeOK
<1>4. status'[job] = how /\ \A u \in Request : u # job => status'[u] = status[u]
  BY <1>1, <1>2 DEF TypeOK
<1>5. Working'
  BY <1>2 DEF Working, LoginSteps, UseSteps
<1>6. Waiting'
  <2>1. \A i \in 1 .. Len(queue) : queue[i] \in Request /\ queue[i] # job
    BY <1>1, QueueType DEF Waiting
  <2> QED BY <1>2, <1>4, <2>1 DEF Waiting
<1>7. Named'
  <2>1. Login \subseteq Request /\ Verify \cup Export \subseteq Request
    BY DEF Request
  <2> QED BY <1>1, <1>2, <1>4, <2>1 DEF Named
<1> QED BY <1>1, <1>2, <1>3, <1>4, <1>5, <1>6, <1>7

\* What a step within a job leaves as it should be.
LEMMA Going ==
  ASSUME IInv, NEW step, Goto(step), UNCHANGED requests,
         (at \in LoginSteps /\ step \in LoginSteps) \/ (at \in UseSteps /\ step \in UseSteps)
  PROVE  /\ Working' /\ Waiting' /\ Named'
         /\ at' = step /\ step \in Steps /\ UNCHANGED <<bank, target, status, queue, job>>
<1>1. at' = step /\ UNCHANGED <<bank, target, status, queue, job>>
  BY DEF Goto, requests
<1>2. step \in Steps /\ at # "idle" /\ step # "idle"
  BY DEF Steps, LoginSteps, UseSteps
<1>3. Working'
  BY <1>1, <1>2 DEF IInv, Working, LoginSteps, UseSteps
<1>4. Waiting' /\ Named'
  BY <1>1 DEF IInv, Waiting, Named
<1> QED BY <1>1, <1>2, <1>3, <1>4

\* What quit() does to browsers that are up.
LEMMA Quitting ==
  ASSUME TypeOK, Counted, NEW S, QuitAll(S), \A s \in Login : s \in S => browser[s] = "live"
  PROVE  /\ Counted'
         /\ browser' \in [Login -> {"none", "live", "quit"}] /\ quits' \in [Login -> Nat]
         /\ profile' = profile \ S /\ profile' \subseteq Login
         /\ \A s \in Login : browser'[s] = IF s \in S THEN "quit" ELSE browser[s]
<1>1. \A s \in Login : browser'[s] = IF s \in S THEN "quit" ELSE browser[s]
  BY DEF QuitAll
<1>2. \A s \in Login : quits'[s] = IF s \in S THEN quits[s] + 1 ELSE quits[s]
  BY DEF QuitAll
<1>3. browser' \in [Login -> {"none", "live", "quit"}]
  BY <1>1 DEF QuitAll, TypeOK
<1>4. quits' \in [Login -> Nat]
  BY <1>2 DEF QuitAll, TypeOK
<1>5. profile' = profile \ S /\ profile' \subseteq Login
  BY DEF QuitAll, TypeOK
<1>6. Counted'
  BY <1>1, <1>2 DEF Counted
<1> QED BY <1>1, <1>3, <1>4, <1>5, <1>6

LEMMA TakeKeeps == IInv /\ Take => IInv'
<1> SUFFICES ASSUME IInv, Take PROVE IInv'
  OBVIOUS
<1> USE DEF IInv
<1> DEFINE r == Head(queue)
<1>1. /\ at = "idle" /\ queue # << >> /\ job' = r /\ queue' = Tail(queue)
      /\ status' = [status EXCEPT ![r] = "running"]
      /\ r \in Login => at' = "closeAll" /\ closing' = sessions
      /\ r \notin Login => at' = "lookup" /\ closing' = closing
      /\ UNCHANGED <<bank, target, sessions, browser, profile, quits, stale>>
  BY DEF Take, Dequeue, browsers
<1>2. /\ queue \in Seq(Request) /\ Len(queue) \in Nat \ {0} /\ r = queue[1] /\ Len(queue') = Len(queue) - 1
      /\ \A i \in 1 .. Len(queue') : queue'[i] = queue[i + 1]
  BY <1>1 DEF TypeOK
<1>3. r \in Request /\ r # Nobody /\ status[r] = "queued"
  BY <1>2, QueueType, SessionAssumption DEF Waiting
<1> HIDE DEF r
<1>4. status'[r] = "running" /\ \A u \in Request : u # r => status'[u] = status[u]
  BY <1>1, <1>3 DEF TypeOK
<1>5. TypeOK'
  <2>1. queue' \in Seq(Request)
    BY <1>1, <1>2
  <2>2. at' \in Steps /\ closing' \subseteq Login /\ job' \in Request
    BY <1>1, <1>3 DEF TypeOK, Steps
  <2> QED BY <1>1, <1>3, <2>1, <2>2 DEF TypeOK
<1>6. Working'
  BY <1>1, <1>3, <1>4 DEF Working, LoginSteps, UseSteps, Request
<1>7. Waiting'
  <2>1. \A i \in 1 .. Len(queue') : i + 1 \in 1 .. Len(queue) /\ queue'[i] = queue[i + 1]
    BY <1>2
  <2>2. \A i \in 1 .. Len(queue') : queue'[i] \in Request /\ queue'[i] # r
    <3>1. \A i, j \in 1 .. Len(queue) : queue[i] = queue[j] => i = j
      BY DEF Waiting
    <3>2. \A i \in 1 .. Len(queue) : queue[i] \in Request
      BY QueueType
    <3> QED BY ONLY <1>2, <2>1, <3>1, <3>2
  <2>3. \A i \in 1 .. Len(queue') : status'[queue'[i]] = "queued"
    BY <1>4, <2>1, <2>2 DEF Waiting
  <2>4. \A i, j \in 1 .. Len(queue') : queue'[i] = queue'[j] => i = j
    <3> SUFFICES ASSUME NEW i \in 1 .. Len(queue'), NEW j \in 1 .. Len(queue'), queue'[i] = queue'[j]
                 PROVE  i = j
      OBVIOUS
    <3>1. i + 1 = j + 1
      BY <2>1 DEF Waiting
    <3> QED BY <3>1, <1>2
  <2> QED BY <2>3, <2>4 DEF Waiting
<1>8. Named'
  <2>1. Login \subseteq Request /\ Verify \cup Export \subseteq Request
    BY DEF Request
  <2> QED BY <1>1, <1>3, <1>4, <2>1 DEF Named
<1>9. Untouched' /\ Counted'
  <2>1. \A s \in Login : s \in Request /\ (status'[s] \in {"none", "checked", "rejected", "queued"} => status[s] = status'[s])
    BY <1>4 DEF Request
  <2> QED BY <1>1, <1>3, <2>1 DEF Untouched, Counted
<1>10. Phase'
  <2>1. Up(sessions) /\ closing = {}
    BY <1>1 DEF Phase
  <2>2. CASE r \in Login
    BY <1>1, <2>1, <2>2 DEF Phase, Up
  <2>3. CASE r \notin Login
    BY <1>1, <2>1, <2>3 DEF Phase, Up
  <2> QED BY <2>2, <2>3
<1>11. Profiles' /\ GivenUp'
  <2>1. profile \subseteq Request /\ Export \subseteq Request
    BY DEF Request, TypeOK
  <2> QED BY <1>1, <1>3, <1>4, <2>1 DEF Profiles, GivenUp
<1> QED BY <1>5, <1>6, <1>7, <1>8, <1>9, <1>10, <1>11

LEMMA CloseOneKeeps == IInv /\ CloseOne => IInv'
<1> SUFFICES ASSUME IInv, CloseOne PROVE IInv'
  OBVIOUS
<1> USE DEF IInv
<1>1. PICK s \in closing : QuitAll({s}) /\ closing' = closing \ {s}
  BY DEF CloseOne
<1>2. at = "closeAll" /\ UNCHANGED <<bank, target, status, queue, job, at, sessions, stale>>
  BY DEF CloseOne, requests, worker
<1>3. s \in Login /\ browser[s] = "live" /\ closing \subseteq sessions /\ Up(closing)
  BY <1>2 DEF Phase, Up, TypeOK
<1>4. /\ Counted' /\ browser' \in [Login -> {"none", "live", "quit"}] /\ quits' \in [Login -> Nat]
      /\ profile' = profile \ {s} /\ profile' \subseteq Login
      /\ \A t \in Login : browser'[t] = IF t \in {s} THEN "quit" ELSE browser[t]
  BY <1>1, <1>3, Quitting
<1>5. TypeOK'
  BY <1>1, <1>2, <1>4 DEF TypeOK
<1>6. Working' /\ Waiting' /\ Named' /\ GivenUp'
  BY <1>2 DEF Working, Waiting, Named, GivenUp
<1>7. Untouched'
  BY <1>2, <1>3, <1>4 DEF Untouched
<1>8. Phase'
  BY <1>1, <1>2, <1>3, <1>4 DEF Phase, Up
<1>9. Profiles'
  BY <1>2, <1>4 DEF Profiles, TypeOK
<1> QED BY <1>4, <1>5, <1>6, <1>7, <1>8, <1>9

LEMMA CloseRestKeeps == IInv /\ CloseRest => IInv'
<1> SUFFICES ASSUME IInv, CloseRest PROVE IInv'
  OBVIOUS
<1> USE DEF IInv
<1>1. /\ at = "closeAll" /\ closing = {} /\ sessions' = {} /\ Goto("construct") /\ UNCHANGED requests
      /\ UNCHANGED <<closing, browser, profile, quits, stale>>
  BY DEF CloseRest, browsers
<1>2. /\ Working' /\ Waiting' /\ Named' /\ at' = "construct" /\ at' \in Steps
      /\ UNCHANGED <<bank, target, status, queue, job>>
  <2>1. at \in LoginSteps /\ "construct" \in LoginSteps
    BY <1>1 DEF LoginSteps
  <2> QED BY <1>1, <2>1, Going
<1>3. TypeOK' /\ Untouched' /\ Counted' /\ Profiles' /\ GivenUp'
  BY <1>1, <1>2 DEF TypeOK, Untouched, Counted, Profiles, GivenUp
<1>4. Phase'
  BY <1>1, <1>2 DEF Phase, Up
<1> QED BY <1>2, <1>3, <1>4

LEMMA ConstructKeeps == IInv /\ Construct => IInv'
<1> SUFFICES ASSUME IInv, Construct PROVE IInv'
  OBVIOUS
<1> USE DEF IInv
<1>1. /\ at = "construct" /\ profile' = profile \cup {job} /\ UNCHANGED <<sessions, closing, stale, quits>>
  BY DEF Construct
<1>2. /\ job \in Login /\ job \in Request /\ sessions = {} /\ closing = {} /\ Up({})
      /\ browser[job] = "none" /\ status[job] = "running"
  BY <1>1 DEF Working, Phase, Untouched, LoginSteps, Request, TypeOK
<1>3. CASE browser' = [browser EXCEPT ![job] = "live"] /\ Goto("auth") /\ UNCHANGED requests
  <2>1. /\ Working' /\ Waiting' /\ Named' /\ at' = "auth" /\ at' \in Steps
        /\ UNCHANGED <<bank, target, status, queue, job>>
    <3>1. at \in LoginSteps /\ "auth" \in LoginSteps
      BY <1>1 DEF LoginSteps
    <3> QED BY <1>3, <3>1, Going
  <2>2. browser'[job] = "live" /\ \A s \in Login : s # job => browser'[s] = browser[s]
    BY <1>2, <1>3 DEF TypeOK
  <2>3. TypeOK'
    BY <1>1, <1>2, <1>3, <2>1 DEF TypeOK
  <2>4. Untouched' /\ Counted' /\ Profiles' /\ GivenUp'
    BY <1>1, <1>2, <2>1, <2>2 DEF Untouched, Counted, Profiles, GivenUp, TypeOK
  <2>5. Phase'
    BY <1>1, <1>2, <2>1, <2>2 DEF Phase, Up
  <2> QED BY <2>1, <2>3, <2>4, <2>5
<1>4. CASE End("failed") /\ UNCHANGED browser
  <2>1. /\ Working' /\ Waiting' /\ Named' /\ job' = Nobody /\ at' = "idle" /\ UNCHANGED <<bank, target, queue>>
        /\ status' \in [Request -> {"none", "checked", "rejected", "queued", "running", "done", "failed", "unready"}]
        /\ status'[job] = "failed" /\ \A u \in Request : u # job => status'[u] = status[u]
    BY <1>1, <1>4, Ending
  <2>2. TypeOK'
    BY <1>1, <1>2, <1>4, <2>1 DEF TypeOK, Steps
  <2>3. Untouched' /\ Counted'
    <3>1. Login \subseteq Request
      BY DEF Request
    <3> QED BY <1>1, <1>2, <1>4, <2>1, <3>1 DEF Untouched, Counted
  <2>4. Profiles' /\ GivenUp'
    <3>1. profile \subseteq Request /\ Export \subseteq Request
      BY DEF Request, TypeOK
    <3> QED BY <1>1, <1>2, <1>4, <2>1, <3>1 DEF Profiles, GivenUp
  <2>5. Phase'
    BY <1>1, <1>2, <1>4, <2>1 DEF Phase, Up
  <2> QED BY <2>1, <2>2, <2>3, <2>4, <2>5
<1> QED BY <1>3, <1>4 DEF Construct

LEMMA StartAuthKeeps == IInv /\ StartAuth => IInv'
<1> SUFFICES ASSUME IInv, StartAuth PROVE IInv'
  OBVIOUS
<1> USE DEF IInv
<1>1. at = "auth" /\ UNCHANGED <<sessions, closing, stale>>
  BY DEF StartAuth
<1>2. /\ job \in Login /\ job \in Request /\ sessions = {} /\ closing = {} /\ Up({job})
      /\ browser[job] = "live" /\ status[job] = "running"
  BY <1>1 DEF Working, Phase, Up, LoginSteps, Request
<1>3. CASE Goto("create") /\ UNCHANGED <<requests, browsers>>
  <2>1. /\ Working' /\ Waiting' /\ Named' /\ at' = "create" /\ at' \in Steps
        /\ UNCHANGED <<bank, target, status, queue, job>>
    <3>1. at \in LoginSteps /\ "create" \in LoginSteps
      BY <1>1 DEF LoginSteps
    <3> QED BY <1>3, <3>1, Going
  <2>2. UNCHANGED <<browser, profile, quits>>
    BY <1>3 DEF browsers
  <2>3. TypeOK' /\ Untouched' /\ Counted' /\ Profiles' /\ GivenUp'
    BY <1>1, <2>1, <2>2 DEF TypeOK, Untouched, Counted, Profiles, GivenUp
  <2>4. Phase'
    BY <1>1, <1>2, <2>1, <2>2 DEF Phase, Up
  <2> QED BY <2>1, <2>3, <2>4
<1>4. CASE End("failed") /\ QuitAll({job})
  <2>1. /\ Working' /\ Waiting' /\ Named' /\ job' = Nobody /\ at' = "idle" /\ UNCHANGED <<bank, target, queue>>
        /\ status' \in [Request -> {"none", "checked", "rejected", "queued", "running", "done", "failed", "unready"}]
        /\ status'[job] = "failed" /\ \A u \in Request : u # job => status'[u] = status[u]
    BY <1>1, <1>4, Ending
  <2>2. /\ Counted' /\ browser' \in [Login -> {"none", "live", "quit"}] /\ quits' \in [Login -> Nat]
        /\ profile' = profile \ {job} /\ profile' \subseteq Login
        /\ \A t \in Login : browser'[t] = IF t \in {job} THEN "quit" ELSE browser[t]
    BY <1>2, <1>4, Quitting
  <2>3. TypeOK'
    BY <1>1, <2>1, <2>2 DEF TypeOK, Steps
  <2>4. Untouched' /\ Profiles' /\ GivenUp'
    <3>1. Login \subseteq Request /\ profile' \subseteq Login /\ Export \subseteq Request
      BY <2>2 DEF Request
    <3> QED BY <1>1, <1>2, <2>1, <2>2, <3>1 DEF Untouched, Profiles, GivenUp
  <2>5. Phase'
    BY <1>1, <1>2, <2>1, <2>2 DEF Phase, Up
  <2> QED BY <2>1, <2>2, <2>3, <2>4, <2>5
<1> QED BY <1>3, <1>4 DEF StartAuth

LEMMA CreateKeeps == IInv /\ Create => IInv'
<1> SUFFICES ASSUME IInv, Create PROVE IInv'
  OBVIOUS
<1> USE DEF IInv
<1>1. /\ at = "create" /\ QuitAll(sessions \cap stale) /\ sessions' = (sessions \ stale) \cup {job}
      /\ End("done") /\ UNCHANGED <<closing, stale>>
  BY DEF Create
<1>2. /\ job \in Login /\ job \in Request /\ sessions = {} /\ closing = {} /\ Up({job})
      /\ browser[job] = "live" /\ status[job] = "running"
  BY <1>1 DEF Working, Phase, Up, LoginSteps, Request
<1>3. /\ Working' /\ Waiting' /\ Named' /\ job' = Nobody /\ at' = "idle" /\ UNCHANGED <<bank, target, queue>>
      /\ status' \in [Request -> {"none", "checked", "rejected", "queued", "running", "done", "failed", "unready"}]
      /\ status'[job] = "done" /\ \A u \in Request : u # job => status'[u] = status[u]
  BY <1>1, Ending
\* All sessions are closed by now: the cleanup finds none.
<1>4. /\ Counted' /\ browser' \in [Login -> {"none", "live", "quit"}] /\ quits' \in [Login -> Nat]
      /\ profile' = profile /\ sessions' = {job}
      /\ \A t \in Login : browser'[t] = browser[t]
  <2>1. sessions \cap stale = {} /\ QuitAll({}) /\ sessions' = {job}
    BY ONLY <1>1, <1>2
  <2>2. /\ Counted' /\ browser' \in [Login -> {"none", "live", "quit"}] /\ quits' \in [Login -> Nat]
        /\ profile' = profile \ {} /\ \A t \in Login : browser'[t] = IF t \in {} THEN "quit" ELSE browser[t]
    BY ONLY TypeOK, Counted, <2>1, Quitting
  <2> QED BY ONLY <2>1, <2>2
<1>5. TypeOK'
  BY <1>1, <1>2, <1>3, <1>4 DEF TypeOK, Steps
<1>6. Untouched' /\ Profiles'
  <2>1. Login \subseteq Request /\ profile \subseteq Login
    BY DEF Request, TypeOK
  <2> QED BY <1>2, <1>3, <1>4, <2>1 DEF Untouched, Profiles
<1>7. Phase'
  BY <1>1, <1>2, <1>3, <1>4 DEF Phase, Up
\* A session that an export has given up is not the one that is new.
<1>8. GivenUp'
  <2> SUFFICES ASSUME NEW r \in Export, status'[r] \in {"done", "failed"} PROVE target'[r] # job
    BY <1>4 DEF GivenUp
  <2>1. r # job /\ r \in Request
    BY <1>2, SessionAssumption DEF Request
  <2>2. status[target[r]] = "done"
    BY <1>3, <2>1 DEF Named
  <2> QED BY <1>2, <1>3, <2>2
<1> QED BY <1>3, <1>4, <1>5, <1>6, <1>7, <1>8

\* A step of a code check or an export that ends or goes on, and touches no browser.
LEMMA Quietly ==
  ASSUME IInv, at \in UseSteps,
         UNCHANGED <<browser, profile, quits, stale, closing, bank, target, queue>>,
         status' \in [Request -> {"none", "checked", "rejected", "queued", "running", "done", "failed", "unready"}],
         \A u \in Request : u # job => status'[u] = status[u],
         sessions' \subseteq sessions, at' \in Steps \ LoginSteps,
         job' = job \/ job' = Nobody
  PROVE  TypeOK' /\ Untouched' /\ Counted' /\ Profiles'
<1> USE DEF IInv
<1>1. job \in Verify \cup Export /\ job \in Request /\ job \notin Login
  BY SessionAssumption DEF Working, Request
<1>2. \A s \in Login : status'[s] = status[s]
  BY <1>1 DEF Request
<1>3. TypeOK'
  BY <1>1 DEF TypeOK
<1>4. Untouched' /\ Counted'
  BY <1>1, <1>2 DEF Untouched, Counted, LoginSteps
<1>5. Profiles'
  BY <1>2 DEF Profiles, TypeOK
<1> QED BY <1>3, <1>4, <1>5

\* An export's end leaves GivenUp as it is when its session is gone.
LEMMA Gone ==
  ASSUME IInv, UNCHANGED target, sessions' \subseteq sessions,
         \A u \in Request : u # job => status'[u] = status[u],
         job \in Export /\ status'[job] \in {"done", "failed"} => target[job] \notin sessions'
  PROVE  GivenUp'
BY DEF IInv, GivenUp, Request

LEMMA LookupKeeps == IInv /\ Lookup => IInv'
<1> SUFFICES ASSUME IInv, Lookup PROVE IInv'
  OBVIOUS
<1> USE DEF IInv
<1>1. at = "lookup" /\ UNCHANGED <<sessions, closing, browser, profile, quits, stale>>
  BY DEF Lookup, browsers
<1>2. at \in UseSteps /\ at # "idle" /\ job \in Verify \cup Export /\ job \in Request /\ Up(sessions) /\ closing = {}
  BY <1>1 DEF Working, Phase, UseSteps, Request
<1>3. CASE Get(target[job], bank[job]) /\ Goto("use") /\ UNCHANGED requests
  <2>1. /\ Working' /\ Waiting' /\ Named' /\ at' = "use" /\ UNCHANGED <<bank, target, status, queue, job>>
    <3>1. "use" \in UseSteps
      BY DEF UseSteps
    <3> QED BY <1>2, <1>3, <3>1, Going
  <2>2. TypeOK' /\ Untouched' /\ Counted' /\ Profiles' /\ GivenUp'
    BY <1>1, <2>1 DEF TypeOK, Steps, Untouched, Counted, Profiles, GivenUp
  <2>3. Phase'
    BY <1>1, <1>2, <1>3, <2>1 DEF Phase, Up, Get
  <2> QED BY <2>1, <2>2, <2>3
<1>4. CASE ~Get(target[job], bank[job]) /\ End("failed")
  <2>1. /\ Working' /\ Waiting' /\ Named' /\ job' = Nobody /\ at' = "idle" /\ UNCHANGED <<bank, target, queue>>
        /\ status' \in [Request -> {"none", "checked", "rejected", "queued", "running", "done", "failed", "unready"}]
        /\ status[job] = "running" /\ \A u \in Request : u # job => status'[u] = status[u]
    BY <1>2, <1>4, Ending
  <2>2. TypeOK' /\ Untouched' /\ Counted' /\ Profiles'
    BY <1>1, <1>2, <2>1, Quietly DEF Steps, LoginSteps
  <2>3. target[job] \notin sessions
    BY <1>2, <1>4, <2>1 DEF Named, Get
  <2>4. GivenUp'
    BY <1>1, <2>1, <2>3, Gone
  <2>5. Phase'
    BY <1>1, <1>2, <2>1 DEF Phase, Up
  <2> QED BY <2>1, <2>2, <2>4, <2>5
<1> QED BY <1>3, <1>4 DEF Lookup

LEMMA UseKeeps == IInv /\ Use => IInv'
<1> SUFFICES ASSUME IInv, Use PROVE IInv'
  OBVIOUS
<1> USE DEF IInv
<1>1. at = "use" /\ UNCHANGED <<sessions, closing, browser, profile, quits, stale>>
  BY DEF Use, browsers
<1>2. at \in UseSteps /\ at # "idle" /\ job \in Request /\ Up(sessions) /\ closing = {}
  BY <1>1 DEF Working, Phase, UseSteps, Request
<1>3. CASE Goto("remove") /\ UNCHANGED requests
  <2>1. /\ Working' /\ Waiting' /\ Named' /\ at' = "remove" /\ UNCHANGED <<bank, target, status, queue, job>>
    <3>1. "remove" \in UseSteps
      BY DEF UseSteps
    <3> QED BY <1>2, <1>3, <3>1, Going
  <2>2. TypeOK' /\ Untouched' /\ Counted' /\ Profiles' /\ GivenUp'
    BY <1>1, <2>1 DEF TypeOK, Steps, Untouched, Counted, Profiles, GivenUp
  <2>3. Phase'
    BY <1>1, <1>2, <2>1 DEF Phase, Up
  <2> QED BY <2>1, <2>2, <2>3
<1>4. ASSUME NEW how \in {"done", "unready"}, End(how), how = "done" => job \in Verify PROVE IInv'
  <2>1. /\ Working' /\ Waiting' /\ Named' /\ job' = Nobody /\ at' = "idle" /\ UNCHANGED <<bank, target, queue>>
        /\ status' \in [Request -> {"none", "checked", "rejected", "queued", "running", "done", "failed", "unready"}]
        /\ status'[job] = how /\ \A u \in Request : u # job => status'[u] = status[u]
    BY <1>2, <1>4, Ending
  <2>2. TypeOK' /\ Untouched' /\ Counted' /\ Profiles'
    BY <1>1, <1>2, <2>1, Quietly DEF Steps, LoginSteps
  <2>3. GivenUp'
    BY <1>1, <1>4, <2>1, Gone, SessionAssumption
  <2>4. Phase'
    BY <1>1, <1>2, <2>1 DEF Phase, Up
  <2> QED BY <2>1, <2>2, <2>3, <2>4
<1> QED BY <1>3, <1>4 DEF Use

LEMMA RemoveKeeps == IInv /\ Remove => IInv'
<1> SUFFICES ASSUME IInv, Remove PROVE IInv'
  OBVIOUS
<1> USE DEF IInv
<1> DEFINE step == IF target[job] \in sessions THEN "quit" ELSE "after"
<1>1. /\ at = "remove" /\ sessions' = sessions \ {target[job]} /\ Goto(step) /\ UNCHANGED requests
      /\ UNCHANGED <<closing, browser, profile, quits, stale>>
  BY DEF Remove, browsers
<1>2. at \in UseSteps /\ step \in UseSteps /\ Up(sessions) /\ closing = {}
  BY <1>1 DEF Phase, UseSteps
<1>3. /\ Working' /\ Waiting' /\ Named' /\ at' = step /\ at' \in Steps
      /\ UNCHANGED <<bank, target, status, queue, job>>
  BY <1>1, <1>2, Going
<1>4. TypeOK' /\ Untouched' /\ Counted' /\ Profiles' /\ GivenUp'
  BY <1>1, <1>3 DEF TypeOK, Untouched, Counted, Profiles, GivenUp
<1>5. Phase'
  <2>1. CASE target[job] \in sessions
    BY <1>1, <1>2, <1>3, <2>1 DEF Phase, Up
  <2>2. CASE target[job] \notin sessions
    BY <1>1, <1>2, <1>3, <2>2 DEF Phase, Up
  <2> QED BY <2>1, <2>2
<1> QED BY <1>3, <1>4, <1>5

LEMMA QuitRemovedKeeps == IInv /\ QuitRemoved => IInv'
<1> SUFFICES ASSUME IInv, QuitRemoved PROVE IInv'
  OBVIOUS
<1> USE DEF IInv
<1> DEFINE t == target[job]
<1>1. /\ at = "quit" /\ QuitAll({t}) /\ Goto("after") /\ UNCHANGED requests
      /\ UNCHANGED <<sessions, closing, stale>>
  BY DEF QuitRemoved
<1>2. at \in UseSteps /\ t \notin sessions /\ Up(sessions \cup {t}) /\ closing = {}
  BY <1>1 DEF Phase, UseSteps
<1>3. /\ Working' /\ Waiting' /\ Named' /\ at' = "after" /\ UNCHANGED <<bank, target, status, queue, job>>
  <2>1. "after" \in UseSteps
    BY DEF UseSteps
  <2> QED BY <1>1, <1>2, <2>1, Going
<1> HIDE DEF t
<1>4. /\ Counted' /\ browser' \in [Login -> {"none", "live", "quit"}] /\ quits' \in [Login -> Nat]
      /\ profile' = profile \ {t} /\ profile' \subseteq Login
      /\ \A s \in Login : browser'[s] = IF s \in {t} THEN "quit" ELSE browser[s]
  <2>1. \A s \in Login : s \in {t} => browser[s] = "live"
    BY <1>2 DEF Up
  <2> QED BY <1>1, <2>1, Quitting
<1>5. TypeOK'
  BY <1>1, <1>3, <1>4 DEF TypeOK, Steps
<1>6. Untouched' /\ Profiles' /\ GivenUp'
  BY <1>1, <1>2, <1>3, <1>4 DEF Untouched, Up, Profiles, GivenUp, TypeOK
<1>7. Phase'
  BY <1>1, <1>2, <1>3, <1>4 DEF Phase, Up, t
<1> QED BY <1>3, <1>4, <1>5, <1>6, <1>7

LEMMA AfterKeeps == IInv /\ After => IInv'
<1> SUFFICES ASSUME IInv, After PROVE IInv'
  OBVIOUS
<1> USE DEF IInv
<1>1. at = "after" /\ UNCHANGED <<sessions, closing, browser, profile, quits, stale>>
  BY DEF After, browsers
<1>2. at \in UseSteps /\ at # "idle" /\ job \in Request /\ Up(sessions) /\ closing = {} /\ target[job] \notin sessions
  BY <1>1 DEF Working, Phase, UseSteps, Request
<1>3. PICK how \in {"done", "failed"} : End(how)
  BY DEF After
<1>4. /\ Working' /\ Waiting' /\ Named' /\ job' = Nobody /\ at' = "idle" /\ UNCHANGED <<bank, target, queue>>
      /\ status' \in [Request -> {"none", "checked", "rejected", "queued", "running", "done", "failed", "unready"}]
      /\ \A u \in Request : u # job => status'[u] = status[u]
  BY <1>2, <1>3, Ending
<1>5. TypeOK' /\ Untouched' /\ Counted' /\ Profiles'
  BY <1>1, <1>2, <1>4, Quietly DEF Steps, LoginSteps
<1>6. GivenUp'
  BY <1>1, <1>2, <1>4, Gone
<1>7. Phase'
  BY <1>1, <1>2, <1>4 DEF Phase, Up
<1> QED BY <1>4, <1>5, <1>6, <1>7

-----------------------------------------------------------------------------
\* The invariant holds of every reachable state.
THEOREM Invariant == Spec => []IInv
<1>1. IInv /\ [Next]_vars => IInv'
  <2> SUFFICES ASSUME IInv, [Next]_vars PROVE IInv'
    OBVIOUS
  <2>1. CASE \E r \in Login : PostLogin(r)
    BY <2>1, PostLoginKeeps
  <2>2. CASE \E r \in Verify \cup Export : PostUse(r)
    BY <2>2, PostUseKeeps
  <2>3. CASE \E r \in Request : Submit(r)
    BY <2>3, SubmitKeeps
  <2>4. CASE Work
    BY <2>4, TakeKeeps, CloseOneKeeps, CloseRestKeeps, ConstructKeeps, StartAuthKeeps, CreateKeeps,
       LookupKeeps, UseKeeps, RemoveKeeps, QuitRemovedKeeps, AfterKeeps DEF Work
  <2>5. CASE \E s \in Login : Age(s)
    BY <2>5, AgeKeeps
  <2>6. CASE UNCHANGED vars
    BY <2>6 DEF vars, requests, worker, browsers, IInv, TypeOK, Working, Waiting, Named, Untouched, Counted,
         Phase, Up, Get, Profiles, GivenUp
  <2> QED BY <2>1, <2>2, <2>3, <2>4, <2>5, <2>6 DEF Next
<1> QED BY Initially, <1>1, PTL DEF Spec

\* Every variable of the sessions and of their jobs keeps its type.
THEOREM TypeCorrect == Spec => []TypeOK
<1>1. IInv => TypeOK
  BY InvariantSuffices
<1> QED BY Invariant, <1>1, PTL

\* However many logins are asked for, and at however many banks, no two
\* browsers are up (ScraperSessionManager.close_all before each login).
THEOREM OneIsUp == Spec => []OneBrowser
<1>1. IInv => OneBrowser
  BY InvariantSuffices
<1> QED BY Invariant, <1>1, PTL

\* A job drives no browser but its own session's, of its own bank, and only
\* while it is up (_job_scraper looks the session up again).
THEOREM UsesOwn == Spec => []UsesOwnLiveBrowser
<1>1. IInv => UsesOwnLiveBrowser
  BY InvariantSuffices
<1> QED BY Invariant, <1>1, PTL

\* No browser is lost or stopped twice, whatever fails, and an export that has
\* ended, unless it ended before its try, has given its session up (run_login,
\* run_export, remove).
THEOREM NoneIsLost == Spec => []NoLostBrowser
<1>1. IInv => NoLostBrowser
  BY InvariantSuffices
<1> QED BY Invariant, <1>1, PTL
=============================================================================
