-------------------------- MODULE CredentialStore --------------------------
(***************************************************************************)
(* The saved logins of pennyspy/credentials/store.py: one JSON file and    *)
(* one key file in a directory that several processes may share, each with *)
(* its own CredentialStore and lock; and resolve_login of resolve.py, which *)
(* picks the login a sign-in uses.  Calls are numbered; a number stands    *)
(* for the id a create makes, the revision an update writes and the key a  *)
(* call generates.                                                         *)
(***************************************************************************)
EXTENDS Naturals, FiniteSets

CONSTANTS
  Process, Thread,
  Home,      \* the process of each thread
  Bank,
  EnvBank,   \* banks whose login the environment variables give too
  Nobody,    \* no thread
  MaxCalls   \* bound on calls

ASSUME StoreAssumption ==
  /\ Home \in [Thread -> Process]
  /\ EnvBank \subseteq Bank /\ Bank # {}
  /\ Nobody \notin Thread
  /\ MaxCalls \in Nat

VARIABLES
  store,    \* records in credentials.json; {} also when there is no file
  key,      \* secret.key: the key in it, Empty, or NoKey without the file
  lock,     \* each process: the thread that holds CredentialStore._lock
  calls,    \* calls made so far
  at, op,   \* each thread: where it is, and its call
  records,  \* each thread: the records it read
  fernet,   \* each thread: the key it encrypts with
  want,     \* history: the records had every write been made in one step
  writers,  \* history: processes that have replaced credentials.json
  was,      \* history: each thread: what the single login was during its call
  answer    \* history: what the step just made returned to its caller, if anything

threads == <<at, op, records, fernet, was>>
history == <<want, writers>>
vars    == <<store, key, lock, calls, threads, history, answer>>

\* Ids and revisions count from 1; 0 is no id.
Calls  == 1 .. MaxCalls
NoKey  == 0
Empty  == MaxCalls + 1
Record == [id : Calls, bank : Bank, rev : Calls, key : Calls]

\* A call: cid is the id it names; stage is what it changes, or what
\* resolve_login is doing: "only" resolves the login that it has picked.
NoOp == [kind |-> "none", bank |-> CHOOSE b \in Bank : TRUE, cid |-> 0, n |-> 0, stage |-> "none"]

-----------------------------------------------------------------------------
(* Pure parts.                                                             *)

OfBank(S, b) == {r \in S : r.bank = b}

\* A history value: 0 when no login of b is saved, its id when one is, and
\* nothing when there are several.
Single(S, b) ==
  IF OfBank(S, b) = {} THEN {0}
  ELSE {r.id : r \in {x \in OfBank(S, b) : OfBank(S, b) = {x}}}

\* update encrypts the secrets it is given and leaves other ciphertext as it is.
Changed(r, o, k) ==
  IF r.id # o.cid THEN r
  ELSE [id |-> r.id, bank |-> r.bank, rev |-> o.n, key |-> IF o.stage = "secrets" THEN k ELSE r.key]

\* What a write makes of the records S.
Written(S, o, k) ==
  CASE o.kind = "create" -> S \cup {[id |-> o.n, bank |-> o.bank, rev |-> o.n, key |-> k]}
    [] o.kind = "update" -> {Changed(r, o, k) : r \in S}
    [] o.kind = "delete" -> {r \in S : r.id # o.cid}

-----------------------------------------------------------------------------
(* How a call ends: with an answer, and with the lock released.            *)

NoAnswer == [to |-> Nobody, kind |-> "none", id |-> 0, stage |-> "none"]

Release(t) == lock' = [lock EXCEPT ![Home[t]] = Nobody]

Ends(t, kind) ==
  /\ answer' = [to |-> t, kind |-> kind, id |-> op[t].cid, stage |-> op[t].stage]
  /\ at' = [at EXCEPT ![t] = "idle"]
  /\ op' = [op EXCEPT ![t] = NoOp]
  /\ records' = [records EXCEPT ![t] = {}]
  /\ fernet' = [fernet EXCEPT ![t] = NoKey]

Returns(t, kind) ==
  /\ Ends(t, kind) /\ Release(t)
  /\ was' = [was EXCEPT ![t] = {}]

\* Inside the lock, on to the next place.
Goes(t, place) ==
  /\ at' = [at EXCEPT ![t] = place]
  /\ answer' = NoAnswer
  /\ UNCHANGED <<lock, op, records, was>>

-----------------------------------------------------------------------------
Starts(t, o) ==
  /\ at[t] = "idle" /\ calls < MaxCalls
  /\ calls' = calls + 1
  /\ op' = [op EXCEPT ![t] = o]
  /\ at' = [at EXCEPT ![t] = "enter"]
  /\ answer' = NoAnswer
  /\ was' = [was EXCEPT ![t] = Single(store, o.bank)]
  /\ UNCHANGED <<store, key, lock, records, fernet, history>>

AnyBank == CHOOSE b \in Bank : TRUE

Create(t) == \E b \in Bank :
  Starts(t, [kind |-> "create", bank |-> b, cid |-> 0, n |-> calls + 1, stage |-> "write"])

\* The label alone, or a secret.
Update(t) == \E c \in 1 .. calls, what \in {"label", "secrets"} :
  Starts(t, [kind |-> "update", bank |-> AnyBank, cid |-> c, n |-> calls + 1, stage |-> what])

Delete(t) == \E c \in 1 .. calls :
  Starts(t, [kind |-> "delete", bank |-> AnyBank, cid |-> c, n |-> 0, stage |-> "write"])

\* resolve_login, for a named login or without one.
Login(t) == \E b \in Bank, c \in 0 .. calls :
  Starts(t, [kind |-> "login", bank |-> b, cid |-> c, n |-> 0,
             stage |-> IF c = 0 THEN "list" ELSE "resolve"])

-----------------------------------------------------------------------------
\* What a call does with the records it has read.
Reads(t, S) ==
  LET o == op[t]
      found == \E r \in S : r.id = o.cid
  IN
    /\ answer' = NoAnswer
    /\ records' = [records EXCEPT ![t] = S]
    /\ IF o.kind = "create" \/ (o.stage = "list" /\ S # {}) \/ (found /\ o.kind \in {"update", "login"})
       THEN at' = [at EXCEPT ![t] = "key"]
       ELSE at' = [at EXCEPT ![t] = IF o.stage = "list" THEN "pick"
                                    ELSE IF found THEN "write" ELSE "unknown"]

\* Mutant of Enter: the records are read before the lock is taken.
EnterUnlocked(t) ==
  /\ at[t] = "enter"
  /\ Reads(t, store)
  /\ UNCHANGED <<store, key, lock, calls, op, fernet, was, history>>

\* Takes the lock and reads the file, in one step: the lock protects nothing
\* else.
Enter(t) ==
  /\ at[t] = "enter"
  /\ lock[Home[t]] = Nobody
  /\ lock' = [lock EXCEPT ![Home[t]] = t]
  /\ Reads(t, store)
  /\ UNCHANGED <<store, key, calls, op, fernet, was, history>>

NotFound(t) ==
  /\ at[t] = "unknown"
  /\ Returns(t, "notFound")
  /\ UNCHANGED <<store, key, calls, history>>

After(t) == IF op[t].kind = "login" THEN "pick" ELSE "write"

-----------------------------------------------------------------------------
(* _fernet.                                                                *)

ReadKey(t) ==
  /\ at[t] = "key"
  /\ IF key = NoKey
     THEN Goes(t, "orphans") /\ UNCHANGED fernet
     ELSE IF key = Empty
     THEN Returns(t, "storeError")
     ELSE Goes(t, After(t)) /\ fernet' = [fernet EXCEPT ![t] = key]
  /\ UNCHANGED <<store, key, calls, history>>

\* Mutant of NoOrphans: a fresh key is made whatever is saved.
NoOrphansUnchecked(S) == TRUE

\* No login would be left without its key.
NoOrphans(S) == S = {}

\* The file is read again, after the look at the key.
CheckOrphans(t) ==
  /\ at[t] = "orphans"
  /\ IF NoOrphans(store) /\ op[t].kind = "create"
     THEN Goes(t, "make") /\ UNCHANGED fernet
     ELSE Returns(t, "storeError")
  /\ UNCHANGED <<store, key, calls, history>>

\* O_CREAT | O_EXCL: an empty file, FileExistsError, or no permission.
MakeKey(t) ==
  /\ at[t] = "make"
  /\ IF key = NoKey
     THEN \/ key' = Empty /\ Goes(t, "fill") /\ UNCHANGED fernet
          \/ Returns(t, "notSaved") /\ UNCHANGED key
     ELSE Goes(t, "lost") /\ UNCHANGED <<key, fernet>>
  /\ UNCHANGED <<store, calls, history>>

\* The bytes reach the file when it is closed; a write may fail.
FillKey(t) ==
  /\ at[t] = "fill"
  /\ \/ /\ key' = op[t].n
        /\ fernet' = [fernet EXCEPT ![t] = op[t].n]
        /\ Goes(t, "write")
     \/ Returns(t, "notSaved") /\ UNCHANGED key
  /\ UNCHANGED <<store, calls, history>>

\* Mutant of TakeOtherKey: whatever is read is taken for a key.
TakeOtherKeyUnchecked(t) ==
  /\ at[t] = "lost"
  /\ Goes(t, "write") /\ fernet' = [fernet EXCEPT ![t] = key]
  /\ UNCHANGED <<store, key, calls, history>>

\* The loser of the race reads the winner's file; Fernet(b"") is a ValueError.
TakeOtherKey(t) ==
  /\ at[t] = "lost"
  /\ IF key = Empty
     THEN Returns(t, "valueError")
     ELSE Goes(t, "write") /\ fernet' = [fernet EXCEPT ![t] = key]
  /\ UNCHANGED <<store, key, calls, history>>

-----------------------------------------------------------------------------
(* _write_records: a temporary file that replaces the store.               *)

\* create and update then decrypt the user name for their answer.
Readable(S, o, k) ==
  o.kind = "delete" \/ \A r \in S : r.id \in {o.cid, o.n} => r.key = k

Write(t) ==
  /\ at[t] = "write"
  /\ \/ LET o == op[t]
            new == Written(records[t], o, fernet[t])
        IN /\ store' = new
           /\ want' = Written(want, o, fernet[t])
           /\ writers' = writers \cup {Home[t]}
           /\ was' = [u \in Thread |-> IF u = t \/ at[u] = "idle" THEN {}
                                     ELSE was[u] \cup Single(new, op[u].bank)]
           /\ Ends(t, IF Readable(new, o, fernet[t]) THEN "saved" ELSE "storeError")
           /\ Release(t)
     \/ Returns(t, "notSaved") /\ UNCHANGED <<store, history>>
  /\ UNCHANGED <<key, calls>>

-----------------------------------------------------------------------------
(* resolve_login, with what list_logins or resolve found.                  *)

Decrypts(t, S) == \A r \in S : r.key = fernet[t]

\* Mutant of Choose: any saved login will do.
ChooseAny(t, S) ==
  IF S = {} THEN Returns(t, IF op[t].bank \in EnvBank THEN "env" ELSE "none saved")
  ELSE \E r \in S :
         /\ op' = [op EXCEPT ![t].cid = r.id, ![t].stage = "only"]
         /\ at' = [at EXCEPT ![t] = "enter"]
         /\ Release(t)
         /\ answer' = NoAnswer
         /\ UNCHANGED <<records, fernet, was>>

\* The only saved login is resolved under its id, once the lock was left.
Choose(t, S) ==
  IF S = {} THEN Returns(t, IF op[t].bank \in EnvBank THEN "env" ELSE "none saved")
  ELSE IF Cardinality(S) > 1 THEN Returns(t, "ambiguous")
  ELSE \E r \in S :
         /\ op' = [op EXCEPT ![t].cid = r.id, ![t].stage = "only"]
         /\ at' = [at EXCEPT ![t] = "enter"]
         /\ Release(t)
         /\ answer' = NoAnswer
         /\ UNCHANGED <<records, fernet, was>>

PickListed(t) ==
  /\ at[t] = "pick" /\ op[t].stage = "list"
  /\ LET S == OfBank(records[t], op[t].bank)
     IN IF Decrypts(t, S) THEN Choose(t, S) ELSE Returns(t, "storeError")
  /\ UNCHANGED <<store, key, calls, history>>

Resolve(t) ==
  /\ at[t] = "pick" /\ op[t].stage \in {"resolve", "only"}
  /\ \E r \in records[t] :
       /\ r.id = op[t].cid
       /\ IF ~Decrypts(t, {r}) THEN Returns(t, "storeError")
          ELSE IF r.bank # op[t].bank THEN Returns(t, "wrong bank")
          ELSE Returns(t, "login")
  /\ UNCHANGED <<store, key, calls, history>>

-----------------------------------------------------------------------------
\* A process dies and is started again.  Its threads' locals and lock go.
Crash(p) ==
  LET ours == {t \in Thread : Home[t] = p} IN
  /\ \E t \in ours : at[t] # "idle"
  /\ at' = [t \in Thread |-> IF t \in ours THEN "idle" ELSE at[t]]
  /\ op' = [t \in Thread |-> IF t \in ours THEN NoOp ELSE op[t]]
  /\ records' = [t \in Thread |-> IF t \in ours THEN {} ELSE records[t]]
  /\ fernet' = [t \in Thread |-> IF t \in ours THEN NoKey ELSE fernet[t]]
  /\ was' = [t \in Thread |-> IF t \in ours THEN {} ELSE was[t]]
  /\ answer' = NoAnswer
  /\ lock' = [lock EXCEPT ![p] = Nobody]
  /\ UNCHANGED <<store, key, calls, history>>

\* credentials.json is restored from a backup without its key, or the key is
\* deleted, while nothing runs.
LoseKey ==
  /\ key # NoKey /\ \A t \in Thread : at[t] = "idle"
  /\ key' = NoKey
  /\ answer' = NoAnswer
  /\ UNCHANGED <<store, lock, calls, threads, history>>

Init ==
  /\ store = {}
  /\ key = NoKey
  /\ lock = [p \in Process |-> Nobody]
  /\ calls = 0
  /\ at = [t \in Thread |-> "idle"]
  /\ op = [t \in Thread |-> NoOp]
  /\ records = [t \in Thread |-> {}]
  /\ fernet = [t \in Thread |-> NoKey]
  /\ answer = NoAnswer
  /\ want = {}
  /\ writers = {}
  /\ was = [t \in Thread |-> {}]

GoOn(t) ==
  \/ Enter(t) \/ NotFound(t)
  \/ ReadKey(t) \/ CheckOrphans(t) \/ MakeKey(t) \/ FillKey(t) \/ TakeOtherKey(t)
  \/ Write(t) \/ PickListed(t) \/ Resolve(t)

Next ==
  \/ \E t \in Thread : Create(t) \/ Update(t) \/ Delete(t) \/ Login(t) \/ GoOn(t)
  \/ \E p \in Process : Crash(p)
  \/ LoseKey

Spec == Init /\ [][Next]_vars

-----------------------------------------------------------------------------
Places == {"idle", "enter", "unknown", "key", "orphans", "make", "fill", "lost", "write", "pick"}
Kinds  == {"none", "notFound", "storeError", "notSaved", "valueError", "saved", "env",
           "none saved", "ambiguous", "wrong bank", "login"}

TypeOK ==
  /\ store \subseteq Record /\ want \subseteq Record
  /\ key \in Calls \cup {NoKey, Empty}
  /\ lock \in [Process -> Thread \cup {Nobody}]
  /\ calls \in 0 .. MaxCalls
  /\ at \in [Thread -> Places]
  /\ op \in [Thread -> [kind : {"none", "create", "update", "delete", "login"},
                        bank : Bank, cid : 0 .. MaxCalls, n : 0 .. MaxCalls,
                        stage : {"none", "write", "label", "secrets", "list", "resolve", "only"}]]
  /\ records \in [Thread -> SUBSET Record]
  /\ fernet \in [Thread -> Calls \cup {NoKey}]
  /\ answer.to \in Thread \cup {Nobody} /\ answer.kind \in Kinds
  /\ writers \subseteq Process
  /\ was \in [Thread -> SUBSET (0 .. MaxCalls)]

(* As long as one process only has saved anything, no save, change or        *)
(* removal is undone by another that ran at the same time, nor by a crash or *)
(* a failed write at any point of one.                                       *)
SavesSurvive == Cardinality(writers) <= 1 => store = want

(* The key on disk is the key of every saved login on disk: neither two      *)
(* processes saving their first login at once, nor a crash or a lost key in  *)
(* between, leave one that the present key cannot decrypt.  (A login that    *)
(* one process has removed and another has brought back may be one: it read  *)
(* the file before, and looked for orphans after.)                           *)
KeyFits == key \in Calls => \A r \in store \cap want : r.key = key

(* A sign-in that names no login uses the bank's only saved one, and turns   *)
(* to the environment or gives up when none is saved: whatever is saved or   *)
(* removed while it looks twice, what it did was right at some moment of the *)
(* call.                                                                     *)
LoginIsRight ==
  [][\A t \in Thread : answer'.to = t =>
       /\ answer'.kind \in {"env", "none saved"} => 0 \in was[t]
       /\ answer'.kind = "login" /\ answer'.stage = "only" => answer'.id \in was[t]]_vars

(* store.py:286 "Another process won the race; use its key": the process     *)
(* that loses the race for the key does save its login.                      *)
LoserUsesTheKey == answer.kind # "valueError"
=============================================================================
