----------------------- MODULE CredentialStoreProofs ------------------------
(***************************************************************************)
(* Proofs about the saved logins: for any number of processes, threads and *)
(* calls, no save is undone while one process saves, every saved login can *)
(* be decrypted, and a sign-in picks the right one.                        *)
(*                                                                         *)
(* What a thread has read may be out of date in three ways, and each       *)
(* property needs to know how much.  Own: within one process it is not,    *)
(* thanks to the lock.  Sealed and Open: across processes the records may  *)
(* be stale, but of the logins that nobody has removed they hold the same, *)
(* until there is a key, and thereafter all have that key.  Witnessed:     *)
(* what was read was the state of the store at some moment of the call.    *)
(***************************************************************************)
EXTENDS CredentialStore, FiniteSetTheorems, TLAPS

\* Where a thread holds its process's lock and has read the records.
Inside == Places \ {"idle", "enter"}

Ids(S) == {r.id : r \in S}
Wanted == Ids(want)

\* A thread's call, and the places it may come to.
Fits(t) ==
  /\ at[t] = "idle" => op[t] = NoOp
  /\ at[t] # "idle" => op[t].kind # "none"
  /\ op[t].kind \in {"create", "update"} => op[t].n \in Calls
  /\ op[t].kind = "create" => op[t].stage = "write"
  /\ op[t].kind = "login" <=> op[t].stage \in {"list", "resolve", "only"}
  /\ at[t] \in {"make", "fill", "lost"} => op[t].kind = "create"
  /\ at[t] = "write" => op[t].kind \in {"create", "update", "delete"}
  /\ at[t] = "pick" => op[t].kind = "login"

Calling == \A t \in Thread : Fits(t)

Finite == IsFiniteSet(store) /\ IsFiniteSet(writers) /\ \A t \in Thread : IsFiniteSet(records[t])

Locked == \A t \in Thread : at[t] \in Inside => lock[Home[t]] = t

\* While no other process has written, a thread has read what is there.
Own ==
  /\ \A t \in Thread : at[t] \in Inside /\ writers \subseteq {Home[t]} => records[t] = store
  /\ (\A p, q \in writers : p = q) => store = want

\* The number of a call that creates is new, and its own.
Numbered ==
  /\ \A i \in Ids(store) \cup Wanted : i <= calls
  /\ \A t \in Thread : op[t].n <= calls /\ \A i \in Ids(records[t]) : i <= calls
  /\ \A t \in Thread : op[t].kind = "create" =>
       /\ op[t].n \notin Ids(store) \cup Wanted
       /\ \A u \in Thread : op[t].n \notin Ids(records[u])
       /\ \A u \in Thread : op[u].n = op[t].n => u = t

\* The key: one thread makes it, and who encrypts has the one on disk.
Keyed ==
  /\ \A t \in Thread : at[t] = "fill" => key = Empty
  /\ \A t, u \in Thread : at[t] = "fill" /\ at[u] = "fill" => t = u
  /\ \A t \in Thread : at[t] = "lost" => key # NoKey
  /\ \A t \in Thread : at[t] = "write" /\ op[t].kind # "delete" => key \in Calls /\ fernet[t] = key

\* With a key: every login that is wanted has it, on disk and in what was read.
Sealed ==
  key \in Calls =>
    /\ \A r \in store : r.id \in Wanted => r.key = key
    /\ \A t \in Thread : at[t] \in Inside => \A r \in records[t] : r.id \in Wanted => r.key = key

\* Without one nothing can be added: whoever has read has read all the wanted
\* logins that are on disk, and who makes the key has seen that there are none.
Open ==
  key \notin Calls => \A t \in Thread :
    /\ at[t] \in Inside => Ids(records[t]) \cap Wanted = Ids(store) \cap Wanted
    /\ at[t] \in {"make", "fill"} => Ids(store) \cap Wanted = {}

\* What a login is decided by was so during the call.
Witnessed ==
  \A t \in Thread :
    /\ at[t] # "idle" => Single(store, op[t].bank) \subseteq was[t]
    /\ at[t] \in Inside => Single(records[t], op[t].bank) \subseteq was[t]
    /\ op[t].stage = "only" => op[t].cid \in was[t]

IInv ==
  /\ TypeOK /\ Calling /\ Finite /\ Locked /\ Own
  /\ Numbered /\ Keyed /\ Sealed /\ Open /\ Witnessed

-----------------------------------------------------------------------------
(* The pure parts.                                                         *)

LEMMA NoOpType ==
  /\ NoOp.bank \in Bank /\ AnyBank \in Bank
  /\ NoOp.kind = "none" /\ NoOp.cid = 0 /\ NoOp.n = 0 /\ NoOp.stage = "none"
  /\ NoOp \in [kind : {"none", "create", "update", "delete", "login"}, bank : Bank,
               cid : 0 .. MaxCalls, n : 0 .. MaxCalls,
               stage : {"none", "write", "label", "secrets", "list", "resolve", "only"}]
BY StoreAssumption DEF NoOp, AnyBank

CallType == [kind : {"none", "create", "update", "delete", "login"}, bank : Bank,
             cid : 0 .. MaxCalls, n : 0 .. MaxCalls,
             stage : {"none", "write", "label", "secrets", "list", "resolve", "only"}]

\* A call that goes on to resolve the login it has picked is a call.
LEMMA PickedType ==
  ASSUME NEW f \in [Thread -> CallType], NEW t \in Thread, NEW i \in 0 .. MaxCalls
  PROVE  [f EXCEPT ![t].cid = i, ![t].stage = "only"] \in [Thread -> CallType]
<1>1. f[t] \in CallType
  OBVIOUS
<1>2. [f[t] EXCEPT !.cid = i, !.stage = "only"] \in CallType
  BY ONLY <1>1 DEF CallType
<1>3. [f EXCEPT ![t].cid = i, ![t].stage = "only"] = [f EXCEPT ![t] = [f[t] EXCEPT !.cid = i, !.stage = "only"]]
  OBVIOUS
<1> QED BY ONLY <1>2, <1>3, f \in [Thread -> CallType]

\* A finite set of at most one element has no two.
LEMMA AtMostOne ==
  ASSUME NEW S, IsFiniteSet(S), Cardinality(S) <= 1
  PROVE  \A x, y \in S : x = y
<1> SUFFICES ASSUME NEW x \in S, NEW y \in S, x # y PROVE FALSE
  OBVIOUS
<1>1. {x, y} \subseteq S
  OBVIOUS
<1>2. IsFiniteSet({x, y}) /\ Cardinality({x, y}) <= Cardinality(S)
  BY <1>1, FS_Subset
<1>3. Cardinality({x} \cup {y}) = Cardinality({x}) + 1
  BY FS_Singleton, FS_AddElement
<1>4. {x, y} = {x} \cup {y}
  OBVIOUS
<1>5. Cardinality({x}) = 1 /\ Cardinality(S) \in Nat
  BY FS_Singleton, FS_CardinalityType
<1> QED BY <1>2, <1>3, <1>4, <1>5

LEMMA SingleOfNone == ASSUME NEW S, NEW b, OfBank(S, b) = {} PROVE Single(S, b) = {0}
BY DEF Single

LEMMA SingleOfOne == ASSUME NEW S, NEW b, NEW r, OfBank(S, b) = {r} PROVE Single(S, b) = {r.id}
BY DEF Single

LEMMA SingleType == ASSUME NEW S \in SUBSET Record, NEW b PROVE Single(S, b) \subseteq 0 .. MaxCalls
BY StoreAssumption DEF Single, Record, Calls, OfBank

\* What a write does to the records it is given.
LEMMA WrittenCreate ==
  ASSUME NEW S, NEW o, NEW k, o.kind = "create"
  PROVE  Written(S, o, k) = S \cup {[id |-> o.n, bank |-> o.bank, rev |-> o.n, key |-> k]}
BY DEF Written

LEMMA WrittenUpdate ==
  ASSUME NEW S, NEW o, NEW k, o.kind = "update"
  PROVE  Written(S, o, k) = {Changed(r, o, k) : r \in S}
BY DEF Written

LEMMA WrittenDelete ==
  ASSUME NEW S, NEW o, NEW k, o.kind = "delete"
  PROVE  Written(S, o, k) = {r \in S : r.id # o.cid}
BY DEF Written

LEMMA WrittenFinite ==
  ASSUME NEW S, IsFiniteSet(S), NEW o, NEW k, o.kind \in {"create", "update", "delete"}
  PROVE  IsFiniteSet(Written(S, o, k))
<1>1. CASE o.kind = "create"
  <2> DEFINE new == [id |-> o.n, bank |-> o.bank, rev |-> o.n, key |-> k]
  <2>1. Written(S, o, k) = S \cup {new}
    BY <1>1, WrittenCreate
  <2> HIDE DEF new
  <2> QED BY <2>1, FS_AddElement
<1>2. CASE o.kind = "update"
  <2> DEFINE f == [r \in S |-> Changed(r, o, k)]
  <2>1. f \in Surjection(S, Written(S, o, k))
    BY <1>2, WrittenUpdate DEF Surjection
  <2> QED BY <2>1, FS_Surjection
<1>3. CASE o.kind = "delete"
  BY <1>3, WrittenDelete, FS_Subset
<1> QED BY <1>1, <1>2, <1>3

LEMMA WrittenType ==
  ASSUME NEW S \in SUBSET Record, NEW o, NEW k, o.bank \in Bank,
         o.kind \in {"create", "update", "delete"},
         o.kind # "delete" => o.n \in Calls /\ k \in Calls
  PROVE  Written(S, o, k) \subseteq Record
<1>1. CASE o.kind = "create"
  BY <1>1, WrittenCreate DEF Record
<1>2. CASE o.kind = "update"
  <2>1. \A r \in Record : Changed(r, o, k) \in Record
    BY <1>2 DEF Changed, Record
  <2> QED BY <1>2, <2>1, WrittenUpdate
<1>3. CASE o.kind = "delete"
  BY <1>3, WrittenDelete
<1> QED BY <1>1, <1>2, <1>3

\* The ids it leaves.
LEMMA WrittenIds ==
  ASSUME NEW S, NEW o, NEW k
  PROVE  /\ o.kind = "create" => Ids(Written(S, o, k)) = Ids(S) \cup {o.n}
         /\ o.kind = "update" => Ids(Written(S, o, k)) = Ids(S)
         /\ o.kind = "delete" => Ids(Written(S, o, k)) = Ids(S) \ {o.cid}
<1>1. CASE o.kind = "create"
  <2> DEFINE new == [id |-> o.n, bank |-> o.bank, rev |-> o.n, key |-> k]
  <2>1. Written(S, o, k) = S \cup {new} /\ new.id = o.n
    BY <1>1, WrittenCreate
  <2> HIDE DEF new
  <2> QED BY <1>1, <2>1 DEF Ids
<1>2. CASE o.kind = "update"
  <2>1. \A r : Changed(r, o, k).id = r.id
    BY DEF Changed
  <2> QED BY <1>2, <2>1, WrittenUpdate DEF Ids
<1>3. CASE o.kind = "delete"
  BY <1>3, WrittenDelete DEF Ids
<1> QED BY <1>1, <1>2, <1>3

\* A record it leaves was there with its key, or has the key of the call.
LEMMA WrittenKeys ==
  ASSUME NEW S, NEW o, NEW k, o.kind \in {"create", "update", "delete"}, NEW r \in Written(S, o, k)
  PROVE  r.key = k \/ \E x \in S : x.id = r.id /\ x.key = r.key
<1>1. CASE o.kind = "create"
  BY <1>1, WrittenCreate
<1>2. CASE o.kind = "update"
  BY <1>2, WrittenUpdate DEF Changed
<1>3. CASE o.kind = "delete"
  BY <1>3, WrittenDelete
<1> QED BY <1>1, <1>2, <1>3

-----------------------------------------------------------------------------
(* The invariant.                                                          *)

\* It says what the properties say.
LEMMA InvariantSuffices == IInv => TypeOK /\ SavesSurvive /\ KeyFits
<1> SUFFICES ASSUME IInv PROVE TypeOK /\ SavesSurvive /\ KeyFits
  OBVIOUS
<1>1. SavesSurvive
  BY AtMostOne DEF IInv, Finite, Own, SavesSurvive
<1>2. KeyFits
  BY DEF IInv, Sealed, KeyFits, Wanted, Ids
<1> QED BY <1>1, <1>2 DEF IInv

LEMMA Initially == Init => IInv
<1> SUFFICES ASSUME Init PROVE IInv
  OBVIOUS
<1> USE StoreAssumption, NoOpType DEF Init
<1>1. TypeOK
  BY DEF TypeOK, NoKey, NoAnswer, Places, Kinds
<1>2. Calling /\ Locked /\ Keyed
  BY DEF Calling, Fits, Locked, Inside, Keyed
<1>3. Finite
  BY FS_EmptySet DEF Finite
<1>4. Own /\ Numbered /\ Sealed /\ Open /\ Witnessed
  BY DEF Own, Numbered, Sealed, Open, Witnessed, Inside, Ids, Wanted, Calls
<1> QED BY <1>1, <1>2, <1>3, <1>4 DEF IInv

\* While store and key stay as they are, all that counts is who holds which
\* records, and that whoever goes to make the key has found none wanted.
LEMMA SealStays ==
  ASSUME Sealed, Open, UNCHANGED <<store, want, key>>,
         \A u \in Thread : at'[u] \in Inside =>
           (at[u] \in Inside /\ records'[u] = records[u]) \/ records'[u] = store,
         \A u \in Thread : at'[u] \in {"make", "fill"} => at[u] \in {"make", "fill"} \/ store = {}
  PROVE  Sealed' /\ Open'
<1>1. Wanted' = Wanted /\ Ids(store)' = Ids(store)
  BY DEF Wanted, Ids
<1>2. Sealed'
  BY <1>1 DEF Sealed
<1>3. Open'
  <2> SUFFICES ASSUME key \notin Calls, NEW t \in Thread
               PROVE  /\ at'[t] \in Inside => Ids(records'[t]) \cap Wanted = Ids(store) \cap Wanted
                      /\ at'[t] \in {"make", "fill"} => Ids(store) \cap Wanted = {}
    <3>1. \A t \in Thread : Ids(records[t])' = Ids(records'[t])
      BY DEF Ids
    <3> QED BY <1>1, <3>1 DEF Open
  <2>1. at'[t] \in Inside => Ids(records'[t]) \cap Wanted = Ids(store) \cap Wanted
    BY DEF Open
  <2>2. at'[t] \in {"make", "fill"} => Ids(store) \cap Wanted = {}
    BY DEF Open, Ids
  <2> QED BY <2>1, <2>2
<1> QED BY <1>2, <1>3

\* A call returns and leaves store and key as they are.
LEMMA ReturnsKeeps ==
  ASSUME IInv, NEW t \in Thread, at[t] \in Inside, NEW kind \in Kinds, Returns(t, kind),
         UNCHANGED <<store, key, calls, history>>
  PROVE  IInv'
<1> USE StoreAssumption, NoOpType DEF IInv, Returns, Ends, Release, history
<1>1. TypeOK'
  BY DEF TypeOK, NoKey, Places
<1>2. Calling'
  BY DEF Calling, Fits, TypeOK
<1>3. Finite'
  BY FS_EmptySet DEF Finite, TypeOK
<1>4. \A u \in Thread : u # t /\ at[u] \in Inside => Home[u] # Home[t]
  BY DEF Locked
<1>5. Locked'
  BY <1>4 DEF Locked, Inside, TypeOK
<1>6. Own'
  BY DEF Own, Inside, TypeOK
<1>7. Numbered'
  BY DEF Numbered, Calling, Fits, Ids, Wanted, Calls, TypeOK
<1>8. Keyed'
  BY DEF Keyed, TypeOK
<1>9. Sealed' /\ Open'
  <2>1. \A u \in Thread : at'[u] \in Inside => at[u] \in Inside /\ records'[u] = records[u]
    BY DEF Inside, TypeOK
  <2>2. \A u \in Thread : at'[u] \in {"make", "fill"} => at[u] \in {"make", "fill"}
    BY DEF TypeOK
  <2>3. UNCHANGED <<store, want, key>>
    OBVIOUS
  <2> QED BY ONLY Sealed, Open, <2>1, <2>2, <2>3, SealStays
<1>10. Witnessed'
  BY DEF Witnessed, Inside, TypeOK
<1> QED BY <1>1, <1>2, <1>3, <1>5, <1>6, <1>7, <1>8, <1>9, <1>10

\* What place a call may go on to, inside the lock, with the key as it is.
MayGo(t, place) ==
  /\ place \in {"orphans", "make", "lost", "write", "pick"}
  /\ place \in {"make", "lost"} => op[t].kind = "create"
  /\ place = "make" => store = {}
  /\ place = "lost" => key # NoKey
  /\ place = "write" => op[t].kind \in {"create", "update", "delete"}
                        /\ (op[t].kind # "delete" => key \in Calls /\ fernet'[t] = key)
  /\ place = "pick" => op[t].kind = "login"

LEMMA GoesKeeps ==
  ASSUME IInv, NEW t \in Thread, at[t] \in Inside, NEW place, Goes(t, place), MayGo(t, place),
         UNCHANGED <<store, key, calls, history>>,
         fernet' = fernet \/ (fernet' = [fernet EXCEPT ![t] = key] /\ key \in Calls)
  PROVE  IInv'
<1> USE StoreAssumption, NoOpType DEF IInv, Goes, MayGo, history
<1>1. TypeOK'
  <2>1. fernet' \in [Thread -> Calls \cup {NoKey}]
    BY DEF TypeOK
  <2>2. at' \in [Thread -> Places]
    BY DEF TypeOK, Places
  <2>3. answer' = NoAnswer /\ UNCHANGED <<store, want, key, lock, calls, op, records, writers, was>>
    BY DEF Goes
  <2> QED BY ONLY TypeOK, <2>1, <2>2, <2>3 DEF TypeOK, NoAnswer, Kinds
<1>2. Calling'
  BY DEF Calling, Fits, TypeOK, Inside
<1>3. Finite' /\ Numbered'
  BY DEF Finite, Numbered, Wanted
<1>4. Locked' /\ Own'
  BY DEF Locked, Own, Inside, TypeOK
<1>5. Keyed'
  BY DEF Keyed, TypeOK
<1>6. Sealed' /\ Open'
  <2>1. \A u \in Thread : at'[u] \in Inside => at[u] \in Inside /\ records'[u] = records[u]
    BY DEF TypeOK
  <2>2. \A u \in Thread : at'[u] \in {"make", "fill"} => at[u] \in {"make", "fill"} \/ store = {}
    BY DEF TypeOK
  <2>3. UNCHANGED <<store, want, key>>
    OBVIOUS
  <2> QED BY ONLY Sealed, Open, <2>1, <2>2, <2>3, SealStays
<1>7. Witnessed'
  BY DEF Witnessed, TypeOK, Inside
<1> QED BY <1>1, <1>2, <1>3, <1>4, <1>5, <1>6, <1>7

-----------------------------------------------------------------------------
(* Making the key.                                                         *)

LEMMA MakeKeyKeeps == ASSUME IInv, NEW t \in Thread, MakeKey(t) PROVE IInv'
<1>1. at[t] \in Inside
  BY DEF MakeKey, Inside, Places
<1>2. CASE key = NoKey /\ key' = Empty /\ Goes(t, "fill") /\ UNCHANGED fernet
  <2> USE StoreAssumption, <1>1, <1>2 DEF IInv, MakeKey, Goes, history
  <2>1. TypeOK'
    BY DEF TypeOK, Places, NoAnswer, Kinds
  <2>2. Calling' /\ Finite' /\ Numbered' /\ Locked' /\ Own'
    BY DEF Calling, Fits, Finite, Numbered, Wanted, Locked, Own, Inside, TypeOK
  <2>3. Keyed'
    BY DEF Keyed, TypeOK, Empty, NoKey, Calls
  <2>4. key \notin Calls /\ key' \notin Calls
    BY DEF Empty, NoKey, Calls
  <2>5. Sealed'
    BY <2>4 DEF Sealed, Calls
  <2>6. \A u \in Thread : /\ at'[u] \in Inside => at[u] \in Inside
                          /\ at'[u] \in {"make", "fill"} => at[u] \in {"make", "fill"}
    BY DEF TypeOK
  <2>7. Open'
    BY <2>4, <2>6 DEF Open, Wanted, Calls
  <2>8. Witnessed'
    BY DEF Witnessed, TypeOK, Inside
  <2> QED BY <2>1, <2>2, <2>3, <2>5, <2>7, <2>8
<1>3. CASE key = NoKey /\ Returns(t, "notSaved") /\ UNCHANGED key
  BY <1>1, <1>3, ReturnsKeeps DEF MakeKey, Kinds
<1>4. CASE key # NoKey
  <2>1. MayGo(t, "lost")
    BY <1>4 DEF MakeKey, MayGo, IInv, Calling, Fits
  <2> QED BY <1>1, <1>4, <2>1, GoesKeeps DEF MakeKey
<1> QED BY <1>2, <1>3, <1>4 DEF MakeKey

\* The key that is made finds no wanted login, on disk or in anybody's hands.
LEMMA FillKeyKeeps == ASSUME IInv, NEW t \in Thread, FillKey(t) PROVE IInv'
<1>1. at[t] \in Inside /\ at[t] = "fill"
  BY DEF FillKey, Inside, Places
<1>2. CASE /\ key' = op[t].n /\ fernet' = [fernet EXCEPT ![t] = op[t].n] /\ Goes(t, "write")
  <2> USE StoreAssumption, <1>1, <1>2 DEF IInv, FillKey, Goes, history
  <2>1. op[t].kind = "create" /\ op[t].n \in Calls /\ key = Empty
    BY DEF Calling, Fits, Keyed
  <2>2. key' \in Calls /\ key \notin Calls /\ Empty # NoKey
    BY <2>1 DEF Empty, Calls, NoKey
  <2>3. TypeOK'
    BY <2>1 DEF TypeOK, Places, NoAnswer, Kinds
  <2>4. Calling' /\ Finite' /\ Numbered' /\ Locked' /\ Own'
    BY <2>1 DEF Calling, Fits, Finite, Numbered, Wanted, Locked, Own, Inside, TypeOK
  <2>5. Keyed'
    BY <2>1, <2>2 DEF Keyed, TypeOK, Empty, NoKey, Calls
  <2>6. \A r \in store : r.id \notin Wanted
    BY <2>2 DEF Open, Ids
  <2>7. \A u \in Thread : at[u] \in Inside => \A r \in records[u] : r.id \notin Wanted
    BY <2>2 DEF Open, Ids
  <2>8. Sealed' /\ Open'
    BY <2>2, <2>6, <2>7 DEF Sealed, Open, Wanted, TypeOK, Inside
  <2>9. Witnessed'
    BY DEF Witnessed, TypeOK, Inside
  <2> QED BY <2>3, <2>4, <2>5, <2>8, <2>9
<1>3. CASE Returns(t, "notSaved") /\ UNCHANGED key
  BY <1>1, <1>3, ReturnsKeeps DEF FillKey, Kinds
<1> QED BY <1>2, <1>3 DEF FillKey

\* The key is lost while nothing runs.
LEMMA LoseKeyKeeps == ASSUME IInv, LoseKey PROVE IInv'
<1> USE StoreAssumption DEF IInv, LoseKey, threads, history
<1>1. TypeOK'
  BY DEF TypeOK, NoAnswer, Kinds
<1>2. Calling' /\ Finite' /\ Numbered' /\ Locked' /\ Own' /\ Witnessed'
  BY DEF Calling, Fits, Finite, Numbered, Wanted, Locked, Own, Witnessed
<1>3. Keyed' /\ Sealed' /\ Open'
  BY DEF Keyed, Sealed, Open, Inside, NoKey, Calls
<1> QED BY <1>1, <1>2, <1>3

-----------------------------------------------------------------------------
(* The other steps inside the lock.                                        *)

LEMMA NotFoundKeeps == ASSUME IInv, NEW t \in Thread, NotFound(t) PROVE IInv'
BY ReturnsKeeps DEF NotFound, Inside, Places, Kinds

LEMMA ReadKeyKeeps == ASSUME IInv, NEW t \in Thread, ReadKey(t) PROVE IInv'
<1>1. at[t] \in Inside
  BY DEF ReadKey, Inside, Places
<1>2. CASE key = NoKey
  BY <1>1, <1>2, GoesKeeps DEF ReadKey, MayGo
<1>3. CASE key = Empty /\ key # NoKey
  BY <1>1, <1>3, ReturnsKeeps DEF ReadKey, Kinds
<1>4. CASE key # Empty /\ key # NoKey
  <2>1. key \in Calls
    BY <1>4 DEF IInv, TypeOK
  <2>2. fernet' = [fernet EXCEPT ![t] = key] /\ fernet'[t] = key /\ Goes(t, After(t))
    BY <1>4 DEF ReadKey, IInv, TypeOK
  <2>3. MayGo(t, After(t))
    BY <1>1, <2>1, <2>2 DEF MayGo, After, IInv, Calling, Fits, TypeOK, ReadKey
  <2> QED BY <1>1, <2>1, <2>2, <2>3, GoesKeeps DEF ReadKey
<1> QED BY <1>2, <1>3, <1>4

LEMMA CheckOrphansKeeps == ASSUME IInv, NEW t \in Thread, CheckOrphans(t) PROVE IInv'
<1>1. at[t] \in Inside
  BY DEF CheckOrphans, Inside, Places
<1>2. CASE NoOrphans(store) /\ op[t].kind = "create"
  <2>1. MayGo(t, "make") /\ Goes(t, "make") /\ UNCHANGED fernet
    BY <1>2 DEF CheckOrphans, MayGo, NoOrphans
  <2> QED BY <1>1, <2>1, GoesKeeps DEF CheckOrphans
<1>3. CASE ~(NoOrphans(store) /\ op[t].kind = "create")
  BY <1>1, <1>3, ReturnsKeeps DEF CheckOrphans, Kinds
<1> QED BY <1>2, <1>3

LEMMA TakeOtherKeyKeeps == ASSUME IInv, NEW t \in Thread, TakeOtherKey(t) PROVE IInv'
<1>1. at[t] \in Inside
  BY DEF TakeOtherKey, Inside, Places
<1>2. CASE key = Empty
  BY <1>1, <1>2, ReturnsKeeps DEF TakeOtherKey, Kinds
<1>3. CASE key # Empty
  <2>1. key \in Calls /\ op[t].kind = "create"
    BY <1>3 DEF TakeOtherKey, IInv, TypeOK, Keyed, Calling, Fits
  <2>2. fernet' = [fernet EXCEPT ![t] = key] /\ fernet'[t] = key /\ Goes(t, "write")
    BY <1>3 DEF TakeOtherKey, IInv, TypeOK
  <2>3. MayGo(t, "write")
    BY <2>1, <2>2 DEF MayGo
  <2> QED BY <1>1, <2>1, <2>2, <2>3, GoesKeeps DEF TakeOtherKey
<1> QED BY <1>2, <1>3

LEMMA ResolveKeeps == ASSUME IInv, NEW t \in Thread, Resolve(t) PROVE IInv'
<1>1. at[t] \in Inside
  BY DEF Resolve, Inside, Places
<1>2. \E kind \in Kinds : Returns(t, kind)
  BY DEF Resolve, Kinds
<1> QED BY <1>1, <1>2, ReturnsKeeps DEF Resolve

\* A write replaces what is on disk by what the thread has read, changed; the
\* history gets the change itself.
LEMMA WriteKeeps == ASSUME IInv, NEW t \in Thread, Write(t) PROVE IInv'
<1>1. at[t] \in Inside /\ at[t] = "write" /\ op[t].kind \in {"create", "update", "delete"}
  BY DEF Write, Inside, Places, IInv, Calling, Fits
<1> DEFINE o   == op[t]
           k   == fernet[t]
           new == Written(records[t], o, k)
<1>2. CASE /\ store' = new /\ want' = Written(want, o, k) /\ writers' = writers \cup {Home[t]}
           /\ was' = [u \in Thread |-> IF u = t \/ at[u] = "idle" THEN {}
                                       ELSE was[u] \cup Single(new, op[u].bank)]
           /\ Ends(t, IF Readable(new, o, k) THEN "saved" ELSE "storeError")
           /\ Release(t)
  <2> USE StoreAssumption, NoOpType DEF IInv
  <2>1. PICK kind \in Kinds :
          /\ answer' = [to |-> t, kind |-> kind, id |-> op[t].cid, stage |-> op[t].stage]
          /\ at' = [at EXCEPT ![t] = "idle"] /\ op' = [op EXCEPT ![t] = NoOp]
          /\ records' = [records EXCEPT ![t] = {}] /\ fernet' = [fernet EXCEPT ![t] = NoKey]
          /\ lock' = [lock EXCEPT ![Home[t]] = Nobody] /\ UNCHANGED <<key, calls>>
    BY <1>2 DEF Ends, Release, Write, Kinds
  <2>2. /\ o.bank \in Bank /\ records[t] \in SUBSET Record /\ want \in SUBSET Record
        /\ o.kind # "delete" => o.n \in Calls /\ k \in Calls /\ k = key
    BY <1>1 DEF TypeOK, Calling, Fits, Keyed
  <2>3. new \in SUBSET Record /\ want' \in SUBSET Record
    BY <1>1, <1>2, <2>2, WrittenType
  <2>4. /\ o.kind = "create" => Ids(new) = Ids(records[t]) \cup {o.n} /\ Wanted' = Wanted \cup {o.n}
        /\ o.kind = "update" => Ids(new) = Ids(records[t]) /\ Wanted' = Wanted
        /\ o.kind = "delete" => Ids(new) = Ids(records[t]) \ {o.cid} /\ Wanted' = Wanted \ {o.cid}
    <3>1. /\ o.kind = "create" => Ids(new) = Ids(records[t]) \cup {o.n}
          /\ o.kind = "update" => Ids(new) = Ids(records[t])
          /\ o.kind = "delete" => Ids(new) = Ids(records[t]) \ {o.cid}
      BY ONLY WrittenIds
    <3>2. /\ o.kind = "create" => Ids(Written(want, o, k)) = Ids(want) \cup {o.n}
          /\ o.kind = "update" => Ids(Written(want, o, k)) = Ids(want)
          /\ o.kind = "delete" => Ids(Written(want, o, k)) = Ids(want) \ {o.cid}
      BY ONLY WrittenIds
    <3>3. Wanted = Ids(want) /\ Wanted' = Ids(want')
      BY ONLY DEF Wanted, Ids
    <3> HIDE DEF new, o, k
    <3> QED BY ONLY <1>2, <3>1, <3>2, <3>3
  <2>5. /\ \A r \in new : r.key = k \/ \E x \in records[t] : x.id = r.id /\ x.key = r.key
        /\ o.kind = "delete" => new \subseteq records[t]
    BY <1>1, WrittenKeys, WrittenDelete
  <2>6. \A u \in Thread : u # t /\ at[u] \in Inside => Home[u] # Home[t]
    BY <1>1 DEF Locked
  <2>7. /\ \A u \in Thread : u # t => /\ at'[u] = at[u] /\ op'[u] = op[u] /\ records'[u] = records[u]
                                      /\ fernet'[u] = fernet[u]
                                      /\ at[u] # "idle" => was'[u] = was[u] \cup Single(new, op[u].bank)
        /\ at'[t] = "idle" /\ op'[t] = NoOp /\ records'[t] = {}
    BY <1>2, <2>1 DEF TypeOK
  <2>8. IsFiniteSet(new)
    BY <1>1, WrittenFinite DEF Finite
  <2> HIDE DEF new
  <2>9. TypeOK'
    <3>1. was' \in [Thread -> SUBSET (0 .. MaxCalls)]
      <4>1. \A b : Single(new, b) \subseteq 0 .. MaxCalls
        BY <2>3, SingleType
      <4> QED BY <1>2, <4>1 DEF TypeOK
    <3>2. lock' \in [Process -> Thread \cup {Nobody}] /\ at' \in [Thread -> Places]
      BY <2>1 DEF TypeOK, Places
    <3>3. writers' \subseteq Process /\ records' \in [Thread -> SUBSET Record]
          /\ fernet' \in [Thread -> Calls \cup {NoKey}]
      BY <1>2, <2>1 DEF TypeOK
    <3>4. op' \in [Thread -> [kind : {"none", "create", "update", "delete", "login"}, bank : Bank,
                              cid : 0 .. MaxCalls, n : 0 .. MaxCalls,
                              stage : {"none", "write", "label", "secrets", "list", "resolve", "only"}]]
      BY <2>1 DEF TypeOK
    <3> QED BY <1>2, <2>1, <2>3, <3>1, <3>2, <3>3, <3>4 DEF TypeOK
  <2>10. Calling'
    BY <2>7 DEF Calling, Fits
  <2>11. Finite'
    BY <1>2, <2>7, <2>8, FS_AddElement, FS_EmptySet DEF Finite
  <2>12. Locked'
    BY <2>1, <2>6, <2>7 DEF Locked, Inside, TypeOK
  <2>13. Own'
    <3>1. ASSUME NEW u \in Thread, at'[u] \in Inside PROVE ~(writers' \subseteq {Home[u]})
      BY <1>2, <2>6, <2>7, <3>1 DEF Inside
    <3>2. ASSUME \A p, q \in writers' : p = q PROVE store' = want'
      <4>1. writers \subseteq {Home[t]} /\ \A p, q \in writers : p = q
        BY <1>2, <3>2
      <4>2. records[t] = store /\ store = want
        BY <1>1, <4>1 DEF Own
      <4> QED BY <1>2, <4>2 DEF new
    <3> QED BY <3>1, <3>2 DEF Own
  <2>14. Numbered'
    <3>1. Ids(store') \cup Wanted' \subseteq Ids(records[t]) \cup Wanted \cup (IF o.kind = "create" THEN {o.n} ELSE {})
      BY <1>1, <1>2, <2>4
    <3>2. Ids(records'[t]) = {}
      BY <2>7 DEF Ids
    <3>3. \A u \in Thread : Ids(records'[u]) \subseteq Ids(records[u])
      BY <2>7, <3>2
    <3>4. \A i \in Ids(store') \cup Wanted' : i <= calls'
      BY <2>1, <3>1 DEF Numbered
    <3>5. \A u \in Thread : op'[u].n <= calls' /\ \A i \in Ids(records'[u]) : i <= calls'
      BY <2>1, <2>7, <3>3 DEF Numbered, TypeOK
    <3>6. ASSUME NEW u \in Thread, op'[u].kind = "create"
          PROVE  /\ op'[u].n \notin Ids(store') \cup Wanted'
                 /\ \A v \in Thread : op'[u].n \notin Ids(records'[v])
                 /\ \A v \in Thread : op'[v].n = op'[u].n => v = u
      <4>1. u # t /\ op'[u] = op[u] /\ op[u].n \in Calls /\ op[u].kind = "create"
        BY <2>7, <3>6 DEF Calling, Fits
      <4>2. op[u].n # o.n
        BY <4>1 DEF Numbered
      <4> QED BY <2>7, <3>1, <3>3, <4>1, <4>2 DEF Numbered, Calls
    <3> QED BY <3>4, <3>5, <3>6 DEF Numbered, Wanted, Ids
  <2>15. Keyed'
    BY <2>1, <2>7 DEF Keyed
  <2>16. Sealed'
    <3> SUFFICES ASSUME key \in Calls
                 PROVE  /\ \A r \in store' : r.id \in Wanted' => r.key = key
                        /\ \A u \in Thread : at'[u] \in Inside => \A r \in records'[u] : r.id \in Wanted' => r.key = key
      BY <2>1 DEF Sealed, Wanted, Ids
    <3>1. \A u \in Thread, r \in Record : r \in records[u] /\ r.id \in Wanted' => r.id \in Wanted
      BY <1>1, <2>4 DEF Numbered, Ids
    <3>2. \A u \in Thread, r \in Record : at[u] \in Inside /\ r \in records[u] /\ r.id \in Wanted' => r.key = key
      BY <3>1 DEF Sealed
    <3>3. ASSUME NEW r \in store', r.id \in Wanted' PROVE r.key = key
      <4>1. CASE o.kind = "delete"
        BY <1>1, <1>2, <2>3, <2>5, <3>2, <3>3, <4>1
      <4>2. CASE o.kind # "delete"
        BY <1>1, <1>2, <2>2, <2>5, <3>2, <3>3, <4>2
      <4> QED BY <4>1, <4>2
    <3>4. ASSUME NEW u \in Thread, at'[u] \in Inside, NEW r \in records'[u], r.id \in Wanted'
          PROVE  r.key = key
      BY <2>7, <3>2, <3>4 DEF Inside, TypeOK
    <3> QED BY <3>3, <3>4
  <2>17. Open'
    <3> SUFFICES ASSUME key \notin Calls, NEW u \in Thread
                 PROVE  /\ at'[u] \in Inside => Ids(records'[u]) \cap Wanted' = Ids(store') \cap Wanted'
                        /\ at'[u] \in {"make", "fill"} => Ids(store') \cap Wanted' = {}
      BY <2>1 DEF Open, Wanted, Ids
    <3>1. o.kind = "delete"
      BY <2>2
    <3>2. Ids(store') = Ids(records[t]) \ {o.cid} /\ Wanted' = Wanted \ {o.cid}
      BY <1>2, <2>4, <3>1
    <3>3. Ids(records[t]) \cap Wanted = Ids(store) \cap Wanted
      BY <1>1 DEF Open
    <3>4. Ids(store') \cap Wanted' = (Ids(store) \cap Wanted) \ {o.cid}
      BY <3>2, <3>3
    <3>5. at'[u] \in Inside => u # t /\ at[u] \in Inside /\ records'[u] = records[u]
      BY <2>7 DEF Inside
    <3> QED BY <2>7, <3>2, <3>4, <3>5 DEF Open, Inside
  <2>18. Witnessed'
    <3> SUFFICES ASSUME NEW u \in Thread
                 PROVE  /\ at'[u] # "idle" => Single(store', op'[u].bank) \subseteq was'[u]
                        /\ at'[u] \in Inside => Single(records'[u], op'[u].bank) \subseteq was'[u]
                        /\ op'[u].stage = "only" => op'[u].cid \in was'[u]
      BY DEF Witnessed
    <3>1. CASE u = t
      BY <2>7, <3>1 DEF Inside
    <3>2. CASE u # t /\ at[u] # "idle"
      <4>1. /\ at'[u] = at[u] /\ op'[u] = op[u] /\ records'[u] = records[u]
            /\ was'[u] = was[u] \cup Single(new, op[u].bank)
        BY <2>7, <3>2
      <4> QED BY <1>2, <3>2, <4>1 DEF Witnessed
    <3>3. CASE u # t /\ at[u] = "idle"
      <4>1. at'[u] = "idle" /\ op'[u] = NoOp
        BY <2>7, <3>3 DEF Calling, Fits
      <4> QED BY <4>1 DEF Inside
    <3> QED BY <3>1, <3>2, <3>3
  <2> QED BY <2>9, <2>10, <2>11, <2>12, <2>13, <2>14, <2>15, <2>16, <2>17, <2>18
<1>3. CASE Returns(t, "notSaved") /\ UNCHANGED <<store, history>>
  BY <1>1, <1>3, ReturnsKeeps DEF Write, Kinds
<1> QED BY <1>2, <1>3 DEF Write

-----------------------------------------------------------------------------
(* Starting a call, taking the lock, and picking a login.                  *)

\* Every call that a thread starts is of this kind.
MayStart(o) ==
  /\ o \in [kind : {"create", "update", "delete", "login"}, bank : Bank,
            cid : 0 .. MaxCalls, n : 0 .. MaxCalls,
            stage : {"write", "label", "secrets", "list", "resolve"}]
  /\ o.kind \in {"create", "update"} => o.n = calls + 1
  /\ o.kind \notin {"create", "update"} => o.n = 0
  /\ o.kind = "create" => o.stage = "write"
  /\ o.kind = "login" <=> o.stage \in {"list", "resolve"}

LEMMA StartsKeeps ==
  ASSUME IInv, NEW t \in Thread, NEW o, MayStart(o), Starts(t, o)
  PROVE  IInv'
<1> USE StoreAssumption, NoOpType DEF IInv, Starts, MayStart, history
<1>1. TypeOK'
  <2>1. was' \in [Thread -> SUBSET (0 .. MaxCalls)]
    BY SingleType DEF TypeOK
  <2>2. at' \in [Thread -> Places]
    BY DEF TypeOK, Places
  <2>3. calls' \in 0 .. MaxCalls
    BY DEF TypeOK
  <2>4. op' \in [Thread -> [kind : {"none", "create", "update", "delete", "login"}, bank : Bank,
                            cid : 0 .. MaxCalls, n : 0 .. MaxCalls,
                            stage : {"none", "write", "label", "secrets", "list", "resolve", "only"}]]
    BY DEF TypeOK
  <2> QED BY <2>1, <2>2, <2>3, <2>4 DEF TypeOK, NoAnswer, Kinds
<1>2. /\ calls' = calls + 1 /\ calls \in Nat /\ calls' \in Calls /\ at[t] = "idle" /\ op[t] = NoOp
      /\ at'[t] = "enter" /\ op'[t] = o /\ was'[t] = Single(store, o.bank)
      /\ \A u \in Thread : u # t => at'[u] = at[u] /\ op'[u] = op[u] /\ was'[u] = was[u]
  BY DEF TypeOK, Calls, Calling, Fits
<1>3. Calling'
  BY <1>2 DEF Calling, Fits
<1>4. Finite' /\ Locked' /\ Own'
  BY <1>2 DEF Finite, Locked, Own, Inside
<1>5. Numbered'
  <2>1. Ids(store) \cup Wanted \subseteq Int /\ \A u \in Thread : op[u].n \in Int /\ Ids(records[u]) \subseteq Int
    BY DEF TypeOK, Record, Calls, Ids, Wanted
  <2>2. /\ \A i \in Ids(store) \cup Wanted : i <= calls'
        /\ \A u \in Thread : op'[u].n <= calls' /\ \A i \in Ids(records[u]) : i <= calls'
    <3>1. \A i \in Int : i <= calls => i <= calls'
      BY ONLY <1>2
    <3>2. o.n \in 0 .. calls'
      BY <1>2
    <3>3. \A i \in Ids(store) \cup Wanted : i <= calls /\ i \in Int
      BY <2>1 DEF Numbered
    <3>4. \A u \in Thread : op[u].n <= calls /\ op[u].n \in Int
                           /\ \A i \in Ids(records[u]) : i <= calls /\ i \in Int
      BY <2>1 DEF Numbered
    <3>5. \A u \in Thread : op'[u].n <= calls'
      <4>1. op'[t].n <= calls'
        BY <1>2, <3>2
      <4> QED BY <1>2, <3>1, <3>4, <4>1
    <3> QED BY ONLY <3>1, <3>3, <3>4, <3>5
  <2>3. ASSUME NEW u \in Thread, op'[u].kind = "create"
        PROVE  /\ op'[u].n \notin Ids(store) \cup Wanted
               /\ \A v \in Thread : op'[u].n \notin Ids(records[v])
               /\ \A v \in Thread : op'[v].n = op'[u].n => v = u
    <3>1. CASE u = t
      <4>1. op'[u].n = calls + 1
        BY <1>2, <2>3, <3>1
      <4>2. \A v \in Thread : v # t => op'[v].n <= calls /\ op'[v].n \in Int
        BY <1>2, <2>1 DEF Numbered
      <4>3. \A i \in Ids(store) \cup Wanted : i <= calls /\ i \in Int
        BY <2>1 DEF Numbered
      <4>4. \A v \in Thread : \A i \in Ids(records[v]) : i <= calls /\ i \in Int
        BY <2>1 DEF Numbered
      <4> QED BY ONLY <1>2, <3>1, <4>1, <4>2, <4>3, <4>4
    <3>2. CASE u # t
      <4>1. op[u].kind = "create" /\ op'[u] = op[u] /\ op[u].n \in Calls /\ op[u].n <= calls
        BY <1>2, <2>3, <3>2 DEF Calling, Fits, Numbered
      <4>2. op'[t].n # op[u].n
        BY <1>2, <4>1 DEF Calls
      <4> QED BY <1>2, <4>1, <4>2 DEF Numbered
    <3> QED BY <3>1, <3>2
  <2> QED BY <2>2, <2>3 DEF Numbered, Ids, Wanted
<1>6. Keyed'
  BY <1>2 DEF Keyed
<1>7. Sealed' /\ Open'
  <2>1. /\ \A u \in Thread : at'[u] \in Inside => at[u] \in Inside /\ records'[u] = records[u]
        /\ \A u \in Thread : at'[u] \in {"make", "fill"} => at[u] \in {"make", "fill"}
    BY <1>2 DEF Inside
  <2>2. UNCHANGED <<store, want, key>>
    OBVIOUS
  <2> QED BY ONLY Sealed, Open, <2>1, <2>2, SealStays
<1>8. Witnessed'
  BY <1>2 DEF Witnessed, Inside
<1> QED BY <1>1, <1>3, <1>4, <1>5, <1>6, <1>7, <1>8

LEMMA CallsKeep ==
  ASSUME IInv, NEW t \in Thread, Create(t) \/ Update(t) \/ Delete(t) \/ Login(t)
  PROVE  IInv'
<1> USE StoreAssumption, NoOpType DEF IInv
<1>1. calls \in 0 .. MaxCalls
  BY DEF TypeOK
<1>2. CASE Create(t)
  <2>1. PICK b \in Bank :
          Starts(t, [kind |-> "create", bank |-> b, cid |-> 0, n |-> calls + 1, stage |-> "write"])
    BY <1>2 DEF Create
  <2>2. calls < MaxCalls
    BY <2>1 DEF Starts
  <2>3. MayStart([kind |-> "create", bank |-> b, cid |-> 0, n |-> calls + 1, stage |-> "write"])
    BY <1>1, <2>2 DEF MayStart
  <2> QED BY <2>1, <2>3, StartsKeeps
<1>3. CASE Update(t)
  <2>1. PICK c \in 1 .. calls, what \in {"label", "secrets"} :
          Starts(t, [kind |-> "update", bank |-> AnyBank, cid |-> c, n |-> calls + 1, stage |-> what])
    BY <1>3 DEF Update
  <2>2. calls < MaxCalls
    BY <2>1 DEF Starts
  <2>3. MayStart([kind |-> "update", bank |-> AnyBank, cid |-> c, n |-> calls + 1, stage |-> what])
    BY <1>1, <2>2 DEF MayStart
  <2> QED BY <2>1, <2>3, StartsKeeps
<1>4. CASE Delete(t)
  <2>1. PICK c \in 1 .. calls :
          Starts(t, [kind |-> "delete", bank |-> AnyBank, cid |-> c, n |-> 0, stage |-> "write"])
    BY <1>4 DEF Delete
  <2>2. MayStart([kind |-> "delete", bank |-> AnyBank, cid |-> c, n |-> 0, stage |-> "write"])
    BY <1>1 DEF MayStart
  <2> QED BY <2>1, <2>2, StartsKeeps
<1>5. CASE Login(t)
  <2>1. PICK b \in Bank, c \in 0 .. calls :
          Starts(t, [kind |-> "login", bank |-> b, cid |-> c, n |-> 0,
                     stage |-> IF c = 0 THEN "list" ELSE "resolve"])
    BY <1>5 DEF Login
  <2>2. MayStart([kind |-> "login", bank |-> b, cid |-> c, n |-> 0,
                  stage |-> IF c = 0 THEN "list" ELSE "resolve"])
    BY <1>1 DEF MayStart
  <2> QED BY <2>1, <2>2, StartsKeeps
<1> QED BY <1>2, <1>3, <1>4, <1>5

\* The lock is free, so no thread of this process is inside, and what is read
\* is the store.
LEMMA EnterKeeps == ASSUME IInv, NEW t \in Thread, Enter(t) PROVE IInv'
<1> USE StoreAssumption DEF IInv, Enter, history
<1>1. /\ records' = [records EXCEPT ![t] = store] /\ lock' = [lock EXCEPT ![Home[t]] = t]
      /\ answer' = NoAnswer /\ at[t] = "enter" /\ UNCHANGED <<store, key, calls, op, fernet, was, history>>
  BY DEF Reads
<1>2. PICK place \in {"key", "pick", "write", "unknown"} :
        /\ at' = [at EXCEPT ![t] = place]
        /\ place = "pick" => op[t].stage = "list"
        /\ place = "write" => op[t].kind = "delete"
  <2>1. op[t].kind # "none" /\ op[t].kind \in {"none", "create", "update", "delete", "login"}
    BY <1>1 DEF Calling, Fits, TypeOK
  <2> QED BY <2>1 DEF Reads
<1>3. /\ at'[t] = place /\ records'[t] = store /\ lock'[Home[t]] = t
      /\ \A u \in Thread : u # t => at'[u] = at[u] /\ records'[u] = records[u]
  BY <1>1, <1>2 DEF TypeOK
<1>4. TypeOK'
  <2>1. at' \in [Thread -> Places]
    BY <1>2 DEF TypeOK, Places
  <2>2. records' \in [Thread -> SUBSET Record] /\ lock' \in [Process -> Thread \cup {Nobody}]
    BY <1>1 DEF TypeOK
  <2> QED BY ONLY TypeOK, <1>1, <2>1, <2>2 DEF TypeOK, NoAnswer, Kinds, history
<1>5. Calling'
  BY <1>1, <1>2, <1>3 DEF Calling, Fits
<1>6. Finite'
  BY <1>1, <1>3 DEF Finite
<1>7. Locked'
  BY <1>1, <1>3 DEF Locked, Inside, TypeOK
<1>8. Own'
  BY <1>1, <1>3 DEF Own
<1>9. Numbered'
  <2>1. \A u \in Thread : Ids(records'[u]) = Ids(records[u]) \/ Ids(records'[u]) = Ids(store)
    BY <1>3
  <2> HIDE DEF Enter
  <2> QED BY <1>1, <2>1 DEF Numbered, Wanted, Ids
<1>10. Keyed'
  BY <1>1, <1>2, <1>3 DEF Keyed
<1>11. Sealed' /\ Open'
  <2>1. \A u \in Thread : at'[u] \in Inside =>
          (at[u] \in Inside /\ records'[u] = records[u]) \/ records'[u] = store
    BY ONLY <1>3
  <2>2. \A u \in Thread : at'[u] \in {"make", "fill"} => at[u] \in {"make", "fill"}
    BY ONLY <1>2, <1>3
  <2>3. UNCHANGED <<store, want, key>>
    BY <1>1
  <2> QED BY ONLY Sealed, Open, <2>1, <2>2, <2>3, SealStays
<1>12. Witnessed'
  BY <1>1, <1>3 DEF Witnessed
<1> QED BY <1>4, <1>5, <1>6, <1>7, <1>8, <1>9, <1>10, <1>11, <1>12

\* resolve_login goes back for the only login that it has found.
LEMMA GoesBackKeeps ==
  ASSUME IInv, NEW t \in Thread, at[t] = "pick", op[t].kind = "login",
         NEW r \in Record, r.id \in was[t],
         op' = [op EXCEPT ![t].cid = r.id, ![t].stage = "only"],
         at' = [at EXCEPT ![t] = "enter"], Release(t), answer' = NoAnswer,
         UNCHANGED <<records, fernet, was, store, key, calls, history>>
  PROVE  IInv'
<1> USE StoreAssumption DEF IInv, Release, history
<1>1. at[t] \in Inside /\ r.id \in 0 .. MaxCalls
  BY DEF Inside, Places, TypeOK
<1>2. /\ at'[t] = "enter" /\ op'[t].kind = op[t].kind /\ op'[t].bank = op[t].bank /\ op'[t].n = op[t].n
      /\ op'[t].cid = r.id /\ op'[t].stage = "only"
      /\ \A u \in Thread : u # t => at'[u] = at[u] /\ op'[u] = op[u]
      /\ at[t] = "pick" /\ op[t].kind = "login" /\ UNCHANGED <<store, want, calls, records>>
  BY DEF TypeOK
<1>3. TypeOK'
  <2>1. at' \in [Thread -> Places] /\ lock' \in [Process -> Thread \cup {Nobody}]
    BY DEF TypeOK, Places
  <2>2. op' = [op EXCEPT ![t].cid = r.id, ![t].stage = "only"]
    OBVIOUS
  <2>3. op' \in [Thread -> [kind : {"none", "create", "update", "delete", "login"}, bank : Bank,
                            cid : 0 .. MaxCalls, n : 0 .. MaxCalls,
                            stage : {"none", "write", "label", "secrets", "list", "resolve", "only"}]]
    <3>1. op \in [Thread -> CallType]
      BY DEF TypeOK, CallType
    <3> QED BY ONLY <1>1, <2>2, <3>1, PickedType DEF CallType
  <2> QED BY <2>1, <2>3 DEF TypeOK, NoAnswer, Kinds
<1>4. Calling'
  BY ONLY Calling, <1>2 DEF Calling, Fits
<1>5. \A u \in Thread : u # t /\ at[u] \in Inside => Home[u] # Home[t]
  BY <1>1 DEF Locked
<1>6. Locked'
  BY <1>2, <1>5 DEF Locked, Inside, TypeOK
<1>7. Finite' /\ Own'
  BY <1>2 DEF Finite, Own, Inside
<1>8. Numbered'
  BY ONLY Numbered, <1>2 DEF Numbered, Wanted, Ids
<1>9. Keyed'
  BY ONLY Keyed, <1>2, UNCHANGED <<key, fernet>> DEF Keyed
<1>10. Sealed' /\ Open'
  <2>1. /\ \A u \in Thread : at'[u] \in Inside => at[u] \in Inside /\ records'[u] = records[u]
        /\ \A u \in Thread : at'[u] \in {"make", "fill"} => at[u] \in {"make", "fill"}
    BY ONLY <1>2 DEF Inside
  <2>2. UNCHANGED <<store, want, key>>
    BY <1>2
  <2> QED BY ONLY Sealed, Open, <2>1, <2>2, SealStays
<1>11. Witnessed'
  BY <1>2 DEF Witnessed, Inside
<1> QED BY <1>3, <1>4, <1>6, <1>7, <1>8, <1>9, <1>10, <1>11

LEMMA PickListedKeeps == ASSUME IInv, NEW t \in Thread, PickListed(t) PROVE IInv'
<1> DEFINE S == OfBank(records[t], op[t].bank)
<1>1. at[t] \in Inside /\ at[t] = "pick" /\ op[t].kind = "login"
  BY DEF PickListed, Inside, Places, IInv, Calling, Fits
<1>2. CASE \E kind \in Kinds : Returns(t, kind)
  BY <1>1, <1>2, ReturnsKeeps DEF PickListed
<1>3. CASE S # {} /\ ~(Cardinality(S) > 1) /\ Choose(t, S)
  <2>1. PICK r \in S : /\ op' = [op EXCEPT ![t].cid = r.id, ![t].stage = "only"]
                       /\ at' = [at EXCEPT ![t] = "enter"]
                       /\ Release(t) /\ answer' = NoAnswer /\ UNCHANGED <<records, fernet, was>>
    BY <1>3 DEF Choose
  <2>2. S \subseteq records[t] /\ IsFiniteSet(S) /\ Cardinality(S) \in Nat
    BY FS_Subset, FS_CardinalityType DEF IInv, Finite, OfBank
  <2>3. S = {r}
    BY <1>3, <2>1, <2>2, AtMostOne
  <2>4. r \in Record
    BY <2>1, <2>2 DEF IInv, TypeOK
  <2>5. r.id \in was[t]
    BY <1>1, <2>3, SingleOfOne DEF IInv, Witnessed
  <2> QED BY <1>1, <2>1, <2>4, <2>5, GoesBackKeeps DEF PickListed
<1> QED BY <1>2, <1>3 DEF PickListed, Choose, Kinds

\* A crash takes the threads of one process back to where no call is.
LEMMA CrashKeeps == ASSUME IInv, NEW p \in Process, Crash(p) PROVE IInv'
<1> USE StoreAssumption, NoOpType DEF IInv, Crash, history
<1>1. /\ \A t \in Thread : Home[t] = p => /\ at'[t] = "idle" /\ op'[t] = NoOp /\ records'[t] = {}
                                          /\ fernet'[t] = NoKey /\ was'[t] = {}
      /\ \A t \in Thread : Home[t] # p => /\ at'[t] = at[t] /\ op'[t] = op[t] /\ records'[t] = records[t]
                                          /\ fernet'[t] = fernet[t] /\ was'[t] = was[t]
      /\ UNCHANGED <<store, key, calls, want, writers>> /\ lock' = [lock EXCEPT ![p] = Nobody]
  OBVIOUS
<1>2. TypeOK'
  BY DEF TypeOK, Places, NoKey, NoAnswer, Kinds
<1>3. Calling'
  BY <1>1 DEF Calling, Fits
<1>4. Finite'
  BY <1>1, FS_EmptySet DEF Finite
<1>5. Locked' /\ Own'
  BY <1>1 DEF Locked, Own, Inside, TypeOK
<1>6. Numbered'
  <2>1. Ids({}) = {}
    BY DEF Ids
  <2>2. \A u \in Thread : Ids(records'[u]) = Ids(records[u]) \/ Ids(records'[u]) = {}
    BY <1>1, <2>1
  <2>3. \A u \in Thread : op'[u].kind = "create" => op[u].kind = "create" /\ op'[u] = op[u] /\ op[u].n \in Calls
    BY <1>1 DEF Calling, Fits
  <2>4. \A u \in Thread : op'[u] = op[u] \/ op'[u].n = 0
    BY <1>1
  <2>5. calls \in Nat
    BY DEF TypeOK
  <2> HIDE DEF Crash
  <2> QED BY <1>1, <2>2, <2>3, <2>4, <2>5 DEF Numbered, Wanted, Ids, Calls
<1>7. Keyed'
  BY <1>1 DEF Keyed
<1>8. Sealed' /\ Open'
  <2>1. /\ \A u \in Thread : at'[u] \in Inside => at[u] \in Inside /\ records'[u] = records[u]
        /\ \A u \in Thread : at'[u] \in {"make", "fill"} => at[u] \in {"make", "fill"}
    BY ONLY <1>1 DEF Inside
  <2> QED BY ONLY Sealed, Open, <1>1, <2>1, SealStays
<1>9. Witnessed'
  BY <1>1 DEF Witnessed, Inside
<1> QED BY <1>2, <1>3, <1>4, <1>5, <1>6, <1>7, <1>8, <1>9

-----------------------------------------------------------------------------
LEMMA NextKeeps == ASSUME IInv, [Next]_vars PROVE IInv'
<1>1. ASSUME NEW t \in Thread, Create(t) \/ Update(t) \/ Delete(t) \/ Login(t) PROVE IInv'
  BY <1>1, CallsKeep
<1>2. ASSUME NEW t \in Thread, GoOn(t) PROVE IInv'
  BY <1>2, EnterKeeps, NotFoundKeeps, ReadKeyKeeps, CheckOrphansKeeps, MakeKeyKeeps, FillKeyKeeps,
     TakeOtherKeyKeeps, WriteKeeps, PickListedKeeps, ResolveKeeps DEF GoOn
<1>3. ASSUME NEW p \in Process, Crash(p) PROVE IInv'
  BY <1>3, CrashKeeps
<1>4. CASE UNCHANGED vars
  <2> USE <1>4 DEF vars, threads, history, IInv
  <2>1. TypeOK' /\ Calling' /\ Finite' /\ Locked' /\ Own'
    BY DEF TypeOK, Calling, Fits, Finite, Locked, Own
  <2>2. Numbered' /\ Keyed'
    BY DEF Numbered, Keyed, Wanted, Ids
  <2>3. Sealed' /\ Open' /\ Witnessed'
    BY DEF Sealed, Open, Witnessed, Wanted, Ids
  <2> QED BY <2>1, <2>2, <2>3
<1> QED BY <1>1, <1>2, <1>3, <1>4, LoseKeyKeeps DEF Next

\* The invariant holds of every reachable state: for any processes, threads,
\* banks and number of calls.
THEOREM Invariant == Spec => []IInv
<1>1. IInv /\ [Next]_vars => IInv'
  BY NextKeeps
<1> QED BY Initially, <1>1, PTL DEF Spec

\* Every variable of the saved logins keeps its type.
THEOREM TypeCorrect == Spec => []TypeOK
<1>1. IInv => TypeOK
  BY InvariantSuffices
<1> QED BY Invariant, <1>1, PTL

\* While one process only saves, every create, update and delete is in
\* credentials.json as if each had been one step (CredentialStore._lock, and
\* _write_records, which replaces the file).
THEOREM Survive == Spec => []SavesSurvive
<1>1. IInv => SavesSurvive
  BY InvariantSuffices
<1> QED BY Invariant, <1>1, PTL

\* The key on disk decrypts every login that was saved and not removed, however
\* many processes make the first one at once (_fernet, O_EXCL).
THEOREM Fit == Spec => []KeyFits
<1>1. IInv => KeyFits
  BY InvariantSuffices
<1> QED BY Invariant, <1>1, PTL

-----------------------------------------------------------------------------
(* What a sign-in gets.                                                    *)

\* A login that resolve_login gives for a bank, or gives up on, is one that was
\* the bank's only one, or none was saved, at a moment of that call.
RightAnswer ==
  \A t \in Thread : answer'.to = t =>
    /\ answer'.kind \in {"env", "none saved"} => 0 \in was[t]
    /\ answer'.kind = "login" /\ answer'.stage = "only" => answer'.id \in was[t]

\* Only two actions return one of these answers.
Silent == answer'.to \in Thread => answer'.kind \notin {"env", "none saved", "login"}

LEMMA ListedIsRight == ASSUME IInv, NEW t \in Thread, PickListed(t) PROVE RightAnswer
<1> DEFINE S == OfBank(records[t], op[t].bank)
<1>1. at[t] \in Inside /\ at[t] = "pick"
  BY DEF PickListed, Inside, Places
<1>2. CASE S = {}
  <2>1. 0 \in was[t]
    BY <1>1, <1>2, SingleOfNone DEF IInv, Witnessed
  <2>2. PICK kind \in {"env", "none saved", "storeError"} : Returns(t, kind)
    BY <1>2 DEF PickListed, Choose
  <2> QED BY <2>1, <2>2 DEF RightAnswer, Returns, Ends
<1>3. CASE S # {}
  <2>1. answer' = NoAnswer \/ \E kind \in {"ambiguous", "storeError"} : Returns(t, kind)
    BY <1>3 DEF PickListed, Choose
  <2>2. CASE answer' = NoAnswer
    <3>1. answer'.to \notin Thread
      BY <2>2, StoreAssumption DEF NoAnswer
    <3> QED BY <3>1 DEF RightAnswer
  <2>3. CASE \E kind \in {"ambiguous", "storeError"} : Returns(t, kind)
    <3>1. answer'.kind \in {"ambiguous", "storeError"}
      BY <2>3 DEF Returns, Ends
    <3> QED BY <3>1 DEF RightAnswer
  <2> QED BY <2>1, <2>2, <2>3
<1> QED BY <1>2, <1>3

LEMMA ResolvedIsRight == ASSUME IInv, NEW t \in Thread, Resolve(t) PROVE RightAnswer
<1>1. PICK kind \in {"storeError", "wrong bank", "login"} : Returns(t, kind)
  BY DEF Resolve
<1>2. op[t].stage = "only" => op[t].cid \in was[t]
  BY DEF IInv, Witnessed
<1> QED BY <1>1, <1>2 DEF RightAnswer, Returns, Ends

LEMMA OthersAreSilent ==
  ASSUME Next, \A t \in Thread : ~PickListed(t) /\ ~Resolve(t)
  PROVE  Silent
<1>0. answer' = NoAnswer => Silent
  BY StoreAssumption DEF Silent, NoAnswer
<1>1. ASSUME NEW t \in Thread, Create(t) \/ Update(t) \/ Delete(t) \/ Login(t) PROVE Silent
  BY <1>0, <1>1 DEF Create, Update, Delete, Login, Starts
<1>2. ASSUME NEW t \in Thread, Enter(t) PROVE Silent
  BY <1>0, <1>2 DEF Enter, Reads
<1>3. ASSUME NEW t \in Thread,
             NotFound(t) \/ ReadKey(t) \/ CheckOrphans(t) \/ MakeKey(t) \/ FillKey(t) \/ TakeOtherKey(t)
      PROVE  Silent
  <2>1. answer' = NoAnswer \/ \E kind \in {"notFound", "storeError", "notSaved", "valueError"} : Returns(t, kind)
    BY <1>3 DEF NotFound, ReadKey, CheckOrphans, MakeKey, FillKey, TakeOtherKey, Goes
  <2>2. answer' = NoAnswer \/ answer'.kind \in {"notFound", "storeError", "notSaved", "valueError"}
    BY <2>1 DEF Returns, Ends
  <2> QED BY <1>0, <2>2 DEF Silent
<1>4. ASSUME NEW t \in Thread, Write(t) PROVE Silent
  <2>1. answer'.kind \in {"saved", "storeError", "notSaved"}
    BY <1>4 DEF Write, Returns, Ends
  <2> QED BY <2>1 DEF Silent
<1>5. ASSUME NEW p \in Process, Crash(p) PROVE Silent
  BY <1>0, <1>5 DEF Crash
<1>6. CASE LoseKey
  BY <1>0, <1>6 DEF LoseKey
<1> QED BY <1>1, <1>2, <1>3, <1>4, <1>5, <1>6 DEF Next, GoOn

\* A sign-in that names no login gets the one that was its bank's only one, or
\* turns to the environment when none was saved, at a moment of its call
\* (resolve_login, which looks twice).
THEOREM RightLogin == Spec => LoginIsRight
<1>1. IInv /\ [Next]_vars => [RightAnswer]_vars
  <2> SUFFICES ASSUME IInv, [Next]_vars, vars' # vars PROVE RightAnswer
    BY DEF RightAnswer
  <2>1. CASE \E t \in Thread : PickListed(t) \/ Resolve(t)
    BY <2>1, ListedIsRight, ResolvedIsRight
  <2>2. CASE \A t \in Thread : ~PickListed(t) /\ ~Resolve(t)
    BY <2>2, OthersAreSilent DEF RightAnswer, Silent
  <2> QED BY <2>1, <2>2
<1>2. Spec => [][RightAnswer]_vars
  BY Invariant, <1>1, PTL DEF Spec
<1> QED BY <1>2 DEF LoginIsRight, RightAnswer
=============================================================================
