--------------------------- MODULE DownloadProofs ---------------------------
(***************************************************************************)
(* Proofs about DownloadCache, for any calls, request lists, paths, hosts  *)
(* and limits.                                                             *)
(*                                                                         *)
(* The inductive invariant has a part for each owner of state.  Accounts   *)
(* relates task map, multi handle, host counters and file locks.  Place    *)
(* says what the worker may rely on at each point of a pass, in which the  *)
(* mutex keeps the calls out: that the keys it still has to look at are    *)
(* tasks without a transfer, and that the room it found is still there     *)
(* when it has the lock.  Slots says which result slots of a call are      *)
(* open, answered or not reached yet, and who will answer the open ones.   *)
(***************************************************************************)
EXTENDS DownloadCache, FiniteSetTheorems, TLAPS

-----------------------------------------------------------------------------
(***************************************************************************)
(* The inductive invariant.                                                *)
(***************************************************************************)
\* The transfers counted for a host.
OnHost(h) == {k \in active : HostOfTask(k) = h}

\* Task map, handles, counters, locks and the queue limit agree.
Accounts ==
    /\ tasks \subseteq Keys /\ active \subseteq tasks
    /\ info \in [Keys -> Task \cup {NoTask}]
    /\ \A k \in Keys : k \in tasks => info[k] \in Task
    /\ \A k \in Keys : k \notin tasks => info[k] = NoTask
    /\ lock \in [Keys -> {"free", "self", "other"}]
    /\ \A k \in active : lock[k] = "self" /\ HostOfTask(k) \in Hosts
    /\ \A k \in Keys : lock[k] = "self" => k \in tasks
    /\ hosts = [h \in Hosts |-> Cardinality(OnHost(h))]
    /\ Cardinality(active) <= Concurrency
    /\ Cardinality(tasks) <= MaxQueued

\* The worker holds the mutex: what it has seen stays true.
Place ==
    /\ worker \in {"idle", "pass", "locking", "perform", "reading", "exited"}
    /\ pending \subseteq tasks \ active
    /\ worker \notin {"pass", "locking"} => pending = {}
    /\ cur \subseteq tasks \ (active \cup pending)
    /\ worker = "locking" =>
        /\ Cardinality(active) < Concurrency
        /\ \A k \in cur : HostOfTask(k) \in Hosts =>
                hosts[HostOfTask(k)] < Window(HostOfTask(k))
    /\ worker # "locking" => cur = {}
    /\ done \subseteq active
    /\ worker # "reading" => done = {}
    /\ stopped \in BOOLEAN
    /\ worker = "exited" => stopped /\ tasks = {}

\* A slot is absent when the tile was not asked for, open until the call reaches
\* it, then open exactly while a task has the call among its subscribers.
SlotOK(c, k) ==
    /\ results[c][k] = "Absent" <=> k \notin KeysOf(reqs[c])
    /\ k \in KeysOf(reqs[c]) \ Submitted(c) => results[c][k] = "Pending"
    /\ c \in info[k].subscribers => k \in Submitted(c) /\ results[c][k] = "Pending"
    /\ k \in Submitted(c) /\ results[c][k] = "Pending" => c \in info[k].subscribers

\* A call is cancelled only for a reason, and has nothing before it begins.
CallOK(c) ==
    /\ cancelled[c] => cancelAsked[c] \/ stopped
    /\ pc[c] = "idle" => pos[c] = 1 /\ reqs[c] = <<>>

\* The slots answered are counted.
Slots ==
    /\ pc \in [Calls -> {"idle", "submit", "full", "wait", "returned"}]
    /\ reqs \in [Calls -> Seq(Request)] /\ pos \in [Calls -> Nat \ {0}]
    /\ results \in [Calls -> [Keys -> Outcomes \cup {"Absent", "Pending"}]]
    /\ cancelAsked \in [Calls -> BOOLEAN] /\ cancelled \in [Calls -> BOOLEAN]
    /\ finished = [c \in Calls |-> Cardinality({k \in Keys : results[c][k] \in Outcomes})]
    /\ \A c \in Calls : CallOK(c) /\ \A k \in Keys : SlotOK(c, k)

\* The rest of the types.
Others ==
    /\ multiplexed \subseteq Hosts
    /\ file \in [Keys -> {"bad", "good"}]
    /\ stamp \in [Keys -> {"none", "stale", "match"}]
    /\ sequence \in Nat /\ otherRuns \in Nat
    /\ stopper \in {"idle", "joining", "joined"}

IInv == Accounts /\ Place /\ Slots /\ Others

-----------------------------------------------------------------------------
(***************************************************************************)
(* Accounts is preserved.  The steps that change it fall into few kinds:   *)
(* tasks end, a task arrives or is shared, a transfer begins or waits for  *)
(* its retry, a file lock changes hands.                                   *)
(***************************************************************************)

\* Sets of keys are finite.
LEMMA FiniteKeys ==
    ASSUME NEW S \in SUBSET Keys
    PROVE  IsFiniteSet(S) /\ Cardinality(S) \in Nat
BY ConstantsAssumption, FS_Subset, FS_CardinalityType

\* The limits are numbers.
LEMMA Limits == Concurrency \in Nat /\ PerHost \in Nat /\ Retries \in Nat /\ MaxQueued \in Nat
BY ConstantsAssumption

\* Handles of the same tasks with the same addresses count the same.
LEMMA SameCounts ==
    ASSUME active' = active,
           \A k \in active : info'[k].url = info[k].url
    PROVE  \A h \in Hosts : OnHost(h)' = OnHost(h)
BY DEF OnHost, HostOfTask

\* Every handle left is one of a host.
LEMMA KeptHosts ==
    ASSUME Accounts, active' \subseteq active,
           \A k \in active' : info'[k].url = info[k].url
    PROVE  \A k \in active' : (HostOfTask(k) \in Hosts)'
BY DEF Accounts, HostOfTask

\* Removing the handles of tasks that have none changes nothing.
LEMMA IdleRemoval ==
    ASSUME Accounts, NEW S \in SUBSET Keys, S \cap active = {},
           UNCHANGED <<active, hosts>>
    PROVE  RemoveEasy(S)
<1>1. active' = active \ S
  OBVIOUS
<1>2. ASSUME NEW h \in Hosts
      PROVE  /\ {k \in S \cap active : HostOfTask(k) = h} = {}
             /\ hosts[h] \in Nat
  <2>1. OnHost(h) \in SUBSET Keys
    BY DEF Accounts, OnHost
  <2>2. hosts[h] = Cardinality(OnHost(h))
    BY DEF Accounts
  <2> QED
    BY <2>1, <2>2, FiniteKeys
<1>3. ASSUME NEW h \in Hosts
      PROVE  hosts[h] - Cardinality({k \in S \cap active : HostOfTask(k) = h}) = hosts[h]
  BY <1>2, FS_EmptySet
<1>4. hosts = [h \in Hosts |-> hosts[h]]
  BY DEF Accounts
<1> QED
  BY <1>1, <1>3, <1>4 DEF RemoveEasy

\* Tasks end: their handles, counts and locks go with them.
LEMMA EndAccounts ==
    ASSUME Accounts, NEW S \in SUBSET Keys, RemoveEasy(S),
           tasks' = tasks \ S,
           info' = [k \in Keys |-> IF k \in S THEN NoTask ELSE info[k]],
           lock' = [k \in Keys |-> IF k \in S /\ lock[k] = "self" THEN "free" ELSE lock[k]]
    PROVE  Accounts'
<1>1. ASSUME NEW h \in Hosts
      PROVE  hosts'[h] = Cardinality(OnHost(h)')
  <2>1. OnHost(h)' = OnHost(h) \ S
    BY DEF OnHost, HostOfTask, RemoveEasy, Accounts
  <2>2. OnHost(h) \cap S = {k \in S \cap active : HostOfTask(k) = h}
    BY DEF OnHost
  <2>3. OnHost(h) \in SUBSET Keys
    BY DEF OnHost, Accounts
  <2>4. Cardinality(OnHost(h) \ S) = Cardinality(OnHost(h)) - Cardinality(OnHost(h) \cap S)
    BY <2>3, FiniteKeys, FS_Difference
  <2>5. hosts[h] = Cardinality(OnHost(h))
    BY DEF Accounts
  <2>6. hosts'[h] = hosts[h] - Cardinality({k \in S \cap active : HostOfTask(k) = h})
    BY DEF RemoveEasy
  <2> QED
    BY <2>1, <2>2, <2>4, <2>5, <2>6
<1>2. hosts' = [h \in Hosts |-> Cardinality(OnHost(h)')]
  BY <1>1 DEF RemoveEasy
<1>3. /\ Cardinality(active') <= Cardinality(active)
      /\ Cardinality(active') \in Nat /\ Cardinality(active) \in Nat
  BY FS_Subset, FiniteKeys DEF RemoveEasy, Accounts
<1>4. /\ Cardinality(tasks') <= Cardinality(tasks)
      /\ Cardinality(tasks') \in Nat /\ Cardinality(tasks) \in Nat
  BY FS_Subset, FiniteKeys DEF Accounts
<1>5. Cardinality(active') <= Concurrency /\ Cardinality(tasks') <= MaxQueued
  BY <1>3, <1>4, ConstantsAssumption DEF Accounts
<1>6. /\ tasks' \subseteq Keys /\ active' \subseteq tasks'
      /\ info' \in [Keys -> Task \cup {NoTask}]
      /\ \A k \in Keys : k \in tasks' => info'[k] \in Task
      /\ \A k \in Keys : k \notin tasks' => info'[k] = NoTask
  BY DEF Accounts, RemoveEasy
<1>7. /\ lock' \in [Keys -> {"free", "self", "other"}]
      /\ \A k \in active' : lock'[k] = "self"
      /\ \A k \in Keys : lock'[k] = "self" => k \in tasks'
  BY DEF Accounts, RemoveEasy
<1>8. \A k \in active' : (HostOfTask(k) \in Hosts)'
  BY KeptHosts DEF RemoveEasy, Accounts
<1> QED
  BY <1>2, <1>5, <1>6, <1>7, <1>8 DEF Accounts

\* The same through finish(), with or without a transfer to remove.
LEMMA FinishAccounts ==
    ASSUME Accounts, NEW S \in SUBSET Keys, NEW outcome, Finish(S, outcome),
           RemoveEasy(S) \/ (S \cap active = {} /\ UNCHANGED <<active, hosts>>)
    PROVE  Accounts'
BY EndAccounts, IdleRemoval DEF Finish

\* A task changes in what does not count: its place in the queue, its
\* subscribers or its attempts.
LEMMA TaskAccounts ==
    ASSUME Accounts, UNCHANGED <<tasks, active, hosts, lock>>,
           info' \in [Keys -> Task \cup {NoTask}],
           \A k \in tasks : info'[k] \in Task /\ info'[k].url = info[k].url,
           \A k \in Keys \ tasks : info'[k] = info[k]
    PROVE  Accounts'
<1>1. \A h \in Hosts : OnHost(h)' = OnHost(h)
  BY SameCounts DEF Accounts
<1>2. \A k \in active' : (HostOfTask(k) \in Hosts)'
  BY KeptHosts DEF Accounts
<1> QED
  BY <1>1, <1>2 DEF Accounts

\* A lock of another process comes or goes.
LEMMA LockAccounts ==
    ASSUME Accounts, UNCHANGED <<tasks, info, active, hosts>>,
           NEW key \in Keys, NEW state \in {"free", "other"}, lock[key] # "self",
           lock' = [lock EXCEPT ![key] = state]
    PROVE  Accounts'
<1>1. \A h \in Hosts : OnHost(h)' = OnHost(h)
  BY SameCounts
<1>2. \A k \in active' : (HostOfTask(k) \in Hosts)'
  BY KeptHosts DEF Accounts
<1> QED
  BY <1>1, <1>2 DEF Accounts

\* Nothing changes.
LEMMA SameAccounts == ASSUME Accounts, UNCHANGED taskVars PROVE Accounts'
<1>1. \A h \in Hosts : OnHost(h)' = OnHost(h)
  BY SameCounts DEF taskVars
<1>2. \A k \in active' : (HostOfTask(k) \in Hosts)'
  BY KeptHosts DEF taskVars
<1> QED
  BY <1>1, <1>2 DEF Accounts, taskVars

\* A new transfer is counted once, and there was room for it.
LEMMA BeginAccounts ==
    ASSUME IInv, NEW k \in Keys, BeginTransfer(k)
    PROVE  Accounts'
<1> DEFINE g == HostOfTask(k)
<1>1. k \in tasks /\ k \notin active /\ g \in Hosts /\ Cardinality(active) < Concurrency
  BY DEF IInv, Place, BeginTransfer, Locking
<1>2. active' = active \cup {k} /\ UNCHANGED <<tasks, info>>
  BY DEF BeginTransfer
<1>3. IsFiniteSet(active) /\ Cardinality(active) \in Nat
  BY FiniteKeys DEF IInv, Accounts
<1>4. Cardinality(active') <= Concurrency
  <2>1. Cardinality(active') = Cardinality(active) + 1
    BY <1>1, <1>2, <1>3, FS_AddElement
  <2> QED
    BY <1>1, <1>3, <2>1, Limits
<1>5. ASSUME NEW h \in Hosts PROVE hosts'[h] = Cardinality(OnHost(h)')
  <2>1. hosts[h] = Cardinality(OnHost(h)) /\ hosts = [x \in Hosts |-> hosts[x]]
    BY DEF IInv, Accounts
  <2>2. IsFiniteSet(OnHost(h)) /\ Cardinality(OnHost(h)) \in Nat
    BY FiniteKeys DEF IInv, Accounts, OnHost
  <2>3. hosts' = [hosts EXCEPT ![g] = @ + 1]
    BY DEF BeginTransfer
  <2>4. CASE h = g
    <3>1. OnHost(h)' = OnHost(h) \cup {k} /\ k \notin OnHost(h)
      BY <1>1, <1>2, <2>4 DEF OnHost, HostOfTask
    <3>2. Cardinality(OnHost(h)') = Cardinality(OnHost(h)) + 1
      BY <3>1, <2>2, FS_AddElement
    <3>3. hosts'[h] = hosts[h] + 1
      BY <2>1, <2>3, <2>4
    <3> QED
      BY <3>2, <3>3, <2>1
  <2>5. CASE h # g
    <3>1. OnHost(h)' = OnHost(h)
      BY <1>1, <1>2, <2>5 DEF OnHost, HostOfTask
    <3>2. hosts'[h] = hosts[h]
      BY <2>1, <2>3, <2>5
    <3> QED
      BY <3>1, <3>2, <2>1
  <2> QED
    BY <2>4, <2>5
<1>6. hosts' = [h \in Hosts |-> Cardinality(OnHost(h)')]
  <2>1. hosts' = [h \in Hosts |-> hosts'[h]]
    BY DEF BeginTransfer, IInv, Accounts
  <2> QED
    BY <1>5, <2>1
<1>7. lock' = [lock EXCEPT ![k] = "self"]
  BY DEF BeginTransfer
<1>8. /\ lock' \in [Keys -> {"free", "self", "other"}]
      /\ \A x \in active' : lock'[x] = "self"
      /\ \A x \in Keys : lock'[x] = "self" => x \in tasks
  BY <1>1, <1>2, <1>7 DEF IInv, Accounts
<1>9. \A x \in active' : (HostOfTask(x) \in Hosts)'
  BY <1>1, <1>2 DEF IInv, Accounts, HostOfTask
<1> QED
  BY <1>1, <1>2, <1>4, <1>6, <1>8, <1>9 DEF IInv, Accounts

\* A new task takes a free place in the queue.
LEMMA EnqueueAccounts ==
    ASSUME IInv, NEW c \in Calls, NEW r \in Request, Room(r.key), Enqueue(c, r),
           UNCHANGED <<active, hosts, lock>>
    PROVE  Accounts'
<1>1. r.key \in Keys /\ r.url \in Urls
  BY DEF Request
<1>2. /\ r.key \notin tasks /\ tasks' = tasks \cup {r.key}
      /\ info' = [info EXCEPT ![r.key] =
            [url |-> r.url, priority |-> Priority[c], sequence |-> sequence + 1,
             attempt |-> 0, ready |-> TRUE, subscribers |-> {c}]]
  BY DEF Enqueue
<1>3. [url |-> r.url, priority |-> Priority[c], sequence |-> sequence + 1,
       attempt |-> 0, ready |-> TRUE, subscribers |-> {c}] \in Task
  BY <1>1, ConstantsAssumption DEF Task, IInv, Others
<1>4. /\ info' \in [Keys -> Task \cup {NoTask}]
      /\ \A k \in Keys : k \in tasks' => info'[k] \in Task
      /\ \A k \in Keys : k \notin tasks' => info'[k] = NoTask
      /\ \A k \in Keys \ {r.key} : info'[k] = info[k]
  BY <1>1, <1>2, <1>3, Zenon DEF IInv, Accounts
<1>5. \A h \in Hosts : OnHost(h)' = OnHost(h)
  BY <1>2, <1>4, SameCounts DEF IInv, Accounts
<1>6. Cardinality(tasks') <= MaxQueued
  <2>1. IsFiniteSet(tasks) /\ Cardinality(tasks) \in Nat
    BY FiniteKeys DEF IInv, Accounts
  <2>2. Cardinality(tasks) < MaxQueued
    BY <1>2 DEF Room
  <2>3. Cardinality(tasks') = Cardinality(tasks) + 1
    BY <1>2, <2>1, FS_AddElement
  <2> QED
    BY <2>1, <2>2, <2>3, Limits
<1>7. hosts' = [h \in Hosts |-> Cardinality(OnHost(h)')]
  BY <1>5 DEF IInv, Accounts
<1>8. /\ tasks' \subseteq Keys /\ active' \subseteq tasks'
      /\ lock' \in [Keys -> {"free", "self", "other"}]
      /\ \A k \in active' : lock'[k] = "self"
      /\ \A k \in Keys : lock'[k] = "self" => k \in tasks'
      /\ Cardinality(active') <= Concurrency
  BY <1>1, <1>2 DEF IInv, Accounts
<1>9. \A x \in active' : (HostOfTask(x) \in Hosts)'
  BY <1>2, <1>4, KeptHosts DEF IInv, Accounts
<1> QED
  BY <1>4, <1>6, <1>7, <1>8, <1>9 DEF Accounts

\* What a call submits next is a request.
LEMMA NextRequest ==
    ASSUME IInv, NEW c \in Calls, Submitting(c)
    PROVE  /\ pos[c] \in DOMAIN reqs[c]
           /\ reqs[c][pos[c]] \in Request
           /\ reqs[c][pos[c]].key \in Keys /\ reqs[c][pos[c]].url \in Urls
<1> DEFINE r == reqs[c]
           p == pos[c]
<1>1. r \in Seq(Request) /\ p \in Nat \ {0} /\ p <= Len(r)
  BY DEF IInv, Slots, Submitting
<1>2. p \in DOMAIN r /\ r[p] \in Request
  <2> HIDE DEF r, p
  <2> QED
    BY <1>1
<1> QED
  BY <1>2 DEF Request

\* A call that submits shares a task or adds one.
LEMMA SubmitAccounts ==
    ASSUME IInv, NEW c \in Calls, Submit(c)
    PROVE  Accounts'
<1> DEFINE r == reqs[c][pos[c]]
<1>1. r \in Request /\ r.key \in Keys /\ Room(r.key) /\ UNCHANGED <<active, hosts, lock>>
  BY NextRequest DEF Submit
<1>2. CASE Subscribe(c, r)
  <2> DEFINE k == r.key
             p == IF info[k].priority > Priority[c] THEN info[k].priority ELSE Priority[c]
  <2> HIDE DEF r
  <2>1. info[k] \in Task /\ k \in tasks /\ k \in Keys /\ DOMAIN info = Keys
    BY <1>1, <1>2 DEF Subscribe, IInv, Accounts
  <2>2. p \in Nat
    BY <2>1, ConstantsAssumption DEF Task
  <2>3. /\ info'[k] = [info[k] EXCEPT !.subscribers = @ \cup {c}, !.priority = p]
        /\ \A x \in Keys \ {k} : info'[x] = info[x]
        /\ info' = [x \in Keys |-> info'[x]]
    <3> DEFINE one == [info EXCEPT ![k].subscribers = @ \cup {c}]
    <3>1. info' = [one EXCEPT ![k].priority = p]
      BY <1>2, <2>1 DEF Subscribe, Task
    <3>2. /\ one[k] = [info[k] EXCEPT !.subscribers = @ \cup {c}]
          /\ \A x \in Keys \ {k} : one[x] = info[x]
          /\ DOMAIN one = Keys
      BY <2>1
    <3> HIDE DEF one, p, k
    <3> QED
      BY <2>1, <3>1, <3>2
  <2> HIDE DEF p
  <2>4. info'[k] \in Task /\ info'[k].url = info[k].url
    <3>1. PICK S \in SUBSET Calls :
              info'[k] = [info[k] EXCEPT !.subscribers = S, !.priority = p]
      <4>1. info[k].subscribers \cup {c} \in SUBSET Calls
        BY <2>1 DEF Task
      <4> QED
        BY <2>3, <4>1
    <3> QED
      BY <2>1, <2>2, <3>1 DEF Task
  <2>5. /\ info' \in [Keys -> Task \cup {NoTask}]
        /\ \A x \in tasks : info'[x] \in Task /\ info'[x].url = info[x].url
        /\ \A x \in Keys \ tasks : info'[x] = info[x]
    BY <2>1, <2>3, <2>4 DEF IInv, Accounts
  <2> QED
    BY <1>1, <1>2, <2>5, TaskAccounts DEF Subscribe, IInv
<1>3. CASE Conflict(c, r)
  BY <1>1, <1>3, SameAccounts DEF Conflict, taskVars, IInv
<1>4. CASE Enqueue(c, r)
  BY <1>1, <1>4, EnqueueAccounts
<1> QED
  BY <1>2, <1>3, <1>4 DEF Submit

\* One flag of a task, or its attempts, change.
LEMMA NotReadyAccounts ==
    ASSUME Accounts, NEW k \in tasks, NEW ready \in BOOLEAN,
           info' = [info EXCEPT ![k].ready = ready],
           UNCHANGED <<tasks, active, hosts, lock>>
    PROVE  Accounts'
<1>1. info[k] \in Task /\ k \in Keys
  BY DEF Accounts
<1>2. /\ [info[k] EXCEPT !.ready = ready] \in Task
      /\ [info[k] EXCEPT !.ready = ready].url = info[k].url
  BY <1>1 DEF Task
<1>3. /\ info' \in [Keys -> Task \cup {NoTask}]
      /\ \A x \in tasks : info'[x] \in Task /\ info'[x].url = info[x].url
      /\ \A x \in Keys \ tasks : info'[x] = info[x]
  BY <1>1, <1>2 DEF Accounts
<1> QED
  BY <1>3, TaskAccounts

\* A transfer that will be tried again gives its slot back and keeps its lock.
LEMMA RetryAccounts ==
    ASSUME IInv, NEW k \in Keys, TransferRetry(k)
    PROVE  Accounts'
<1>1. k \in active /\ k \in tasks /\ info[k] \in Task
  BY DEF IInv, Accounts, Place, TransferRetry, Reading
<1>2. info[k].attempt + 1 \in 0..Retries
  <2>1. info[k].attempt \in 0..Retries /\ info[k].attempt < Retries
    BY <1>1 DEF TransferRetry, Task
  <2> QED
    BY <2>1, Limits
<1>3. info' = [info EXCEPT ![k] = [@ EXCEPT !.attempt = info[k].attempt + 1, !.ready = FALSE]]
  BY <1>1 DEF TransferRetry, Task, IInv, Accounts
<1>4. /\ [info[k] EXCEPT !.attempt = info[k].attempt + 1, !.ready = FALSE] \in Task
      /\ [info[k] EXCEPT !.attempt = info[k].attempt + 1, !.ready = FALSE].url = info[k].url
  BY <1>1, <1>2 DEF Task
<1>5. /\ info' \in [Keys -> Task \cup {NoTask}]
      /\ \A x \in tasks : info'[x] \in Task /\ info'[x].url = info[x].url
      /\ \A x \in Keys \ tasks : info'[x] = info[x]
  BY <1>1, <1>3, <1>4 DEF IInv, Accounts
<1>6. active' = active \ {k} /\ UNCHANGED <<tasks, lock>>
  BY DEF TransferRetry, RemoveEasy
<1>7. ASSUME NEW h \in Hosts
      PROVE  hosts'[h] = Cardinality(OnHost(h)')
  <2>1. OnHost(h)' = OnHost(h) \ {k}
    BY <1>5, <1>6 DEF OnHost, HostOfTask, IInv, Accounts
  <2>2. OnHost(h) \cap {k} = {x \in {k} \cap active : HostOfTask(x) = h}
    BY DEF OnHost
  <2>3. OnHost(h) \in SUBSET Keys
    BY DEF OnHost, IInv, Accounts
  <2>4. Cardinality(OnHost(h) \ {k}) = Cardinality(OnHost(h)) - Cardinality(OnHost(h) \cap {k})
    BY <2>3, FiniteKeys, FS_Difference
  <2>5. hosts[h] = Cardinality(OnHost(h))
    BY DEF IInv, Accounts
  <2>6. hosts'[h] = hosts[h] - Cardinality({x \in {k} \cap active : HostOfTask(x) = h})
    BY DEF TransferRetry, RemoveEasy
  <2> QED
    BY <2>1, <2>2, <2>4, <2>5, <2>6
<1>8. hosts' = [h \in Hosts |-> Cardinality(OnHost(h)')]
  BY <1>7 DEF TransferRetry, RemoveEasy
<1>9. Cardinality(active') <= Concurrency
  <2>1. active \in SUBSET Keys /\ active' \in SUBSET active
    BY <1>6 DEF IInv, Accounts
  <2>2. /\ Cardinality(active') <= Cardinality(active)
        /\ Cardinality(active) \in Nat /\ Cardinality(active') \in Nat
    BY <2>1, FS_Subset, FiniteKeys
  <2> QED
    BY <2>2, Limits DEF IInv, Accounts
<1>10. \A x \in active' : (HostOfTask(x) \in Hosts)'
  BY <1>5, <1>6, KeptHosts DEF IInv, Accounts
<1> QED
  BY <1>5, <1>6, <1>8, <1>9, <1>10 DEF IInv, Accounts

\* The task the pass looks at, or takes the lock for, has no transfer.
LEMMA NoTransferYet ==
    ASSUME IInv, NEW k \in Keys
    PROVE  /\ IsNext(k) => k \in tasks /\ k \notin active
           /\ Locking(k) => k \in tasks /\ k \notin active
BY DEF IInv, Place, IsNext, Locking

\* Accounts is preserved by every step.
LEMMA AccountsStep == IInv /\ [Next]_vars => Accounts'
<1> SUFFICES ASSUME IInv, [Next]_vars PROVE Accounts'
  OBVIOUS
<1>0. Accounts
  BY DEF IInv
<1>1. ASSUME NEW c \in Calls, StartCall(c) \/ CallStep(c) \/ AskCancel(c) PROVE Accounts'
  <2>1. CASE Submit(c)
    BY <2>1, SubmitAccounts
  <2>2. CASE ~Submit(c)
    <3>1. UNCHANGED taskVars
      BY <1>1, <2>2 DEF StartCall, CallStep, AskCancel, SkipDuplicate, FindFull,
            PollWhileFull, EndSubmit, WithdrawAndReturn, ReturnComplete
    <3> QED
      BY <1>0, <3>1, SameAccounts
  <2> QED
    BY <2>1, <2>2
<1>2. CASE BeginPass
  <2>1. {k \in tasks : ~Wanted(k)} \in SUBSET Keys
    BY <1>0 DEF Accounts
  <2> QED
    BY <1>0, <1>2, <2>1, FinishAccounts DEF BeginPass
<1>3. CASE Drain
  <2>1. tasks \in SUBSET Keys
    BY <1>0 DEF Accounts
  <2> QED
    BY <1>0, <1>3, <2>1, FinishAccounts DEF Drain
<1>4. CASE AbandonPass \/ EndPass \/ EndReading \/ NetworkStep \/ Stop \/ Join
  <2>1. UNCHANGED taskVars
    BY <1>4 DEF AbandonPass, EndPass, EndReading, NetworkStep, PerformFailed, Perform,
          Stop, Join
  <2> QED
    BY <1>0, <2>1, SameAccounts
<1>5. ASSUME NEW k \in Keys,
             DropUnwanted(k) \/ StartCached(k) \/ StartFailed(k)
             \/ FoundAfterLock(k) \/ CopyLocal(k) \/ TransferRefused(k)
      PROVE  Accounts'
  <2>1. {k} \in SUBSET Keys /\ {k} \cap active = {} /\ UNCHANGED <<active, hosts>>
    BY <1>5, NoTransferYet DEF DropUnwanted, StartCached, StartFailed, FoundAfterLock,
          CopyLocal, TransferRefused, Startable
  <2>2. \E outcome : Finish({k}, outcome)
    BY <1>5 DEF DropUnwanted, StartCached, StartFailed, FoundAfterLock, CopyLocal,
          TransferRefused
  <2> QED
    BY <1>0, <2>1, <2>2, FinishAccounts
<1>6. ASSUME NEW k \in Keys, TransferDelivered(k) \/ TransferFailed(k)
      PROVE  Accounts'
  BY <1>0, <1>6, FinishAccounts DEF TransferDelivered, TransferFailed
<1>7. ASSUME NEW k \in Keys, LockBusy(k) \/ RetryDue(k) PROVE Accounts'
  <2>1. k \in tasks /\ UNCHANGED <<tasks, active, hosts, lock>>
    BY <1>7, NoTransferYet DEF LockBusy, RetryDue
  <2>2. \E ready \in BOOLEAN : info' = [info EXCEPT ![k].ready = ready]
    BY <1>7 DEF LockBusy, RetryDue
  <2> QED
    BY <1>0, <2>1, <2>2, NotReadyAccounts
<1>8. ASSUME NEW k \in Keys, SkipHost(k) \/ StartLocking(k) \/ Invalidate(k)
             \/ OtherPublishes(k) \/ Damage(k)
      PROVE  Accounts'
  <2>1. UNCHANGED taskVars
    BY <1>8 DEF SkipHost, StartLocking, Invalidate, OtherPublishes, Damage
  <2> QED
    BY <1>0, <2>1, SameAccounts
<1>9. ASSUME NEW k \in Keys, OtherLocks(k) \/ OtherUnlocks(k) PROVE Accounts'
  <2>1. \E state \in {"free", "other"} : lock' = [lock EXCEPT ![k] = state]
    BY <1>9 DEF OtherLocks, OtherUnlocks
  <2>2. lock[k] # "self" /\ UNCHANGED <<tasks, info, active, hosts>>
    BY <1>9 DEF OtherLocks, OtherUnlocks
  <2> QED
    BY <1>0, <2>1, <2>2, LockAccounts
<1>10. CASE UNCHANGED vars
  BY <1>0, <1>10, SameAccounts DEF vars
<1> QED
  BY <1>1, <1>2, <1>3, <1>4, <1>5, <1>6, <1>7, <1>8, <1>9, <1>10,
     BeginAccounts, RetryAccounts, ConstantsAssumption DEF Next, WorkerStep

-----------------------------------------------------------------------------
(***************************************************************************)
(* Place is preserved.  While the worker holds the mutex no call submits;  *)
(* other processes touch only the file locks.                              *)
(***************************************************************************)

\* What the worker relies on depends on the tasks, their addresses and handles,
\* and on its own state; a stop can only be added.
LEMMA SamePlace ==
    ASSUME Accounts, Place, stopped' \in BOOLEAN, stopped => stopped',
           UNCHANGED <<tasks, active, hosts, multiplexed, done, workVars>>,
           \A k \in tasks : info'[k].url = info[k].url
    PROVE  Place'
<1>1. ASSUME NEW k \in cur PROVE HostOfTask(k)' = HostOfTask(k)
  BY DEF Place, HostOfTask
<1> QED
  BY <1>1 DEF Place, workVars, Window

\* A call touches the tasks only when the worker is not in a pass.
LEMMA SubmitPlace ==
    ASSUME IInv, NEW c \in Calls, Submit(c)
    PROVE  Place'
<1> DEFINE r == reqs[c][pos[c]]
<1>1. /\ worker \notin {"pass", "locking"} /\ ~stopped
      /\ UNCHANGED <<active, done, workVars, stopped>>
  BY DEF Submit, Submitting, MutexFree, netVars, ctlVars
<1>2. tasks \subseteq tasks'
  BY DEF Submit, Subscribe, Conflict, Enqueue
<1>3. /\ worker \in {"idle", "perform", "reading"}
      /\ pending = {} /\ cur = {} /\ done \subseteq active
      /\ worker # "reading" => done = {}
  BY <1>1 DEF IInv, Place
<1>4. /\ worker' \in {"idle", "perform", "reading"}
      /\ pending' = {} /\ cur' = {} /\ done' \subseteq active' /\ stopped' = FALSE
      /\ worker' # "reading" => done' = {}
  <2>1. stopped \in BOOLEAN
    BY DEF IInv, Place
  <2> QED
    BY <1>1, <1>3, <2>1 DEF workVars
<1> QED
  BY <1>4 DEF Place

\* The pass takes up the tasks that have no transfer.
LEMMA BeginPassPlace == IInv /\ BeginPass => Place'
<1> SUFFICES ASSUME IInv, BeginPass PROVE Place'
  OBVIOUS
<1>1. /\ pending' \subseteq tasks' \ active' /\ worker' = "pass"
      /\ UNCHANGED <<done, cur, stopped>>
  BY DEF BeginPass, RemoveEasy, Finish, netVars, ctlVars
<1>2. worker = "idle" /\ cur = {} /\ done = {} /\ stopped \in BOOLEAN
  BY DEF IInv, Place, BeginPass
<1> QED
  BY <1>1, <1>2 DEF Place

\* Place is preserved by every step.
LEMMA PlaceStep == IInv /\ [Next]_vars => Place'
<1> SUFFICES ASSUME IInv, [Next]_vars PROVE Place'
  OBVIOUS
<1>0. Accounts /\ Place
  BY DEF IInv
<1>1. ASSUME NEW c \in Calls, StartCall(c) \/ CallStep(c) \/ AskCancel(c) PROVE Place'
  <2>1. CASE Submit(c)
    BY <2>1, SubmitPlace
  <2>2. CASE ~Submit(c)
    <3>1. UNCHANGED <<taskVars, netVars, workVars, ctlVars>>
      BY <1>1, <2>2 DEF StartCall, CallStep, AskCancel, SkipDuplicate, FindFull,
            PollWhileFull, EndSubmit, WithdrawAndReturn, ReturnComplete
    <3>2. stopped \in BOOLEAN
      BY <1>0 DEF Place
    <3> QED
      BY <1>0, <3>1, <3>2, SamePlace DEF taskVars, netVars, ctlVars
  <2> QED
    BY <2>1, <2>2
<1>2. CASE Drain
  <2>1. worker = "idle" /\ stopped /\ pending = {} /\ cur = {} /\ done = {}
    BY <1>0, <1>2 DEF Drain, Place
  <2>2. tasks' = {} /\ worker' = "exited" /\ UNCHANGED <<pending, cur, done, stopped>>
    BY <1>2 DEF Drain, Finish, netVars, ctlVars
  <2> QED
    BY <1>0, <2>1, <2>2 DEF Place
<1>3. CASE AbandonPass
  <2>1. pending' = {} /\ UNCHANGED <<tasks, active, worker, cur, done, stopped>> /\ worker = "pass"
    BY <1>3 DEF AbandonPass, taskVars, netVars, ctlVars
  <2> QED
    BY <1>0, <2>1 DEF Place
<1>4. CASE EndPass
  <2>1. /\ pending = {} /\ worker = "pass" /\ worker' \in {"idle", "perform"}
        /\ UNCHANGED <<tasks, active, pending, cur, done, stopped>>
    BY <1>4 DEF EndPass, taskVars, netVars, ctlVars
  <2> QED
    BY <1>0, <2>1 DEF Place
<1>5. CASE EndReading
  <2>1. /\ worker = "reading" /\ worker' = "idle" /\ done = {}
        /\ UNCHANGED <<tasks, active, pending, cur, done, stopped>>
    BY <1>5 DEF EndReading, taskVars, netVars, ctlVars
  <2> QED
    BY <1>0, <2>1 DEF Place
<1>6. CASE NetworkStep
  <2>1. /\ worker = "perform" /\ done' \subseteq active
        /\ worker' = "reading" \/ (worker' = "idle" /\ done' = {})
        /\ stopped' = TRUE \/ stopped' = stopped
        /\ UNCHANGED <<tasks, active, pending, cur>>
    BY <1>0, <1>6 DEF NetworkStep, PerformFailed, Perform, taskVars, netVars, ctlVars, Place
  <2>2. stopped' \in BOOLEAN
    BY <1>0, <2>1 DEF Place
  <2> QED
    BY <1>0, <2>1, <2>2 DEF Place
<1>7. CASE Stop \/ Join
  <2>1. /\ stopped' = TRUE \/ stopped' = stopped
        /\ UNCHANGED <<taskVars, netVars, workVars>>
    BY <1>7 DEF Stop, Join
  <2>2. stopped' \in BOOLEAN /\ (stopped => stopped')
    BY <1>0, <2>1 DEF Place
  <2> QED
    BY <1>0, <2>1, <2>2, SamePlace DEF taskVars, netVars
<1>8. ASSUME NEW k \in Keys,
             DropUnwanted(k) \/ StartCached(k) \/ StartFailed(k) \/ SkipHost(k)
      PROVE  Place'
  <2>1. /\ worker = "pass" /\ pending' = pending \ {k}
        /\ tasks \ {k} \subseteq tasks'
        /\ UNCHANGED <<active, worker, cur, done, stopped>>
    BY <1>8 DEF DropUnwanted, StartCached, StartFailed, SkipHost, Startable, Finish,
          taskVars, netVars, ctlVars
  <2> QED
    BY <1>0, <2>1 DEF Place
<1>9. ASSUME NEW k \in Keys, StartLocking(k) PROVE Place'
  <2>1. /\ worker = "pass" /\ worker' = "locking" /\ cur' = {k}
        /\ pending' = pending \ {k} /\ k \in pending
        /\ Cardinality(active) < Concurrency
        /\ HostOfTask(k) \in Hosts => hosts[HostOfTask(k)] < Window(HostOfTask(k))
        /\ UNCHANGED <<taskVars, netVars, stopped>>
    BY <1>9 DEF StartLocking, Startable, IsNext, ctlVars
  <2>2. ASSUME NEW l \in cur', HostOfTask(l)' \in Hosts
        PROVE  (hosts[HostOfTask(l)] < Window(HostOfTask(l)))'
    BY <2>1, <2>2 DEF taskVars, netVars, HostOfTask, Window
  <2> QED
    BY <1>0, <2>1, <2>2 DEF Place, taskVars, netVars
<1>10. ASSUME NEW k \in Keys, FoundAfterLock(k) \/ CopyLocal(k) \/ TransferRefused(k)
       PROVE  Place'
  <2>1. /\ worker = "locking" /\ cur = {k} /\ worker' = "pass" /\ cur' = {}
        /\ tasks' = tasks \ {k} /\ UNCHANGED <<active, done, pending, stopped>>
    BY <1>10 DEF FoundAfterLock, CopyLocal, TransferRefused, Locking, Finish, netVars, ctlVars
  <2> QED
    BY <1>0, <2>1 DEF Place
<1>11. ASSUME NEW k \in Keys, LockBusy(k) PROVE Place'
  <2>1. /\ worker = "locking" /\ worker' = "pass" /\ cur' = {}
        /\ UNCHANGED <<tasks, active, done, pending, stopped>>
    BY <1>11 DEF LockBusy, Locking, netVars, ctlVars
  <2> QED
    BY <1>0, <2>1 DEF Place
<1>12. ASSUME NEW k \in Keys, BeginTransfer(k) PROVE Place'
  <2>1. /\ worker = "locking" /\ cur = {k} /\ worker' = "pass" /\ cur' = {}
        /\ active' = active \cup {k} /\ UNCHANGED <<tasks, done, pending, stopped>>
    BY <1>12 DEF BeginTransfer, Locking, netVars, ctlVars
  <2> QED
    BY <1>0, <2>1 DEF Place
<1>13. ASSUME NEW k \in Keys, TransferDelivered(k) \/ TransferRetry(k) \/ TransferFailed(k)
       PROVE  Place'
  <2>1. /\ worker = "reading" /\ done' = done \ {k} /\ active' = active \ {k}
        /\ UNCHANGED <<worker, pending, cur, stopped>>
    BY <1>13 DEF TransferDelivered, TransferRetry, TransferFailed, Reading, RemoveEasy,
          workVars, ctlVars
  <2> QED
    BY <1>0, <2>1 DEF Place
<1>14. ASSUME NEW k \in Keys, RetryDue(k) PROVE Place'
  <2>1. \A x \in tasks : info'[x].url = info[x].url
    BY <1>0, <1>14 DEF RetryDue, Accounts, Task
  <2> QED
    BY <1>0, <1>14, <2>1, SamePlace DEF RetryDue, netVars, ctlVars, Place
<1>15. ASSUME NEW k \in Keys, Invalidate(k) \/ OtherPublishes(k) \/ Damage(k)
              \/ OtherLocks(k) \/ OtherUnlocks(k)
       PROVE  Place'
  BY <1>0, <1>15, SamePlace DEF Invalidate, OtherPublishes, Damage, OtherLocks,
     OtherUnlocks, taskVars, netVars, ctlVars, Place
<1>16. CASE UNCHANGED vars
  BY <1>0, <1>16, SamePlace DEF vars, taskVars, netVars, ctlVars, Place
<1> QED
  BY <1>1, <1>2, <1>3, <1>4, <1>5, <1>6, <1>7, <1>8, <1>9, <1>10, <1>11, <1>12,
     <1>13, <1>14, <1>15, <1>16, BeginPassPlace, ConstantsAssumption
     DEF Next, WorkerStep

\* A stamp that is made fits the type.
LEMMA StampType ==
    ASSUME Others, NEW k \in Keys
    PROVE  Stamp(k) \in [Keys -> {"none", "stale", "match"}]
BY DEF Others, Stamp

\* The rest of the types is preserved.
LEMMA OthersStep == IInv /\ [Next]_vars => Others'
<1> SUFFICES ASSUME IInv, [Next]_vars PROVE Others'
  OBVIOUS
<1>0. Others
  BY DEF IInv
<1>1. ASSUME NEW c \in Calls, StartCall(c) \/ CallStep(c) \/ AskCancel(c) PROVE Others'
  <2>1. CASE Submit(c)
    <3>1. sequence' = sequence \/ sequence' = sequence + 1
      BY <2>1 DEF Submit, Subscribe, Conflict, Enqueue
    <3>2. sequence' \in Nat
      BY <1>0, <3>1 DEF Others
    <3>3. UNCHANGED <<netVars, diskVars, ctlVars>>
      BY <2>1 DEF Submit
    <3> QED
      BY <1>0, <3>2, <3>3 DEF Others, netVars, diskVars, ctlVars
  <2>2. CASE ~Submit(c)
    <3>1. UNCHANGED <<netVars, diskVars, sequence, ctlVars>>
      BY <1>1, <2>2 DEF StartCall, CallStep, AskCancel, SkipDuplicate, FindFull,
            PollWhileFull, EndSubmit, WithdrawAndReturn, ReturnComplete
    <3> QED
      BY <1>0, <3>1 DEF Others, netVars, diskVars, ctlVars
  <2> QED
    BY <2>1, <2>2
<1>2. CASE BeginPass \/ AbandonPass \/ EndPass \/ EndReading \/ Drain \/ NetworkStep \/ Stop \/ Join
  <2>1. UNCHANGED <<multiplexed, diskVars, sequence, otherRuns>>
    BY <1>2 DEF BeginPass, AbandonPass, EndPass, EndReading, Drain, NetworkStep,
          PerformFailed, Perform, Stop, Join, netVars, ctlVars
  <2>2. stopper' \in {stopper, "joining", "joined"}
    BY <1>2 DEF BeginPass, AbandonPass, EndPass, EndReading, Drain, NetworkStep,
          PerformFailed, Perform, Stop, Join, netVars, ctlVars
  <2> QED
    BY <1>0, <2>1, <2>2 DEF Others, diskVars
<1>3. ASSUME NEW k \in Keys,
             DropUnwanted(k) \/ SkipHost(k) \/ StartFailed(k) \/ StartLocking(k)
             \/ LockBusy(k) \/ BeginTransfer(k) \/ TransferRefused(k) \/ RetryDue(k)
             \/ OtherUnlocks(k)
      PROVE  Others'
  <2>1. UNCHANGED <<netVars, diskVars, sequence, ctlVars>>
    BY <1>3 DEF DropUnwanted, SkipHost, StartFailed, StartLocking, LockBusy,
          BeginTransfer, TransferRefused, RetryDue, OtherUnlocks
  <2> QED
    BY <1>0, <2>1 DEF Others, netVars, diskVars, ctlVars
<1>4. ASSUME NEW k \in Keys, StartCached(k) \/ FoundAfterLock(k) PROVE Others'
  BY <1>0, <1>4, StampType DEF StartCached, FoundAfterLock, Others, netVars, ctlVars
<1>5. ASSUME NEW k \in Keys, CopyLocal(k) \/ Invalidate(k) \/ OtherPublishes(k) \/ Damage(k)
      PROVE  Others'
  BY <1>0, <1>5 DEF CopyLocal, Publish, Invalidate, OtherPublishes, Damage, Touched, Others,
     netVars, ctlVars
<1>6. ASSUME NEW k \in Keys, TransferDelivered(k) \/ TransferRetry(k) \/ TransferFailed(k)
      PROVE  Others'
  <2>1. k \in active /\ info[k] \in Task
    BY <1>6 DEF IInv, Accounts, Place, Reading, TransferDelivered, TransferRetry, TransferFailed
  <2>2. NoteProtocol(k) /\ UNCHANGED <<sequence, ctlVars>>
    BY <1>6 DEF TransferDelivered, TransferRetry, TransferFailed
  <2>3. multiplexed' \subseteq Hosts
    <3>1. HostOfTask(k) \in Hosts
      BY <2>1 DEF IInv, Accounts
    <3> QED
      BY <1>0, <2>2, <3>1 DEF NoteProtocol, Others
  <2>4. file' \in [Keys -> {"bad", "good"}] /\ stamp' \in [Keys -> {"none", "stale", "match"}]
    BY <1>0, <1>6 DEF TransferDelivered, TransferRetry, TransferFailed, Publish, Others, diskVars
  <2> QED
    BY <1>0, <2>2, <2>3, <2>4 DEF Others, ctlVars
<1>7. ASSUME NEW k \in Keys, OtherLocks(k) PROVE Others'
  BY <1>0, <1>7 DEF OtherLocks, Others, netVars, diskVars
<1>8. CASE UNCHANGED vars
  BY <1>0, <1>8 DEF vars, Others, netVars, diskVars, ctlVars
<1> QED
  BY <1>1, <1>2, <1>3, <1>4, <1>5, <1>6, <1>7, <1>8, ConstantsAssumption
     DEF Next, WorkerStep

-----------------------------------------------------------------------------
(***************************************************************************)
(* Slots is preserved.  Four things happen to the slots of a call: it asks *)
(* for its tiles, it submits one, the worker answers it, and it waits.     *)
(***************************************************************************)

\* The slots of a call that are answered.
Answered(c) == {k \in Keys : results[c][k] \in Outcomes}

\* Nothing is asked or answered; calls may give up and the service may stop.
LEMMA QuietSlots ==
    ASSUME Slots, UNCHANGED <<reqs, pos, results, finished>>,
           \A k \in Keys : info'[k].subscribers = info[k].subscribers,
           pc' \in [Calls -> {"idle", "submit", "full", "wait", "returned"}],
           cancelAsked' \in [Calls -> BOOLEAN], cancelled' \in [Calls -> BOOLEAN],
           stopped => stopped',
           \A c \in Calls :
                /\ pc'[c] = "idle" => pc[c] = "idle"
                /\ cancelled[c] => cancelled'[c]
                /\ cancelled'[c] => cancelAsked'[c] \/ stopped'
    PROVE  Slots'
<1>1. \A c \in Calls : Submitted(c)' = Submitted(c)
  BY DEF Submitted
<1>2. ASSUME NEW c \in Calls, NEW k \in Keys PROVE SlotOK(c, k)'
  <2>1. SlotOK(c, k)
    BY DEF Slots
  <2>2. c \in info[k].subscribers <=> c \in info'[k].subscribers
    OBVIOUS
  <2> QED
    BY <1>1, <2>1, <2>2 DEF SlotOK
<1>3. ASSUME NEW c \in Calls PROVE CallOK(c)'
  BY DEF Slots, CallOK
<1>4. /\ reqs' \in [Calls -> Seq(Request)] /\ pos' \in [Calls -> Nat \ {0}]
      /\ results' \in [Calls -> [Keys -> Outcomes \cup {"Absent", "Pending"}]]
      /\ finished' = [c \in Calls |-> Cardinality({k \in Keys : results'[c][k] \in Outcomes})]
  BY DEF Slots
<1> QED
  BY <1>2, <1>3, <1>4 DEF Slots

\* The same when the calls do nothing at all.
LEMMA WorkerSlots ==
    ASSUME Slots, UNCHANGED <<batchVars, callVars>>, stopped => stopped',
           \A k \in Keys : info'[k].subscribers = info[k].subscribers
    PROVE  Slots'
<1>1. UNCHANGED <<reqs, pos, results, finished, pc, cancelAsked, cancelled>>
  BY DEF batchVars, callVars
<1>2. /\ pc' \in [Calls -> {"idle", "submit", "full", "wait", "returned"}]
      /\ cancelAsked' \in [Calls -> BOOLEAN] /\ cancelled' \in [Calls -> BOOLEAN]
  BY <1>1 DEF Slots
<1>3. \A c \in Calls :
        /\ pc'[c] = "idle" => pc[c] = "idle"
        /\ cancelled[c] => cancelled'[c]
        /\ cancelled'[c] => cancelAsked'[c] \/ stopped'
  BY <1>1, Zenon DEF Slots, CallOK
<1> QED
  BY <1>1, <1>2, <1>3, QuietSlots

\* The worker answers: a slot that waits for one of the tasks is answered and
\* counted once, all others stay as they are.
LEMMA FinishSlots ==
    ASSUME Slots, NEW S \in SUBSET Keys, NEW outcome \in Outcomes,
           Finish(S, outcome), UNCHANGED <<callVars, stopped>>
    PROVE  Slots'
<1>1. ASSUME NEW c \in Calls, NEW k \in Keys
      PROVE  results'[c][k] = IF k \in S /\ Waiting(c, k)
                              THEN IF cancelled[c] THEN "Cancelled" ELSE outcome
                              ELSE results[c][k]
  BY DEF Finish, Deliver
<1>2. results' \in [Calls -> [Keys -> Outcomes \cup {"Absent", "Pending"}]]
  <2>1. ASSUME NEW c \in Calls, NEW k \in Keys
        PROVE  results'[c][k] \in Outcomes \cup {"Absent", "Pending"}
    BY <1>1 DEF Outcomes, Slots
  <2>2. results' = [c \in Calls |-> [k \in Keys |-> results'[c][k]]]
    BY DEF Finish, Deliver
  <2> QED
    BY <2>1, <2>2
<1>3. ASSUME NEW c \in Calls
      PROVE  finished'[c] = Cardinality(Answered(c)')
  <2> DEFINE new == {k \in S : Waiting(c, k)}
  <2>1. Answered(c)' = Answered(c) \cup new
    BY <1>1 DEF Answered, Waiting, Outcomes
  <2>2. Answered(c) \cap new = {}
    BY DEF Answered, Waiting, Outcomes
  <2>3. new \in SUBSET Keys /\ Answered(c) \in SUBSET Keys
    BY DEF Answered
  <2>4. /\ IsFiniteSet(new) /\ IsFiniteSet(Answered(c))
        /\ Cardinality(new) \in Nat /\ Cardinality(Answered(c)) \in Nat
    BY <2>3, FiniteKeys
  <2>5. Cardinality(Answered(c)') = Cardinality(Answered(c)) + Cardinality(new)
    <3>1. Cardinality(Answered(c) \cup new)
            = Cardinality(Answered(c)) + Cardinality(new) - Cardinality(Answered(c) \cap new)
      BY <2>4, FS_Union
    <3>2. Cardinality(Answered(c) \cap new) = 0
      BY <2>2, FS_EmptySet
    <3> QED
      BY <2>1, <2>4, <3>1, <3>2
  <2>6. finished'[c] = finished[c] + Cardinality(new)
    BY DEF Finish, Deliver
  <2>7. finished[c] = Cardinality(Answered(c))
    BY DEF Answered, Slots
  <2> QED
    BY <2>5, <2>6, <2>7
<1>4. finished' = [c \in Calls |-> Cardinality({k \in Keys : results'[c][k] \in Outcomes})]
  BY <1>3 DEF Answered, Finish, Deliver
<1>5. UNCHANGED <<pc, reqs, pos, cancelAsked, cancelled, stopped>>
  BY DEF callVars
<1>6. ASSUME NEW c \in Calls PROVE Submitted(c)' = Submitted(c)
  BY <1>5 DEF Submitted
<1>7. ASSUME NEW k \in Keys
      PROVE  info'[k].subscribers = IF k \in S THEN {} ELSE info[k].subscribers
  BY DEF Finish, NoTask
<1>8. ASSUME NEW c \in Calls, NEW k \in Keys PROVE SlotOK(c, k)'
  <2>0. SlotOK(c, k)
    BY DEF Slots
  <2>1. CASE Waiting(c, k) /\ k \in S
    <3>1. results'[c][k] \in Outcomes /\ results[c][k] = "Pending" /\ c \notin info'[k].subscribers
      BY <1>1, <1>7, <2>1 DEF Outcomes, Waiting
    <3>2. results'[c][k] # "Pending" /\ results'[c][k] # "Absent" /\ k \in Submitted(c)
      BY <2>0, <2>1, <3>1 DEF Outcomes, Waiting, SlotOK
    <3> QED
      BY <1>5, <1>6, <2>0, <3>1, <3>2 DEF SlotOK
  <2>2. CASE ~(Waiting(c, k) /\ k \in S)
    <3>1. results'[c][k] = results[c][k]
      BY <1>1, <2>2
    <3>2. c \in info'[k].subscribers => c \in info[k].subscribers
      BY <1>7
    <3>3. results[c][k] = "Pending" /\ c \in info[k].subscribers => c \in info'[k].subscribers
      BY <1>7, <2>2 DEF Waiting
    <3> QED
      BY <1>5, <1>6, <2>0, <3>1, <3>2, <3>3 DEF SlotOK
  <2> QED
    BY <2>1, <2>2
<1>9. ASSUME NEW c \in Calls PROVE CallOK(c)'
  BY <1>5 DEF CallOK, Slots
<1> QED
  BY <1>2, <1>4, <1>5, <1>8, <1>9 DEF Slots

\* The tiles of a new call are open, all others absent, and no task knows it.
LEMMA StartSlots ==
    ASSUME IInv, NEW c \in Calls, StartCall(c)
    PROVE  Slots'
<1>0. Slots
  BY DEF IInv
<1>1. PICK r \in Requests[c] :
        /\ reqs' = [reqs EXCEPT ![c] = r]
        /\ results' = [results EXCEPT ![c] =
                [k \in Keys |-> IF k \in KeysOf(r) THEN "Pending" ELSE "Absent"]]
  BY DEF StartCall
<1>2. r \in Seq(Request)
  BY ConstantsAssumption
<1>3. /\ pc' = [pc EXCEPT ![c] = "submit"] /\ pc[c] = "idle" /\ pos[c] = 1
      /\ UNCHANGED <<info, pos, finished, cancelAsked, cancelled, stopped>>
  BY <1>0 DEF StartCall, taskVars, ctlVars, Slots, CallOK
<1>4. /\ pc' \in [Calls -> {"idle", "submit", "full", "wait", "returned"}]
      /\ reqs' \in [Calls -> Seq(Request)]
      /\ results' \in [Calls -> [Keys -> Outcomes \cup {"Absent", "Pending"}]]
  BY <1>0, <1>1, <1>2, <1>3 DEF Slots
<1>5. /\ \A d \in Calls \ {c} : /\ results'[d] = results[d] /\ reqs'[d] = reqs[d]
                                /\ Submitted(d)' = Submitted(d) /\ pc'[d] = pc[d]
      /\ reqs'[c] = r /\ pc'[c] = "submit"
      /\ \A k \in Keys : results'[c][k] = IF k \in KeysOf(r) THEN "Pending" ELSE "Absent"
  BY <1>0, <1>1, <1>3 DEF Submitted, Slots
<1>6. Submitted(c) = {} /\ Submitted(c)' = {}
  <2>1. ASSUME NEW q \in Seq(Request) PROVE {j \in DOMAIN q : j < 1} = {}
    BY <2>1
  <2>2. {j \in DOMAIN reqs[c] : j < pos[c]} = {} /\ {j \in DOMAIN r : j < pos[c]} = {}
    BY <1>0, <1>2, <1>3, <2>1 DEF Slots
  <2> QED
    BY <1>3, <1>5, <2>2 DEF Submitted
<1>7. \A k \in Keys : c \notin info[k].subscribers
  BY <1>0, <1>6 DEF Slots, SlotOK
<1>8. Answered(c) = {} /\ Answered(c)' = {}
  <2>1. \A k \in Keys : results[c][k] = "Absent"
    <3>1. KeysOf(reqs[c]) = {}
      BY <1>0, <1>3 DEF KeysOf, Slots, CallOK
    <3> QED
      BY <1>0, <3>1 DEF Slots, SlotOK
  <2> QED
    BY <1>5, <2>1 DEF Answered, Outcomes
<1>9. finished' = [d \in Calls |-> Cardinality({k \in Keys : results'[d][k] \in Outcomes})]
  <2>1. ASSUME NEW d \in Calls PROVE Answered(d)' = Answered(d)
    BY <1>5, <1>8 DEF Answered
  <2> QED
    BY <1>0, <1>3, <2>1 DEF Answered, Slots
<1>10. ASSUME NEW d \in Calls, NEW k \in Keys PROVE SlotOK(d, k)'
  <2>1. CASE d = c
    BY <1>3, <1>5, <1>6, <1>7, <2>1 DEF SlotOK
  <2>2. CASE d # c
    BY <1>0, <1>3, <1>5, <2>2 DEF SlotOK, Slots
  <2> QED
    BY <2>1, <2>2
<1>11. ASSUME NEW d \in Calls PROVE CallOK(d)'
  BY <1>0, <1>3, <1>5 DEF CallOK, Slots
<1> QED
  BY <1>0, <1>3, <1>4, <1>9, <1>10, <1>11 DEF Slots

\* What the call has submitted grows by the key at its position.
LEMMA SubmittedGrows ==
    ASSUME Slots, NEW c \in Calls, pos[c] \in DOMAIN reqs[c],
           UNCHANGED reqs, pos' = [pos EXCEPT ![c] = @ + 1]
    PROVE  /\ Submitted(c)' = Submitted(c) \cup {reqs[c][pos[c]].key}
           /\ \A d \in Calls \ {c} : Submitted(d)' = Submitted(d)
           /\ pos' \in [Calls -> Nat \ {0}]
<1>1. /\ pos \in [Calls -> Nat \ {0}] /\ reqs[c] \in Seq(Request)
      /\ pos'[c] = pos[c] + 1 /\ \A d \in Calls \ {c} : pos'[d] = pos[d]
      /\ pos' \in [Calls -> Nat \ {0}]
  BY DEF Slots
<1>2. {j \in DOMAIN reqs[c] : j < pos[c] + 1} = {j \in DOMAIN reqs[c] : j < pos[c]} \cup {pos[c]}
  <2>1. \A j \in DOMAIN reqs[c] : j \in Nat
    BY <1>1
  <2>2. pos[c] \in Nat
    BY <1>1
  <2> QED
    BY <2>1, <2>2
<1> QED
  BY <1>1, <1>2 DEF Submitted

\* A key asked for before is one already submitted.
LEMMA DuplicateSubmitted ==
    ASSUME Slots, NEW c \in Calls, pos[c] \in DOMAIN reqs[c]
    PROVE  Duplicate(reqs[c], pos[c]) <=> reqs[c][pos[c]].key \in Submitted(c)
<1>1. pos[c] \in Nat \ {0} /\ reqs[c] \in Seq(Request)
  BY DEF Slots
<1>2. 1..(pos[c] - 1) = {j \in DOMAIN reqs[c] : j < pos[c]}
  <2>1. DOMAIN reqs[c] = 1..Len(reqs[c]) /\ Len(reqs[c]) \in Nat
    BY <1>1
  <2> QED
    BY <1>1, <2>1
<1> QED
  BY <1>2 DEF Duplicate, Submitted

\* A repeated request is passed over: nothing new is submitted.
LEMMA SkipSlots ==
    ASSUME IInv, NEW c \in Calls, SkipDuplicate(c)
    PROVE  Slots'
<1>0. Slots
  BY DEF IInv
<1>1. pos[c] \in DOMAIN reqs[c] /\ Duplicate(reqs[c], pos[c])
  <2>1. reqs[c] \in Seq(Request) /\ pos[c] \in Nat \ {0} /\ pos[c] <= Len(reqs[c])
    BY <1>0 DEF SkipDuplicate, Slots
  <2>2. pos[c] \in 1..Len(reqs[c]) /\ DOMAIN reqs[c] = 1..Len(reqs[c])
    BY <2>1
  <2> QED
    BY <2>2 DEF SkipDuplicate
<1>2. /\ UNCHANGED <<info, results, finished, pc, reqs, cancelAsked, cancelled, stopped>>
      /\ pos' = [pos EXCEPT ![c] = @ + 1] /\ pc[c] # "idle"
  BY DEF SkipDuplicate, taskVars, batchVars, ctlVars
<1>3. ASSUME NEW d \in Calls PROVE Submitted(d)' = Submitted(d)
  <2>1. reqs[c][pos[c]].key \in Submitted(c)
    BY <1>0, <1>1, DuplicateSubmitted
  <2>2. /\ Submitted(c)' = Submitted(c) \cup {reqs[c][pos[c]].key}
        /\ \A x \in Calls \ {c} : Submitted(x)' = Submitted(x)
    BY <1>0, <1>1, <1>2, SubmittedGrows
  <2> QED
    BY <2>1, <2>2
<1>4. pos' \in [Calls -> Nat \ {0}] /\ \A d \in Calls \ {c} : pos'[d] = pos[d]
  BY <1>0, <1>1, <1>2, SubmittedGrows DEF Slots
<1>5. ASSUME NEW d \in Calls, NEW k \in Keys PROVE SlotOK(d, k)'
  BY <1>0, <1>2, <1>3 DEF SlotOK, Slots
<1>6. ASSUME NEW d \in Calls PROVE CallOK(d)'
  BY <1>0, <1>2, <1>4 DEF CallOK, Slots
<1> QED
  BY <1>0, <1>2, <1>4, <1>5, <1>6 DEF Slots

\* A submitted tile is shared, conflicts with another source, or gets a task:
\* its slot is then owned by the task, or answered.
LEMMA SubmitSlots ==
    ASSUME IInv, NEW c \in Calls, Submit(c)
    PROVE  Slots'
<1> DEFINE r == reqs[c][pos[c]]
           k == r.key
<1>0. Slots /\ Accounts
  BY DEF IInv
<1>1. pos[c] \in DOMAIN reqs[c] /\ r \in Request /\ k \in Keys
  BY NextRequest DEF Submit
<1>2. k \notin Submitted(c) /\ k \in KeysOf(reqs[c])
  BY <1>0, <1>1, DuplicateSubmitted DEF Submit, Submitting, KeysOf
<1>3. /\ UNCHANGED <<pc, reqs, cancelAsked, cancelled, stopped>>
      /\ pos' = [pos EXCEPT ![c] = @ + 1] /\ pc[c] = "submit"
  BY DEF Submit, Submitting, ctlVars
<1>4. /\ Submitted(c)' = Submitted(c) \cup {k}
      /\ \A d \in Calls \ {c} : Submitted(d)' = Submitted(d)
      /\ pos' \in [Calls -> Nat \ {0}]
      /\ \A d \in Calls \ {c} : pos'[d] = pos[d]
  BY <1>0, <1>1, <1>3, SubmittedGrows DEF Slots
<1>5. results[c][k] = "Pending" /\ c \notin info[k].subscribers
  BY <1>0, <1>1, <1>2 DEF Slots, SlotOK
<1> HIDE DEF r, k
<1>6. ASSUME NEW d \in Calls PROVE CallOK(d)'
  BY <1>0, <1>3, <1>4 DEF CallOK, Slots
<1>7. CASE Subscribe(c, r) \/ Enqueue(c, r)
  <2>1. UNCHANGED <<results, finished>>
    BY <1>7 DEF Subscribe, Enqueue, batchVars
  <2>2. /\ \A x \in Keys \ {k} : info'[x] = info[x]
        /\ info'[k].subscribers = info[k].subscribers \cup {c}
    <3>1. CASE Subscribe(c, r)
      <4>1. info[k] \in Task /\ DOMAIN info = Keys
        BY <1>0, <1>1, <3>1 DEF Subscribe, Accounts, k
      <4> DEFINE one == [info EXCEPT ![k].subscribers = @ \cup {c}]
                 p == IF one[k].priority > Priority[c] THEN one[k].priority ELSE Priority[c]
      <4>2. info' = [one EXCEPT ![k].priority = p]
        BY <1>1, <3>1, <4>1 DEF Subscribe, k
      <4>3. /\ one[k] = [info[k] EXCEPT !.subscribers = @ \cup {c}]
            /\ \A x \in Keys \ {k} : one[x] = info[x]
            /\ DOMAIN one = Keys
        BY <1>1, <4>1
      <4>4. one[k].subscribers = info[k].subscribers \cup {c}
        BY <4>1, <4>3 DEF Task
      <4> HIDE DEF one, p
      <4>5. info'[k].subscribers = one[k].subscribers /\ \A x \in Keys \ {k} : info'[x] = one[x]
        BY <1>1, <4>2, <4>3
      <4> QED
        BY <4>3, <4>4, <4>5
    <3>2. CASE Enqueue(c, r)
      <4>1. info[k] = NoTask /\ DOMAIN info = Keys
        BY <1>0, <1>1, <3>2 DEF Enqueue, Accounts, k
      <4>2. info'[k].subscribers = {c} /\ \A x \in Keys \ {k} : info'[x] = info[x]
        BY <1>1, <3>2, <4>1 DEF Enqueue, k
      <4> QED
        BY <4>1, <4>2 DEF NoTask
    <3> QED
      BY <1>7, <3>1, <3>2
  <2>3. ASSUME NEW d \in Calls, NEW x \in Keys PROVE SlotOK(d, x)'
    <3>0. SlotOK(d, x)
      BY <1>0 DEF Slots
    <3>1. CASE d = c /\ x = k
      BY <1>2, <1>3, <1>4, <1>5, <2>1, <2>2, <3>0, <3>1 DEF SlotOK
    <3>2. CASE d # c \/ x # k
      <4>1. d \in info'[x].subscribers <=> d \in info[x].subscribers
        BY <2>2, <3>2
      <4>2. x \in Submitted(d)' <=> x \in Submitted(d)
        BY <1>4, <3>2
      <4> QED
        BY <1>3, <2>1, <3>0, <4>1, <4>2 DEF SlotOK
    <3> QED
      BY <3>1, <3>2
  <2> QED
    BY <1>0, <1>3, <1>4, <1>6, <2>1, <2>3 DEF Slots
<1>8. CASE Conflict(c, r)
  <2>1. /\ results' = [results EXCEPT ![c][k] = "Failed"]
        /\ finished' = [finished EXCEPT ![c] = @ + 1] /\ UNCHANGED info
    BY <1>8 DEF Conflict, k
  <2>2. /\ results' \in [Calls -> [Keys -> Outcomes \cup {"Absent", "Pending"}]]
        /\ results'[c][k] = "Failed"
        /\ \A d \in Calls, x \in Keys : d # c \/ x # k => results'[d][x] = results[d][x]
    BY <1>0, <1>1, <2>1 DEF Slots, Outcomes, k
  <2>3. ASSUME NEW d \in Calls PROVE finished'[d] = Cardinality(Answered(d)')
    <3>1. CASE d = c
      <4>1. Answered(c)' = Answered(c) \cup {k} /\ k \notin Answered(c)
        BY <1>1, <1>5, <2>2 DEF Answered, Outcomes, k
      <4>2. IsFiniteSet(Answered(c)) /\ Cardinality(Answered(c)) \in Nat
        BY FiniteKeys DEF Answered
      <4>3. Cardinality(Answered(c)') = Cardinality(Answered(c)) + 1
        BY <4>1, <4>2, FS_AddElement
      <4>4. finished'[c] = finished[c] + 1 /\ finished[c] = Cardinality(Answered(c))
        BY <1>0, <2>1 DEF Slots, Answered
      <4> QED
        BY <3>1, <4>3, <4>4
    <3>2. CASE d # c
      <4>1. Answered(d)' = Answered(d)
        BY <2>2, <3>2 DEF Answered
      <4>2. finished'[d] = finished[d] /\ finished[d] = Cardinality(Answered(d))
        BY <1>0, <2>1, <3>2 DEF Slots, Answered
      <4> QED
        BY <4>1, <4>2
    <3> QED
      BY <3>1, <3>2
  <2>4. finished' = [d \in Calls |-> Cardinality({x \in Keys : results'[d][x] \in Outcomes})]
    BY <1>0, <2>1, <2>3 DEF Answered, Slots
  <2>5. ASSUME NEW d \in Calls, NEW x \in Keys PROVE SlotOK(d, x)'
    <3>0. SlotOK(d, x)
      BY <1>0 DEF Slots
    <3>1. CASE d = c /\ x = k
      BY <1>2, <1>3, <1>4, <1>5, <2>1, <2>2, <3>0, <3>1 DEF SlotOK
    <3>2. CASE d # c \/ x # k
      <4>1. x \in Submitted(d)' <=> x \in Submitted(d)
        BY <1>4, <3>2
      <4>2. results'[d][x] = results[d][x]
        BY <2>2, <3>2
      <4> QED
        BY <1>3, <2>1, <3>0, <4>1, <4>2 DEF SlotOK
    <3> QED
      BY <3>1, <3>2
  <2> QED
    BY <1>0, <1>3, <1>4, <1>6, <2>2, <2>4, <2>5 DEF Slots
<1> QED
  BY <1>7, <1>8 DEF Submit, r

\* Slots is preserved by every step.
LEMMA SlotsStep == IInv /\ [Next]_vars => Slots'
<1> SUFFICES ASSUME IInv, [Next]_vars PROVE Slots'
  OBVIOUS
<1>0. Slots /\ Accounts /\ Place
  BY DEF IInv
<1>1. ASSUME NEW c \in Calls, FindFull(c) \/ PollWhileFull(c) \/ EndSubmit(c)
             \/ WithdrawAndReturn(c) \/ ReturnComplete(c) \/ AskCancel(c)
      PROVE  Slots'
  <2>1. UNCHANGED <<info, results, finished, reqs, pos, stopped>>
    BY <1>1 DEF FindFull, PollWhileFull, EndSubmit, WithdrawAndReturn, ReturnComplete,
          AskCancel, taskVars, batchVars, ctlVars
  <2>2. \E w \in {"submit", "full", "wait", "returned"} :
            pc' = pc \/ pc' = [pc EXCEPT ![c] = w]
    BY <1>1 DEF FindFull, PollWhileFull, EndSubmit, WithdrawAndReturn, ReturnComplete,
          AskCancel
  <2>3. /\ pc' \in [Calls -> {"idle", "submit", "full", "wait", "returned"}]
        /\ \A d \in Calls : pc'[d] = "idle" => pc[d] = "idle"
    BY <1>0, <2>2 DEF Slots
  <2>4. cancelAsked' = cancelAsked \/ cancelAsked' = [cancelAsked EXCEPT ![c] = TRUE]
    BY <1>1 DEF FindFull, PollWhileFull, EndSubmit, WithdrawAndReturn, ReturnComplete,
          AskCancel
  <2>5. cancelAsked' \in [Calls -> BOOLEAN] /\ \A d \in Calls : cancelAsked[d] => cancelAsked'[d]
    BY <1>0, <2>4, Zenon DEF Slots
  <2>6. \/ cancelled' = cancelled
        \/ cancelled' = [cancelled EXCEPT ![c] = @ \/ cancelAsked[c]]
        \/ (stopped \/ cancelAsked[c]) /\ cancelled' = [cancelled EXCEPT ![c] = TRUE]
    BY <1>1 DEF FindFull, PollWhileFull, EndSubmit, WithdrawAndReturn, ReturnComplete,
          AskCancel
  <2>7. /\ cancelled' \in [Calls -> BOOLEAN]
        /\ \A d \in Calls : cancelled[d] => cancelled'[d]
        /\ \A d \in Calls : cancelled'[d] => cancelled[d] \/ cancelAsked[d] \/ stopped
    BY <1>0, <2>6 DEF Slots
  <2>8. \A d \in Calls : cancelled'[d] => cancelAsked'[d] \/ stopped'
    BY <1>0, <2>1, <2>5, <2>7 DEF Slots, CallOK
  <2> QED
    BY <1>0, <2>1, <2>3, <2>5, <2>7, <2>8, QuietSlots
<1>2. CASE BeginPass
  <2>1. {k \in tasks : ~Wanted(k)} \in SUBSET Keys /\ "Cancelled" \in Outcomes
    BY <1>0 DEF Accounts, Outcomes
  <2>2. Finish({k \in tasks : ~Wanted(k)}, "Cancelled") /\ UNCHANGED <<callVars, stopped>>
    BY <1>2 DEF BeginPass, ctlVars
  <2> QED
    BY <1>0, <2>1, <2>2, FinishSlots
<1>3. CASE Drain
  <2>1. tasks \in SUBSET Keys /\ "Cancelled" \in Outcomes
    BY <1>0 DEF Accounts, Outcomes
  <2> QED
    BY <1>0, <1>3, <2>1, FinishSlots DEF Drain, ctlVars
<1>4. ASSUME NEW k \in Keys,
             DropUnwanted(k) \/ StartCached(k) \/ StartFailed(k) \/ FoundAfterLock(k)
             \/ CopyLocal(k) \/ TransferRefused(k) \/ TransferDelivered(k) \/ TransferFailed(k)
      PROVE  Slots'
  <2>1. \E outcome \in Outcomes : Finish({k}, outcome)
    BY <1>4 DEF DropUnwanted, StartCached, StartFailed, FoundAfterLock, CopyLocal,
          TransferRefused, TransferDelivered, TransferFailed, Outcomes
  <2>2. UNCHANGED <<callVars, stopped>>
    BY <1>4 DEF DropUnwanted, StartCached, StartFailed, FoundAfterLock, CopyLocal,
          TransferRefused, TransferDelivered, TransferFailed, ctlVars
  <2> QED
    BY <1>0, <2>1, <2>2, FinishSlots
<1>5. ASSUME NEW k \in Keys, LockBusy(k) \/ RetryDue(k) \/ TransferRetry(k)
      PROVE  Slots'
  <2>1. info[k] \in Task
    BY <1>0, <1>5 DEF LockBusy, RetryDue, TransferRetry, Locking, Reading, Place, Accounts
  <2>2. \E t : /\ info' = [info EXCEPT ![k] = t]
               /\ t.subscribers = info[k].subscribers
    <3>1. CASE LockBusy(k) \/ RetryDue(k)
      <4>1. \E b \in BOOLEAN : info' = [info EXCEPT ![k] = [@ EXCEPT !.ready = b]]
        BY <3>1 DEF LockBusy, RetryDue
      <4>2. \A b \in BOOLEAN : [info[k] EXCEPT !.ready = b].subscribers = info[k].subscribers
        BY <2>1 DEF Task
      <4> QED
        BY <4>1, <4>2
    <3>2. CASE TransferRetry(k)
      <4>1. info' = [info EXCEPT ![k] = [@ EXCEPT !.attempt = info[k].attempt + 1, !.ready = FALSE]]
        BY <1>0, <2>1, <3>2 DEF TransferRetry, Task, Accounts
      <4>2. [info[k] EXCEPT !.attempt = info[k].attempt + 1, !.ready = FALSE].subscribers
                = info[k].subscribers
        BY <2>1 DEF Task
      <4> QED
        BY <4>1, <4>2
    <3> QED
      BY <1>5, <3>1, <3>2
  <2>3. \A x \in Keys : info'[x].subscribers = info[x].subscribers
    BY <1>0, <2>2 DEF Accounts
  <2>4. UNCHANGED <<batchVars, callVars, stopped>>
    BY <1>5 DEF LockBusy, RetryDue, TransferRetry, ctlVars
  <2> QED
    BY <1>0, <2>3, <2>4, WorkerSlots
<1>6. CASE AbandonPass \/ EndPass \/ EndReading \/ NetworkStep \/ Stop \/ Join
  <2>1. UNCHANGED <<info, batchVars, callVars>>
    BY <1>6 DEF AbandonPass, EndPass, EndReading, NetworkStep, PerformFailed, Perform, Stop,
          Join, taskVars
  <2>2. stopped' = stopped \/ stopped' = TRUE
    BY <1>6 DEF AbandonPass, EndPass, EndReading, NetworkStep, PerformFailed, Perform, Stop,
          Join, ctlVars
  <2>3. stopped => stopped'
    BY <2>2
  <2> QED
    BY <1>0, <2>1, <2>3, WorkerSlots
<1>7. ASSUME NEW k \in Keys, SkipHost(k) \/ StartLocking(k) \/ BeginTransfer(k)
             \/ Invalidate(k) \/ OtherPublishes(k) \/ Damage(k) \/ OtherLocks(k)
             \/ OtherUnlocks(k)
      PROVE  Slots'
  <2>1. UNCHANGED <<info, batchVars, callVars, stopped>>
    BY <1>7 DEF SkipHost, StartLocking, BeginTransfer, Invalidate, OtherPublishes, Damage,
          OtherLocks, OtherUnlocks, taskVars, ctlVars
  <2> QED
    BY <1>0, <2>1, WorkerSlots
<1>8. CASE UNCHANGED vars
  BY <1>0, <1>8, WorkerSlots DEF vars, taskVars, ctlVars
<1> QED
  BY <1>1, <1>2, <1>3, <1>4, <1>5, <1>6, <1>7, <1>8, StartSlots, SubmitSlots, SkipSlots,
     ConstantsAssumption DEF Next, WorkerStep, CallStep

-----------------------------------------------------------------------------
(***************************************************************************)
(* The invariant holds, and what follows from it.                          *)
(***************************************************************************)

\* It holds at the start.
LEMMA InvInit == Init => IInv
<1> SUFFICES ASSUME Init PROVE IInv
  OBVIOUS
<1>1. Accounts
  <2>1. \A h \in Hosts : OnHost(h) = {}
    BY DEF Init, OnHost
  <2>2. hosts = [h \in Hosts |-> Cardinality(OnHost(h))]
    BY <2>1, FS_EmptySet DEF Init
  <2>3. Cardinality(active) <= Concurrency /\ Cardinality(tasks) <= MaxQueued
    BY FS_EmptySet, Limits DEF Init
  <2>4. /\ info \in [Keys -> Task \cup {NoTask}] /\ \A k \in Keys : info[k] = NoTask
        /\ tasks = {} /\ active = {} /\ \A k \in Keys : lock[k] = "free"
        /\ lock \in [Keys -> {"free", "self", "other"}]
    BY DEF Init
  <2> QED
    BY <2>2, <2>3, <2>4 DEF Accounts
<1>2. Place
  BY DEF Init, Place
<1>3. Slots
  <2>1. \A c \in Calls : Answered(c) = {}
    BY DEF Init, Answered, Outcomes
  <2>2. finished = [c \in Calls |-> Cardinality({k \in Keys : results[c][k] \in Outcomes})]
    BY <2>1, FS_EmptySet DEF Init, Answered
  <2>3. ASSUME NEW c \in Calls, NEW k \in Keys PROVE SlotOK(c, k)
    BY DEF Init, SlotOK, KeysOf, Submitted, NoTask
  <2>4. ASSUME NEW c \in Calls PROVE CallOK(c)
    BY DEF Init, CallOK
  <2>5. reqs \in [Calls -> Seq(Request)]
    <3>1. <<>> \in Seq(Request)
      OBVIOUS
    <3> QED
      BY <3>1 DEF Init
  <2>6. /\ pc \in [Calls -> {"idle", "submit", "full", "wait", "returned"}]
        /\ pos \in [Calls -> Nat \ {0}]
        /\ results \in [Calls -> [Keys -> Outcomes \cup {"Absent", "Pending"}]]
        /\ cancelAsked \in [Calls -> BOOLEAN] /\ cancelled \in [Calls -> BOOLEAN]
    BY DEF Init
  <2> QED
    BY <2>2, <2>3, <2>4, <2>5, <2>6 DEF Slots
<1>4. Others
  BY DEF Init, Others
<1> QED
  BY <1>1, <1>2, <1>3, <1>4 DEF IInv

\* The inductive invariant holds in every reachable state: task map, handles,
\* counters and locks agree, the worker finds at each point of a pass what it
\* relies on, and every slot of every call has somebody to answer it.
THEOREM InvHolds == Spec => []IInv
<1>1. IInv /\ [Next]_vars => IInv'
  BY AccountsStep, PlaceStep, SlotsStep, OthersStep DEF IInv
<1> QED
  BY InvInit, <1>1, PTL DEF Spec

\* The types follow from the invariant.
LEMMA InvTypes == IInv => TypeOK
<1> SUFFICES ASSUME IInv PROVE TypeOK
  OBVIOUS
<1>1. \A h \in Hosts : hosts[h] \in Nat
  <2>1. ASSUME NEW h \in Hosts PROVE Cardinality(OnHost(h)) \in Nat
    BY FiniteKeys DEF OnHost, IInv, Accounts
  <2> QED
    BY <2>1 DEF IInv, Accounts
<1>2. \A c \in Calls : finished[c] \in Nat
  <2>1. ASSUME NEW c \in Calls PROVE Cardinality(Answered(c)) \in Nat
    BY FiniteKeys DEF Answered
  <2> QED
    BY <2>1 DEF IInv, Slots, Answered
<1>3. hosts \in [Hosts -> Nat] /\ finished \in [Calls -> Nat]
  BY <1>1, <1>2 DEF IInv, Accounts, Slots
<1>4. stopped \in BOOLEAN
  BY DEF IInv, Place
<1> QED
  BY <1>3, <1>4 DEF IInv, Accounts, Place, Slots, Others, TypeOK

\* Every open slot has a task that will answer it, and the count a call waits
\* for is the number of slots answered.
LEMMA InvBatches == IInv => BatchesAccounted
<1> SUFFICES ASSUME IInv PROVE BatchesAccounted
  OBVIOUS
<1>1. ASSUME NEW c \in Calls, NEW k \in Keys, c \in info[k].subscribers
      PROVE  k \in tasks /\ results[c][k] = "Pending"
  <2>1. info[k] # NoTask
    BY <1>1 DEF NoTask
  <2> QED
    BY <1>1, <2>1 DEF IInv, Accounts, Slots, SlotOK
<1>2. ASSUME NEW c \in Calls, NEW k \in Keys,
             results[c][k] = "Pending", k \in Submitted(c)
      PROVE  c \in info[k].subscribers
  BY <1>2 DEF IInv, Slots, SlotOK
<1>3. FinishedCounts
  BY DEF FinishedCounts, IInv, Slots
<1> QED
  BY <1>1, <1>2, <1>3, InvTypes DEF BatchesAccounted, PendingIsOwned

\* Handles, counters and locks agree.
LEMMA InvTransfers == IInv => TransfersAccounted /\ QueueBounded
BY DEF IInv, Accounts, TransfersAccounted, QueueBounded, OnHost

\* No call waits in vain or returns early: every slot a call has submitted and
\* nobody has answered belongs to a live task, and the call counts right.
THEOREM BatchesAreAccounted == Spec => []BatchesAccounted
BY InvHolds, InvBatches, PTL

\* Task map, multi handle, host counters and file locks agree, and the total
\* respects the concurrency limit.
THEOREM TransfersAreAccounted == Spec => []TransfersAccounted
BY InvHolds, InvTransfers, PTL

\* Calls, transfers and queue are all accounted for; in particular no
\* interleaving of submitting calls passes the queue limit.
THEOREM AllAreAccounted == Spec => []AllAccounted
<1>1. IInv => AllAccounted
  BY InvBatches, InvTransfers DEF AllAccounted
<1> QED
  BY <1>1, InvHolds, PTL

\* After the worker has left there is no task, transfer or lock, every tile a
\* call had submitted has been answered, and no late submission revives the
\* service.
THEOREM ShutdownIsClean == Spec => []ShutdownClean
<1>1. IInv => ShutdownClean
  <2> SUFFICES ASSUME IInv, worker = "exited"
               PROVE  /\ tasks = {} /\ active = {}
                      /\ \A c \in Calls : \A k \in Submitted(c) : results[c][k] \in Outcomes
                      /\ \A k \in Keys : lock[k] # "self"
                      /\ \A h \in Hosts : hosts[h] = 0
    BY DEF ShutdownClean
  <2>1. tasks = {} /\ active = {}
    BY DEF IInv, Accounts, Place
  <2>2. \A h \in Hosts : OnHost(h) = {}
    BY <2>1 DEF OnHost
  <2>3. \A h \in Hosts : hosts[h] = 0
    BY <2>2, FS_EmptySet DEF IInv, Accounts
  <2>4. ASSUME NEW c \in Calls, NEW k \in Submitted(c) PROVE results[c][k] \in Outcomes
    <3>1. k \in Keys /\ k \in KeysOf(reqs[c])
      <4>1. reqs[c] \in Seq(Request)
        BY DEF IInv, Slots
      <4>2. PICK i \in DOMAIN reqs[c] : reqs[c][i].key = k
        BY DEF Submitted
      <4>3. reqs[c][i] \in Request
        BY <4>1, <4>2
      <4> QED
        BY <4>2, <4>3 DEF Request, KeysOf
    <3>2. results[c][k] \in Outcomes \cup {"Absent", "Pending"} /\ SlotOK(c, k)
      BY <3>1 DEF IInv, Slots
    <3>3. c \notin info[k].subscribers
      BY <2>1, <3>1 DEF IInv, Accounts, NoTask
    <3> QED
      BY <3>1, <3>2, <3>3 DEF SlotOK
  <2> QED
    BY <2>1, <2>3, <2>4 DEF IInv, Accounts
<1> QED
  BY <1>1, InvHolds, PTL

\* A call is answered Cancelled only when it was itself cancelled or the service
\* stops; another subscriber that gives up takes nothing away from it.
THEOREM CancelsAreIsolated == Spec => CancelIsolated
<1> DEFINE Isolated == \A c \in Calls, k \in Keys :
        results[c][k] # "Cancelled" /\ results'[c][k] = "Cancelled"
            => cancelled[c] \/ stopped
<1>1. ASSUME NEW S, NEW outcome, Finish(S, outcome), NEW c \in Calls, NEW k \in Keys,
             results[c][k] # "Cancelled", results'[c][k] = "Cancelled"
      PROVE  k \in S /\ Waiting(c, k) /\ (cancelled[c] \/ outcome = "Cancelled")
  BY <1>1 DEF Finish, Deliver
<1>2. IInv /\ [Next]_vars => Isolated
  <2> SUFFICES ASSUME IInv, [Next]_vars, NEW c \in Calls, NEW k \in Keys,
                      results[c][k] # "Cancelled", results'[c][k] = "Cancelled"
               PROVE  cancelled[c] \/ stopped
    OBVIOUS
  <2>1. CASE BeginPass
    <3>1. k \in {x \in tasks : ~Wanted(x)} /\ Waiting(c, k)
      BY <1>1, <2>1 DEF BeginPass
    <3> QED
      BY <3>1 DEF Wanted, Waiting
  <2>2. CASE Drain
    BY <2>2 DEF Drain
  <2>3. ASSUME NEW l \in Keys, DropUnwanted(l) PROVE cancelled[c]
    <3>1. k = l /\ Waiting(c, k)
      BY <1>1, <2>3 DEF DropUnwanted
    <3> QED
      BY <2>3, <3>1 DEF DropUnwanted, Wanted, Waiting
  <2>4. ASSUME NEW l \in Keys,
               StartCached(l) \/ StartFailed(l) \/ FoundAfterLock(l) \/ CopyLocal(l)
               \/ TransferRefused(l) \/ TransferDelivered(l) \/ TransferFailed(l)
        PROVE  cancelled[c]
    <3>1. \E outcome \in {"Cached", "Downloaded", "Failed"} : Finish({l}, outcome)
      BY <2>4 DEF StartCached, StartFailed, FoundAfterLock, CopyLocal, TransferRefused,
            TransferDelivered, TransferFailed
    <3> QED
      BY <1>1, <3>1
  <2>5. ASSUME NEW d \in Calls, StartCall(d) \/ Submit(d) PROVE FALSE
    <3>1. results \in [Calls -> [Keys -> Outcomes \cup {"Absent", "Pending"}]]
      BY DEF IInv, Slots
    <3>2. CASE StartCall(d)
      BY <3>1, <3>2 DEF StartCall
    <3>3. CASE Submit(d)
      <4>1. \/ results' = results
            \/ results' = [results EXCEPT ![d][reqs[d][pos[d]].key] = "Failed"]
        BY <3>3 DEF Submit, Subscribe, Conflict, Enqueue, batchVars
      <4> QED
        BY <3>1, <4>1
    <3> QED
      BY <2>5, <3>2, <3>3
  <2>6. ASSUME UNCHANGED results PROVE FALSE
    BY <2>6
  <2>7. ASSUME NEW d \in Calls, SkipDuplicate(d) \/ FindFull(d) \/ PollWhileFull(d)
               \/ EndSubmit(d) \/ WithdrawAndReturn(d) \/ ReturnComplete(d) \/ AskCancel(d)
        PROVE  UNCHANGED results
    BY <2>7 DEF SkipDuplicate, FindFull, PollWhileFull, EndSubmit, WithdrawAndReturn,
       ReturnComplete, AskCancel, batchVars
  <2>8. ASSUME AbandonPass \/ EndPass \/ EndReading \/ NetworkStep \/ Stop \/ Join
        PROVE  UNCHANGED results
    BY <2>8 DEF AbandonPass, EndPass, EndReading, NetworkStep, PerformFailed, Perform, Stop,
       Join, batchVars
  <2>9. ASSUME NEW l \in Keys, SkipHost(l) \/ StartLocking(l) \/ LockBusy(l)
               \/ BeginTransfer(l) \/ TransferRetry(l) \/ RetryDue(l) \/ Invalidate(l)
               \/ OtherLocks(l) \/ OtherPublishes(l) \/ OtherUnlocks(l) \/ Damage(l)
        PROVE  UNCHANGED results
    BY <2>9 DEF SkipHost, StartLocking, LockBusy, BeginTransfer, TransferRetry, RetryDue,
       Invalidate, OtherLocks, OtherPublishes, OtherUnlocks, Damage, batchVars
  <2>10. CASE UNCHANGED vars
    BY <2>6, <2>10 DEF vars, batchVars
  <2> QED
    BY <2>1, <2>2, <2>3, <2>4, <2>5, <2>6, <2>7, <2>8, <2>9, <2>10, ConstantsAssumption
       DEF Next, WorkerStep, CallStep
<1>3. IInv /\ [Next]_vars => [Isolated]_vars
  BY <1>2
<1> QED
  BY <1>3, InvHolds, PTL DEF Spec, CancelIsolated

\* A new transfer keeps the number of transfers of its host within the window
\* the host had when the worker looked for room, before it took the file lock.
THEOREM WindowIsRespected == Spec => WindowRespected
<1> DEFINE Respected == \A k \in active' \ active :
        LET h == HostOf[info[k].url] IN
        hosts'[h] <= IF h \in multiplexed THEN Concurrency ELSE PerHost
<1>1. IInv /\ [Next]_vars => Respected
  <2> SUFFICES ASSUME IInv, [Next]_vars, NEW k \in active' \ active
               PROVE  hosts'[HostOfTask(k)] <=
                            IF HostOfTask(k) \in multiplexed THEN Concurrency ELSE PerHost
    BY DEF HostOfTask
  <2>1. CASE \E l \in Keys : BeginTransfer(l)
    <3>1. PICK l \in Keys : BeginTransfer(l)
      BY <2>1
    <3>2. k = l
      BY <3>1 DEF BeginTransfer
    <3> DEFINE h == HostOfTask(k)
    <3>3. /\ h \in Hosts /\ hosts[h] < Window(h) /\ hosts' = [hosts EXCEPT ![h] = @ + 1]
      BY <3>1, <3>2 DEF BeginTransfer, Locking, IInv, Place
    <3>4. hosts \in [Hosts -> Nat]
      BY InvTypes DEF TypeOK
    <3>5. hosts'[h] = hosts[h] + 1 /\ hosts[h] \in Nat
      BY <3>3, <3>4
    <3>6. hosts[h] + 1 <= Window(h)
      BY <3>3, <3>5, Limits DEF Window
    <3> QED
      BY <3>5, <3>6 DEF Window
  <2>2. CASE ~\E l \in Keys : BeginTransfer(l)
    <3>1. active' \subseteq active
      <4>1. ASSUME NEW c \in Calls, StartCall(c) \/ CallStep(c) \/ AskCancel(c)
            PROVE  active' = active
        BY <4>1 DEF StartCall, CallStep, Submit, AskCancel, SkipDuplicate, FindFull,
           PollWhileFull, EndSubmit, WithdrawAndReturn, ReturnComplete, taskVars
      <4>2. CASE BeginPass \/ Drain
        BY <4>2 DEF BeginPass, Drain, RemoveEasy
      <4>3. CASE AbandonPass \/ EndPass \/ EndReading \/ NetworkStep \/ Stop \/ Join
        BY <4>3 DEF AbandonPass, EndPass, EndReading, NetworkStep, PerformFailed, Perform,
           Stop, Join, taskVars
      <4>4. ASSUME NEW l \in Keys,
                   DropUnwanted(l) \/ SkipHost(l) \/ StartCached(l) \/ StartFailed(l)
                   \/ StartLocking(l) \/ LockBusy(l) \/ FoundAfterLock(l) \/ CopyLocal(l)
                   \/ TransferRefused(l) \/ RetryDue(l) \/ Invalidate(l) \/ OtherLocks(l)
                   \/ OtherPublishes(l) \/ OtherUnlocks(l) \/ Damage(l)
            PROVE  active' = active
        BY <4>4 DEF DropUnwanted, SkipHost, StartCached, StartFailed, StartLocking, LockBusy,
           FoundAfterLock, CopyLocal, TransferRefused, RetryDue, Invalidate, OtherLocks,
           OtherPublishes, OtherUnlocks, Damage, taskVars
      <4>5. ASSUME NEW l \in Keys,
                   TransferDelivered(l) \/ TransferRetry(l) \/ TransferFailed(l)
            PROVE  active' \subseteq active
        BY <4>5 DEF TransferDelivered, TransferRetry, TransferFailed, RemoveEasy
      <4>6. CASE UNCHANGED vars
        BY <4>6 DEF vars, taskVars
      <4> QED
        BY <2>2, <4>1, <4>2, <4>3, <4>4, <4>5, <4>6, ConstantsAssumption
           DEF Next, WorkerStep
    <3> QED
      BY <3>1
  <2> QED
    BY <2>1, <2>2
<1>2. IInv /\ [Next]_vars => [Respected]_vars
  BY <1>1
<1> QED
  BY <1>2, InvHolds, PTL DEF Spec, WindowRespected

-----------------------------------------------------------------------------
(***************************************************************************)
(* DownloadCache implements DownloadService.  Asking, returning, giving up *)
(* and stopping map to the actions of those names; whatever the worker,    *)
(* other processes and the disk do maps to Answer.                         *)
(***************************************************************************)

\* The answers a slot may get in one step, in terms of DownloadCache.
Fair(c, k) ==
    \/ results'[c][k] = results[c][k]
    \/ /\ results[c][k] = "Pending"
       /\ \/ results'[c][k] = "Failed"
          \/ /\ results'[c][k] \in {"Cached", "Downloaded"}
             /\ file'[k] = "good" \/ stamp[k] = "match"
          \/ results'[c][k] = "Cancelled" /\ (stopped \/ cancelAsked[c])

\* What the slots say is what the service answers.
LEMMA AnswerTypes ==
    ASSUME NEW result \in Outcomes \cup {"Absent", "Pending"}
    PROVE  /\ AnswerOf(result) \in {"none", "asked", "usable", "failed", "withdrawn"}
           /\ AnswerOf(result) = "asked" <=> result = "Pending"
           /\ result \in {"Cached", "Downloaded"} => AnswerOf(result) = "usable"
           /\ result = "Failed" => AnswerOf(result) = "failed"
           /\ result = "Cancelled" => AnswerOf(result) = "withdrawn"
           /\ result = "Absent" => AnswerOf(result) = "none"
BY DEF AnswerOf, Outcomes

\* A step in which every slot keeps its answer or gets a fair one.
LEMMA FairAnswers ==
    ASSUME Slots, Slots', UNCHANGED <<cancelAsked, stopped>>,
           \A c \in Calls : StatusOf(c)' = StatusOf(c),
           \A c \in Calls, k \in Keys : Fair(c, k)
    PROVE  Service!Answer
<1>1. ASSUME NEW c \in Calls, NEW k \in Keys
      PROVE  /\ results[c][k] \in Outcomes \cup {"Absent", "Pending"}
             /\ results'[c][k] \in Outcomes \cup {"Absent", "Pending"}
  BY DEF Slots
<1>2. ASSUME NEW c \in Calls, NEW k \in Keys
      PROVE  AnswerOf(results[c][k])' = AnswerOf(results'[c][k])
  BY DEF AnswerOf
<1>3. [c \in Calls |-> [k \in Keys |-> AnswerOf(results[c][k])]]'
        \in [Calls -> [Keys -> {"none", "asked", "usable", "failed", "withdrawn"}]]
  BY <1>1, <1>2, AnswerTypes
<1>4. ASSUME NEW c \in Calls, NEW k \in Keys, results[c][k] = "Pending"
      PROVE  AnswerOf(results'[c][k]) \in Service!Answers(c, k)
  <2>1. Fair(c, k)
    OBVIOUS
  <2>2. CASE results'[c][k] = results[c][k] \/ results'[c][k] = "Failed"
    BY <1>1, <1>4, <2>2, AnswerTypes DEF Service!Answers
  <2>3. CASE /\ results'[c][k] \in {"Cached", "Downloaded"}
             /\ file'[k] = "good" \/ stamp[k] = "match"
    BY <1>1, <2>3, AnswerTypes DEF Service!Answers
  <2>4. CASE results'[c][k] = "Cancelled" /\ (stopped \/ cancelAsked[c])
    BY <1>1, <2>4, AnswerTypes DEF Service!Answers, Service!GivenUp
  <2> QED
    BY <2>1, <2>2, <2>3, <2>4 DEF Fair
<1>5. ASSUME NEW c \in Calls, NEW k \in Keys, results[c][k] # "Pending"
      PROVE  results'[c][k] = results[c][k]
  BY <1>5 DEF Fair
<1>6. ASSUME NEW c \in Calls, NEW k \in Keys
      PROVE  IF AnswerOf(results[c][k]) = "asked"
             THEN AnswerOf(results'[c][k]) \in Service!Answers(c, k)
             ELSE AnswerOf(results'[c][k]) = AnswerOf(results[c][k])
  <2>1. CASE results[c][k] = "Pending"
    BY <1>1, <1>4, <2>1, AnswerTypes
  <2>2. CASE results[c][k] # "Pending"
    BY <1>1, <1>5, <2>2, AnswerTypes
  <2> QED
    BY <2>1, <2>2
<1>7. [c \in Calls |-> StatusOf(c)]' = [c \in Calls |-> StatusOf(c)]
  OBVIOUS
<1>8. {c \in Calls : cancelAsked[c]}' = {c \in Calls : cancelAsked[c]}
  OBVIOUS
<1>9. /\ {k \in Keys : file[k] = "good"}' \in SUBSET Keys
      /\ {k \in Keys : stamp[k] = "match"}' \in SUBSET Keys
  OBVIOUS
<1> QED
  BY <1>2, <1>3, <1>6, <1>7, <1>8, <1>9 DEF Service!Answer

\* finish() gives fair answers when its outcome is one.
LEMMA FinishIsFair ==
    ASSUME Slots, NEW S \in SUBSET Keys, NEW outcome, Finish(S, outcome),
           \/ outcome = "Failed"
           \/ /\ outcome \in {"Cached", "Downloaded"}
              /\ \A k \in S : file'[k] = "good" \/ stamp[k] = "match"
           \/ /\ outcome = "Cancelled"
              /\ \A c \in Calls, k \in S : Waiting(c, k) => cancelled[c] \/ stopped
    PROVE  \A c \in Calls, k \in Keys : Fair(c, k)
<1> SUFFICES ASSUME NEW c \in Calls, NEW k \in Keys PROVE Fair(c, k)
  OBVIOUS
<1>1. results'[c][k] = IF k \in S /\ Waiting(c, k)
                       THEN IF cancelled[c] THEN "Cancelled" ELSE outcome
                       ELSE results[c][k]
  BY DEF Finish, Deliver
<1>2. cancelled[c] => cancelAsked[c] \/ stopped
  BY DEF Slots, CallOK
<1>3. CASE ~(k \in S /\ Waiting(c, k))
  BY <1>1, <1>3 DEF Fair
<1>4. CASE k \in S /\ Waiting(c, k) /\ cancelled[c]
  BY <1>1, <1>2, <1>4 DEF Fair, Waiting
<1>5. CASE k \in S /\ Waiting(c, k) /\ ~cancelled[c]
  BY <1>1, <1>5 DEF Fair, Waiting
<1> QED
  BY <1>3, <1>4, <1>5

\* A step of the calls or the worker that answers nothing is a stutter or, when
\* the files change, an Answer that answers nothing.
LEMMA QuietIsAnswer ==
    ASSUME Slots, Slots', UNCHANGED <<results, cancelAsked, stopped>>,
           \A c \in Calls : StatusOf(c)' = StatusOf(c)
    PROVE  Service!Answer
BY FairAnswers DEF Fair

\* A new call asks for its tiles.
LEMMA StartAsks ==
    ASSUME Slots, Slots', Others, NEW c \in Calls, StartCall(c)
    PROVE  Service!Ask(c)
<1>1. PICK r \in Requests[c] :
        results' = [results EXCEPT ![c] =
                [k \in Keys |-> IF k \in KeysOf(r) THEN "Pending" ELSE "Absent"]]
  BY DEF StartCall
<1>2. /\ pc[c] = "idle" /\ pc' = [pc EXCEPT ![c] = "submit"]
      /\ UNCHANGED <<file, stamp, cancelAsked, stopped>>
  BY DEF StartCall, diskVars, ctlVars
<1>3. \A d \in Calls : StatusOf(d)' = IF d = c THEN "open" ELSE StatusOf(d)
  BY <1>2 DEF StatusOf, Slots
<1>4. [d \in Calls |-> StatusOf(d)]' = [[d \in Calls |-> StatusOf(d)] EXCEPT ![c] = "open"]
  BY <1>3
<1> DEFINE S == KeysOf(r) \cap Keys
<1>5. ASSUME NEW k \in Keys
      PROVE  AnswerOf(results[c][k])' = IF k \in S THEN "asked" ELSE "none"
  <2>1. results'[c][k] = IF k \in S THEN "Pending" ELSE "Absent"
    BY <1>1 DEF Slots
  <2> QED
    BY <2>1 DEF AnswerOf
<1>6. ASSUME NEW d \in Calls, d # c, NEW k \in Keys
      PROVE  AnswerOf(results[d][k])' = AnswerOf(results[d][k])
  <2>1. results'[d][k] = results[d][k]
    BY <1>1, <1>6 DEF Slots
  <2> QED
    BY <2>1 DEF AnswerOf
<1>7. [d \in Calls |-> [k \in Keys |-> AnswerOf(results[d][k])]]'
        = [[d \in Calls |-> [k \in Keys |-> AnswerOf(results[d][k])]] EXCEPT
                ![c] = [k \in Keys |-> IF k \in S THEN "asked" ELSE "none"]]
  BY <1>5, <1>6
<1>8. S \in SUBSET Keys
  OBVIOUS
<1>9. [d \in Calls |-> StatusOf(d)][c] = "idle"
  BY <1>2 DEF StatusOf
<1> HIDE DEF S
<1> QED
  BY <1>2, <1>4, <1>7, <1>8, <1>9 DEF Service!Ask

\* A call that returns has all its answers, or was given up.
LEMMA ReturnsAreReturns ==
    ASSUME Slots, NEW c \in Calls, WithdrawAndReturn(c) \/ ReturnComplete(c)
    PROVE  Service!Return(c)
<1>1. /\ pc[c] = "wait" /\ pc' = [pc EXCEPT ![c] = "returned"]
      /\ UNCHANGED <<results, file, stamp, cancelAsked, stopped>>
  BY DEF WithdrawAndReturn, ReturnComplete, batchVars, diskVars, ctlVars
<1>2. \A d \in Calls : StatusOf(d)' = IF d = c THEN "returned" ELSE StatusOf(d)
  BY <1>1 DEF StatusOf, Slots
<1>3. [d \in Calls |-> StatusOf(d)]' = [[d \in Calls |-> StatusOf(d)] EXCEPT ![c] = "returned"]
  BY <1>2
<1>4. [d \in Calls |-> StatusOf(d)][c] = "open"
  BY <1>1 DEF StatusOf
<1>5. \/ stopped \/ cancelAsked[c]
      \/ \A k \in Keys : AnswerOf(results[c][k]) # "asked"
  <2>1. CASE WithdrawAndReturn(c)
    BY <2>1 DEF WithdrawAndReturn
  <2>2. CASE ReturnComplete(c)
    <3> DEFINE W == KeysOf(reqs[c])
    <3>1. W \in SUBSET Keys
      <4>1. reqs[c] \in Seq(Request)
        BY DEF Slots
      <4>2. \A i \in DOMAIN reqs[c] : reqs[c][i] \in Request
        BY <4>1
      <4>3. \A x \in Request : x.key \in Keys
        BY DEF Request
      <4> QED
        BY <4>2, <4>3 DEF KeysOf
    <3>2. Answered(c) \in SUBSET W
      BY DEF Answered, Slots, SlotOK, Outcomes
    <3>3. Cardinality(Answered(c)) = Cardinality(W)
      BY <2>2 DEF ReturnComplete, Slots, Answered
    <3>4. Answered(c) = W
      BY <3>1, <3>2, <3>3, FiniteKeys, FS_Subset
    <3>5. ASSUME NEW k \in Keys PROVE results[c][k] # "Pending"
      BY <3>4 DEF Answered, Slots, SlotOK, Outcomes
    <3>6. ASSUME NEW k \in Keys PROVE AnswerOf(results[c][k]) # "asked"
      BY <3>5, AnswerTypes DEF Slots
    <3> QED
      BY <3>6
  <2> QED
    BY <2>1, <2>2
<1>6. [d \in Calls |-> [k \in Keys |-> AnswerOf(results[d][k])]]'
        = [d \in Calls |-> [k \in Keys |-> AnswerOf(results[d][k])]]
  BY <1>1 DEF AnswerOf
<1> QED
  BY <1>1, <1>3, <1>4, <1>5, <1>6 DEF Service!Return, Service!GivenUp

\* Every step maps to a step of the service or to a stutter.
LEMMA ServiceStep ==
    IInv /\ IInv' /\ [Next]_vars => [Service!Next]_(Service!vars)
<1> SUFFICES ASSUME IInv, IInv', [Next]_vars
             PROVE  Service!Next \/ UNCHANGED Service!vars
  OBVIOUS
<1>0. Slots /\ Slots' /\ Accounts /\ Place /\ Others
  BY DEF IInv
<1>1. ASSUME NEW c \in Calls, StartCall(c) PROVE Service!Next
  BY <1>0, <1>1, StartAsks DEF Service!Next
<1>2. ASSUME NEW c \in Calls, WithdrawAndReturn(c) \/ ReturnComplete(c) PROVE Service!Next
  BY <1>0, <1>2, ReturnsAreReturns DEF Service!Next
<1>3. ASSUME NEW c \in Calls, AskCancel(c) PROVE Service!Next
  <2>1. /\ pc[c] \in {"submit", "full", "wait"}
        /\ cancelAsked' = [cancelAsked EXCEPT ![c] = TRUE]
        /\ UNCHANGED <<pc, results, file, stamp, stopped>>
    BY <1>3 DEF AskCancel, batchVars, diskVars, ctlVars
  <2>2. {d \in Calls : cancelAsked[d]}' = {d \in Calls : cancelAsked[d]} \cup {c}
    BY <1>0, <2>1 DEF Slots
  <2>3. [d \in Calls |-> StatusOf(d)][c] = "open"
    BY <2>1 DEF StatusOf
  <2>4. /\ [d \in Calls |-> StatusOf(d)]' = [d \in Calls |-> StatusOf(d)]
        /\ [d \in Calls |-> [k \in Keys |-> AnswerOf(results[d][k])]]'
            = [d \in Calls |-> [k \in Keys |-> AnswerOf(results[d][k])]]
    BY <2>1 DEF StatusOf, AnswerOf
  <2> QED
    BY <2>1, <2>2, <2>3, <2>4 DEF Service!Next, Service!Withdraw
<1>4. ASSUME NEW c \in Calls,
             SkipDuplicate(c) \/ FindFull(c) \/ PollWhileFull(c) \/ EndSubmit(c)
      PROVE  Service!Next
  <2>1. UNCHANGED <<results, cancelAsked, stopped>>
    BY <1>4 DEF SkipDuplicate, FindFull, PollWhileFull, EndSubmit, batchVars, ctlVars
  <2>2. \A d \in Calls : StatusOf(d)' = StatusOf(d)
    <3>1. \/ pc' = pc
          \/ pc[c] \in {"submit", "full"} /\ \E w \in {"submit", "full", "wait"} :
                pc' = [pc EXCEPT ![c] = w]
      BY <1>4 DEF SkipDuplicate, FindFull, Submitting, PollWhileFull, EndSubmit
    <3> QED
      BY <1>0, <3>1 DEF StatusOf, Slots
  <2> QED
    BY <1>0, <2>1, <2>2, QuietIsAnswer DEF Service!Next
<1>5. ASSUME NEW c \in Calls, Submit(c) PROVE Service!Next
  <2> DEFINE r == reqs[c][pos[c]]
  <2>1. UNCHANGED <<pc, cancelAsked, stopped>>
    BY <1>5 DEF Submit, ctlVars
  <2>2. \A d \in Calls : StatusOf(d)' = StatusOf(d)
    BY <2>1 DEF StatusOf
  <2>3. CASE Conflict(c, r)
    <3>1. r.key \in Keys /\ pos[c] \in DOMAIN reqs[c]
      BY <1>5, NextRequest DEF Submit
    <3>2. results[c][r.key] = "Pending"
      BY <1>0, <1>5, <3>1, DuplicateSubmitted DEF Submit, Submitting, KeysOf, Slots, SlotOK
    <3>3. results' = [results EXCEPT ![c][r.key] = "Failed"]
      BY <2>3 DEF Conflict
    <3>4. ASSUME NEW d \in Calls, NEW k \in Keys PROVE Fair(d, k)
      <4>1. CASE d = c /\ k = r.key
        BY <1>0, <3>1, <3>2, <3>3, <4>1 DEF Slots, Fair
      <4>2. CASE d # c \/ k # r.key
        BY <1>0, <3>1, <3>3, <4>2 DEF Slots, Fair
      <4> QED
        BY <4>1, <4>2
    <3> QED
      BY <1>0, <2>1, <2>2, <3>4, FairAnswers DEF Service!Next
  <2>4. CASE Subscribe(c, r) \/ Enqueue(c, r)
    <3>1. UNCHANGED results
      BY <2>4 DEF Subscribe, Enqueue, batchVars
    <3> QED
      BY <1>0, <2>1, <2>2, <3>1, QuietIsAnswer DEF Service!Next
  <2> QED
    BY <1>5, <2>3, <2>4 DEF Submit
<1>6. ASSUME UNCHANGED <<callVars, stopped>>
      PROVE  /\ \A d \in Calls : StatusOf(d)' = StatusOf(d)
             /\ UNCHANGED <<cancelAsked, stopped>>
  BY <1>6 DEF callVars, StatusOf
<1>7. CASE BeginPass
  <2> DEFINE S == {k \in tasks : ~Wanted(k)}
  <2>1. S \in SUBSET Keys
    BY <1>0 DEF Accounts
  <2>2. Finish(S, "Cancelled") /\ UNCHANGED <<callVars, stopped>>
    BY <1>7 DEF BeginPass, ctlVars
  <2>3. \A c \in Calls, k \in S : Waiting(c, k) => cancelled[c]
    BY DEF Wanted, Waiting
  <2> HIDE DEF S
  <2>4. \A c \in Calls, k \in Keys : Fair(c, k)
    BY <1>0, <2>1, <2>2, <2>3, FinishIsFair
  <2> QED
    BY <1>0, <1>6, <2>2, <2>4, FairAnswers DEF Service!Next
<1>8. CASE Drain
  <2>1. tasks \in SUBSET Keys /\ stopped /\ Finish(tasks, "Cancelled")
        /\ UNCHANGED <<callVars, stopped>>
    BY <1>0, <1>8 DEF Accounts, Drain, ctlVars
  <2>2. \A c \in Calls, k \in Keys : Fair(c, k)
    BY <1>0, <2>1, FinishIsFair
  <2> QED
    BY <1>0, <1>6, <2>1, <2>2, FairAnswers DEF Service!Next
<1>9. ASSUME NEW k \in Keys,
             DropUnwanted(k) \/ StartCached(k) \/ StartFailed(k) \/ FoundAfterLock(k)
             \/ CopyLocal(k) \/ TransferRefused(k) \/ TransferDelivered(k) \/ TransferFailed(k)
      PROVE  Service!Next
  <2>1. UNCHANGED <<callVars, stopped>>
    BY <1>9 DEF DropUnwanted, StartCached, StartFailed, FoundAfterLock, CopyLocal,
          TransferRefused, TransferDelivered, TransferFailed, ctlVars
  <2>2. \A d \in Calls, x \in Keys : Fair(d, x)
    <3>1. CASE DropUnwanted(k)
      <4>1. Finish({k}, "Cancelled") /\ ~Wanted(k)
        BY <3>1 DEF DropUnwanted
      <4>2. \A c \in Calls, x \in {k} : Waiting(c, x) => cancelled[c]
        BY <4>1 DEF Wanted, Waiting
      <4> QED
        BY <1>0, <4>1, <4>2, FinishIsFair
    <3>2. CASE StartCached(k) \/ FoundAfterLock(k)
      <4>1. Finish({k}, "Cached") /\ Valid(k) /\ file' = file
        BY <3>2 DEF StartCached, FoundAfterLock
      <4>2. \A x \in {k} : file'[x] = "good" \/ stamp[x] = "match"
        BY <4>1 DEF Valid
      <4> QED
        BY <1>0, <4>1, <4>2, FinishIsFair
    <3>3. CASE Publish(k) /\ Finish({k}, "Downloaded")
      <4>1. \A x \in {k} : file'[x] = "good"
        BY <1>0, <3>3 DEF Publish, Others
      <4> QED
        BY <1>0, <3>3, <4>1, FinishIsFair
    <3>4. CASE Finish({k}, "Failed")
      BY <1>0, <3>4, FinishIsFair
    <3> QED
      BY <1>9, <3>1, <3>2, <3>3, <3>4 DEF StartFailed, CopyLocal, TransferRefused,
         TransferDelivered, TransferFailed
  <2> QED
    BY <1>0, <1>6, <2>1, <2>2, FairAnswers DEF Service!Next
<1>10. CASE AbandonPass \/ EndPass \/ EndReading \/ Join \/ \E S \in SUBSET active : Perform(S)
  <2>1. UNCHANGED <<results, callVars, stopped>>
    BY <1>10 DEF AbandonPass, EndPass, EndReading, Join, Perform, batchVars, ctlVars
  <2> QED
    BY <1>0, <1>6, <2>1, QuietIsAnswer DEF Service!Next
<1>11. ASSUME NEW k \in Keys, SkipHost(k) \/ StartLocking(k) \/ LockBusy(k)
              \/ BeginTransfer(k) \/ TransferRetry(k) \/ RetryDue(k) \/ Invalidate(k)
              \/ OtherLocks(k) \/ OtherPublishes(k) \/ OtherUnlocks(k) \/ Damage(k)
       PROVE  Service!Next
  <2>1. UNCHANGED <<results, callVars, stopped>>
    BY <1>11 DEF SkipHost, StartLocking, LockBusy, BeginTransfer, TransferRetry, RetryDue,
       Invalidate, OtherLocks, OtherPublishes, OtherUnlocks, Damage, batchVars, ctlVars
  <2> QED
    BY <1>0, <1>6, <2>1, QuietIsAnswer DEF Service!Next
<1>12. CASE Stop \/ PerformFailed
  <2>1. /\ stopped' = TRUE /\ UNCHANGED <<pc, results, file, stamp, cancelAsked>>
    BY <1>12 DEF Stop, PerformFailed, batchVars, diskVars, callVars
  <2>2. /\ [d \in Calls |-> StatusOf(d)]' = [d \in Calls |-> StatusOf(d)]
        /\ [d \in Calls |-> [k \in Keys |-> AnswerOf(results[d][k])]]'
            = [d \in Calls |-> [k \in Keys |-> AnswerOf(results[d][k])]]
    BY <2>1 DEF StatusOf, AnswerOf
  <2> QED
    BY <2>1, <2>2 DEF Service!Next, Service!Close
<1>13. CASE UNCHANGED vars
  <2>1. UNCHANGED <<results, callVars, stopped>>
    BY <1>13 DEF vars, batchVars, ctlVars
  <2> QED
    BY <1>0, <1>6, <2>1, QuietIsAnswer DEF Service!Next
<1> QED
  BY <1>1, <1>2, <1>3, <1>4, <1>5, <1>7, <1>8, <1>9, <1>10, <1>11, <1>12, <1>13,
     ConstantsAssumption DEF Next, WorkerStep, NetworkStep, CallStep

\* DownloadCache implements DownloadService: whatever the queue, the worker, the
\* other processes and the disk do, a caller sees each tile it asked for answered
\* at most once, "usable" only for a file that is usable or vouched for, and
\* "withdrawn" only after giving up or a stop.
THEOREM ServiceIsImplemented == Spec => ImplementsService
<1>1. Init => Service!Init
  <2> SUFFICES ASSUME Init PROVE Service!Init
    OBVIOUS
  <2>1. [c \in Calls |-> StatusOf(c)] = [c \in Calls |-> "idle"]
    BY DEF Init, StatusOf
  <2>2. [c \in Calls |-> [k \in Keys |-> AnswerOf(results[c][k])]]
            = [c \in Calls |-> [k \in Keys |-> "none"]]
    BY DEF Init, AnswerOf
  <2>3. /\ {k \in Keys : file[k] = "good"} \subseteq Keys
        /\ {k \in Keys : stamp[k] = "match"} = {} /\ {c \in Calls : cancelAsked[c]} = {}
        /\ stopped = FALSE
    BY DEF Init
  <2> QED
    BY <2>1, <2>2, <2>3 DEF Service!Init
<1> QED
  BY <1>1, ServiceStep, InvHolds, PTL DEF Spec, ImplementsService, Service!Spec

=============================================================================
