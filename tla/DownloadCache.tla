--------------------------- MODULE DownloadCache ---------------------------
(***************************************************************************)
(* The tile download service: one worker thread that owns every transfer   *)
(* and any number of threads blocked in Ensure.  A tile is a destination   *)
(* path ("key"); at most one task exists per key and every call that wants *)
(* the key subscribes to that task.  Other processes share the cache       *)
(* directory: they take the same <path>.lock files, publish tiles by       *)
(* rename, and disks damage files.                                         *)
(*                                                                         *)
(* The service mutex is explicit only where the worker keeps it over       *)
(* several steps (a scheduling pass, worker in {"pass", "locking"}); the   *)
(* short critical sections of the callers are single actions.  `stopped`   *)
(* and the per-call `cancelled` flags are atomics and change at any time.  *)
(***************************************************************************)
EXTENDS Naturals, Sequences, FiniteSets

CONSTANTS
    Calls,          \* the invocations of Ensure
    Keys,           \* normalised destination paths
    Urls,
    Hosts,          \* network hosts
    HostOf,         \* [Urls -> Hosts \cup {Local, Invalid}]
    Local,          \* a file:// source
    Invalid,        \* neither a host nor a local source
    Requests,       \* [Calls -> set of request lists the call may carry]
    Priority,       \* [Calls -> Nat]
    Concurrency,    \* options.concurrency
    PerHost,        \* options.perHost
    Retries,        \* options.retries
    MaxQueued,      \* options.maxQueuedRequests
    Shared,         \* bound: the paths other processes and disk faults touch
    MaxOther        \* bound: lock acquisitions by other processes

Request == [key : Keys, url : Urls]

(***************************************************************************)
(* Impl::Impl clamps the options to exactly these ranges.                  *)
(***************************************************************************)
ASSUME ConstantsAssumption ==
    /\ IsFiniteSet(Calls) /\ IsFiniteSet(Keys) /\ IsFiniteSet(Hosts)
    /\ Local \notin Hosts /\ Invalid \notin Hosts /\ Local # Invalid
    /\ HostOf \in [Urls -> Hosts \cup {Local, Invalid}]
    /\ Priority \in [Calls -> Nat]
    /\ \A c \in Calls : \A r \in Requests[c] : r \in Seq(Request)
    /\ Concurrency \in Nat \ {0}
    /\ PerHost \in 1..Concurrency
    /\ Retries \in Nat
    /\ MaxQueued \in Nat /\ MaxQueued >= Concurrency
    /\ Shared \subseteq Keys /\ MaxOther \in Nat

VARIABLES
    tasks,          \* keys of the task map
    info,           \* [Keys -> Task], NoTask outside `tasks`
    active,         \* keys whose task has an easy handle in the multi handle
    hosts,          \* transfers counted per host
    multiplexed,    \* hosts last seen speaking HTTP/2
    lock,           \* [Keys -> {"free", "self", "other"}], the <path>.lock flock
    file,           \* [Keys -> {"bad", "good"}], bad: missing or not decodable
    stamp,          \* validated[key]: "none", "stale" or "match"
    sequence,       \* the last sequence number handed out
    stopped,
    worker,         \* where the worker thread is
    pending,        \* the tasks the current pass still has to look at
    cur,            \* the key start() is taking the lock for
    done,           \* finished transfers curl has not reported yet
    stopper,        \* the thread in Stop(): "idle", "joining" or "joined"
    pc,             \* [Calls -> where the call is]
    reqs, pos,      \* the call's request list and its submit position
    results, finished,   \* Batch::results and Batch::finished
    cancelAsked,    \* the caller's cancel predicate has become true
    cancelled,      \* Batch::cancelled
    otherRuns       \* bound on the other processes

taskVars  == <<tasks, info, active, hosts, lock>>
netVars   == <<multiplexed, done>>
diskVars  == <<file, stamp>>
workVars  == <<worker, pending, cur>>
batchVars == <<results, finished>>
callVars  == <<pc, reqs, pos, cancelAsked, cancelled>>
ctlVars   == <<stopped, stopper, otherRuns>>
vars == <<taskVars, netVars, diskVars, sequence, workVars, batchVars, callVars, ctlVars>>

-----------------------------------------------------------------------------

Outcomes == {"Cached", "Downloaded", "Failed", "Cancelled"}
NoTask == [url |-> Invalid, priority |-> 0, sequence |-> 0, attempt |-> 0,
           ready |-> FALSE, subscribers |-> {}]
Task == [url : Urls, priority : Nat, sequence : Nat, attempt : 0..Retries,
         ready : BOOLEAN, subscribers : SUBSET Calls]

Init ==
    /\ tasks = {} /\ info = [k \in Keys |-> NoTask]
    /\ active = {} /\ hosts = [h \in Hosts |-> 0]
    /\ multiplexed = {} /\ done = {}
    /\ lock = [k \in Keys |-> "free"]
    /\ file \in [Keys -> {"bad", "good"}]
    /\ stamp = [k \in Keys |-> "none"]
    /\ sequence = 0
    /\ stopped = FALSE /\ stopper = "idle"
    /\ worker = "idle" /\ pending = {} /\ cur = {}
    /\ pc = [c \in Calls |-> "idle"]
    /\ reqs = [c \in Calls |-> <<>>] /\ pos = [c \in Calls |-> 1]
    /\ results = [c \in Calls |-> [k \in Keys |-> "Absent"]]
    /\ finished = [c \in Calls |-> 0]
    /\ cancelAsked = [c \in Calls |-> FALSE]
    /\ cancelled = [c \in Calls |-> FALSE]
    /\ otherRuns = 0

MutexFree == worker \notin {"pass", "locking"}
HostOfTask(k) == HostOf[info[k].url]
\* Mutant: one cancelled subscriber is enough to drop the task.
WantedByAll(k) == \A c \in info[k].subscribers : ~cancelled[c]
Wanted(k) == \E c \in info[k].subscribers : ~cancelled[c]

-----------------------------------------------------------------------------
(***************************************************************************)
(* finish(): every subscriber still waiting gets the outcome (or Cancelled *)
(* when its own call was cancelled), the lock is released and the task     *)
(* leaves the map.  S is a set because two loops finish tasks in bulk.     *)
(***************************************************************************)
Waiting(c, k) == c \in info[k].subscribers /\ results[c][k] = "Pending"

Deliver(S, outcome) ==
    /\ results' = [c \in Calls |-> [k \in Keys |->
            IF k \in S /\ Waiting(c, k)
            THEN IF cancelled[c] THEN "Cancelled" ELSE outcome
            ELSE results[c][k]]]
    /\ finished' = [c \in Calls |->
            finished[c] + Cardinality({k \in S : Waiting(c, k)})]

\* Mutant: the task leaves the map before its last subscriber is answered.
FinishUndelivered(S, outcome) ==
    /\ UNCHANGED batchVars
    /\ tasks' = tasks \ S
    /\ info' = [k \in Keys |-> IF k \in S THEN NoTask ELSE info[k]]
    /\ lock' = [k \in Keys |-> IF k \in S /\ lock[k] = "self" THEN "free" ELSE lock[k]]

Finish(S, outcome) ==
    /\ Deliver(S, outcome)
    /\ tasks' = tasks \ S
    /\ info' = [k \in Keys |-> IF k \in S THEN NoTask ELSE info[k]]
    /\ lock' = [k \in Keys |-> IF k \in S /\ lock[k] = "self" THEN "free" ELSE lock[k]]

(***************************************************************************)
(* removeEasy() for the tasks of S that have a transfer.                   *)
(***************************************************************************)
\* Mutant: the host counter of a removed transfer is not given back.
RemoveEasyUncounted(S) == active' = active \ S /\ UNCHANGED hosts

RemoveEasy(S) ==
    /\ active' = active \ S
    /\ hosts' = [h \in Hosts |->
            hosts[h] - Cardinality({k \in S \cap active : HostOfTask(k) = h})]

-----------------------------------------------------------------------------
(***************************************************************************)
(* Ensure.                                                                 *)
(***************************************************************************)
KeysOf(r) == {r[i].key : i \in DOMAIN r}
Duplicate(r, i) == \E j \in 1..(i - 1) : r[j].key = r[i].key

StartCall(c) ==
    /\ pc[c] = "idle"
    /\ \E r \in Requests[c] :
        /\ reqs' = [reqs EXCEPT ![c] = r]
        /\ results' = [results EXCEPT ![c] =
                [k \in Keys |-> IF k \in KeysOf(r) THEN "Pending" ELSE "Absent"]]
    /\ pc' = [pc EXCEPT ![c] = "submit"]
    /\ UNCHANGED <<taskVars, netVars, diskVars, sequence, workVars, finished, pos,
                   cancelAsked, cancelled, ctlVars>>

\* Mutant: the stop flag is not looked at again under the mutex.
SubmittingStopped(c) ==
    /\ pc[c] = "submit" /\ pos[c] <= Len(reqs[c])
    /\ ~Duplicate(reqs[c], pos[c])
    /\ MutexFree /\ ~cancelled[c]

Submitting(c) ==
    /\ pc[c] = "submit" /\ pos[c] <= Len(reqs[c])
    /\ ~Duplicate(reqs[c], pos[c])
    /\ MutexFree /\ ~stopped /\ ~cancelled[c]

\* Mutant: off by one.
RoomForOneMore(k) == Cardinality(tasks) <= MaxQueued \/ k \in tasks
Room(k) == Cardinality(tasks) < MaxQueued \/ k \in tasks

\* The key is already being fetched: share the transfer, raise its priority.
Subscribe(c, r) ==
    /\ r.key \in tasks /\ info[r.key].url = r.url
    /\ info' = [info EXCEPT ![r.key].subscribers = @ \cup {c},
                            ![r.key].priority = IF @ > Priority[c] THEN @ ELSE Priority[c]]
    /\ UNCHANGED <<tasks, sequence, batchVars>>

\* Mutant: the conflicting slot is not counted as finished.
ConflictUncounted(c, r) ==
    /\ r.key \in tasks /\ info[r.key].url # r.url
    /\ results' = [results EXCEPT ![c][r.key] = "Failed"]
    /\ UNCHANGED <<tasks, info, sequence, finished>>

\* The same path is being fetched from another URL.
Conflict(c, r) ==
    /\ r.key \in tasks /\ info[r.key].url # r.url
    /\ results' = [results EXCEPT ![c][r.key] = "Failed"]
    /\ finished' = [finished EXCEPT ![c] = @ + 1]
    /\ UNCHANGED <<tasks, info, sequence>>

Enqueue(c, r) ==
    /\ r.key \notin tasks
    /\ tasks' = tasks \cup {r.key}
    /\ sequence' = sequence + 1
    /\ info' = [info EXCEPT ![r.key] =
            [url |-> r.url, priority |-> Priority[c], sequence |-> sequence + 1,
             attempt |-> 0, ready |-> TRUE, subscribers |-> {c}]]
    /\ UNCHANGED batchVars

Submit(c) ==
    /\ Submitting(c)
    /\ Room(reqs[c][pos[c]].key)
    /\ LET r == reqs[c][pos[c]] IN Subscribe(c, r) \/ Conflict(c, r) \/ Enqueue(c, r)
    /\ pos' = [pos EXCEPT ![c] = @ + 1]
    /\ UNCHANGED <<active, hosts, lock, netVars, diskVars, workVars, pc, reqs,
                   cancelAsked, cancelled, ctlVars>>

SkipDuplicate(c) ==
    /\ pc[c] = "submit" /\ pos[c] <= Len(reqs[c]) /\ Duplicate(reqs[c], pos[c])
    /\ pos' = [pos EXCEPT ![c] = @ + 1]
    /\ UNCHANGED <<taskVars, netVars, diskVars, sequence, workVars, batchVars, pc, reqs,
                   cancelAsked, cancelled, ctlVars>>

\* The queue is full: leave the mutex, poll the cancel predicate, look again.
FindFull(c) ==
    /\ Submitting(c) /\ ~Room(reqs[c][pos[c]].key)
    /\ pc' = [pc EXCEPT ![c] = "full"]
    /\ UNCHANGED <<taskVars, netVars, diskVars, sequence, workVars, batchVars, reqs, pos,
                   cancelAsked, cancelled, ctlVars>>

\* Mutant: a call blocked on a full queue does not poll its predicate.
WaitWhileFull(c) ==
    /\ pc[c] = "full"
    /\ pc' = [pc EXCEPT ![c] = "submit"]
    /\ UNCHANGED <<taskVars, netVars, diskVars, sequence, workVars, batchVars, reqs, pos,
                   cancelAsked, cancelled, ctlVars>>

PollWhileFull(c) ==
    /\ pc[c] = "full"
    /\ cancelled' = [cancelled EXCEPT ![c] = @ \/ cancelAsked[c]]
    /\ pc' = [pc EXCEPT ![c] = "submit"]
    /\ UNCHANGED <<taskVars, netVars, diskVars, sequence, workVars, batchVars, reqs, pos,
                   cancelAsked, ctlVars>>

EndSubmit(c) ==
    /\ pc[c] = "submit"
    /\ pos[c] > Len(reqs[c]) \/ (MutexFree /\ (stopped \/ cancelled[c]))
    /\ pc' = [pc EXCEPT ![c] = "wait"]
    /\ UNCHANGED <<taskVars, netVars, diskVars, sequence, workVars, batchVars, reqs, pos,
                   cancelAsked, cancelled, ctlVars>>

\* Mutant: the wait loop does not look at the stop flag.
WithdrawWhenAsked(c) ==
    /\ pc[c] = "wait" /\ cancelAsked[c]
    /\ cancelled' = [cancelled EXCEPT ![c] = TRUE]
    /\ pc' = [pc EXCEPT ![c] = "returned"]
    /\ UNCHANGED <<taskVars, netVars, diskVars, sequence, workVars, batchVars, reqs, pos,
                   cancelAsked, ctlVars>>

WithdrawAndReturn(c) ==
    /\ pc[c] = "wait" /\ (stopped \/ cancelAsked[c])
    /\ cancelled' = [cancelled EXCEPT ![c] = TRUE]
    /\ pc' = [pc EXCEPT ![c] = "returned"]
    /\ UNCHANGED <<taskVars, netVars, diskVars, sequence, workVars, batchVars, reqs, pos,
                   cancelAsked, ctlVars>>

ReturnComplete(c) ==
    /\ pc[c] = "wait" /\ finished[c] = Cardinality(KeysOf(reqs[c]))
    /\ pc' = [pc EXCEPT ![c] = "returned"]
    /\ UNCHANGED <<taskVars, netVars, diskVars, sequence, workVars, batchVars, reqs, pos,
                   cancelAsked, cancelled, ctlVars>>

\* The owner of the call loses interest (runtime stop or a newer generation).
AskCancel(c) ==
    /\ pc[c] \in {"submit", "full", "wait"} /\ ~cancelAsked[c]
    /\ cancelAsked' = [cancelAsked EXCEPT ![c] = TRUE]
    /\ UNCHANGED <<taskVars, netVars, diskVars, sequence, workVars, batchVars, pc, reqs,
                   pos, cancelled, ctlVars>>

CallStep(c) ==
    \/ Submit(c) \/ SkipDuplicate(c) \/ FindFull(c) \/ PollWhileFull(c)
    \/ EndSubmit(c) \/ WithdrawAndReturn(c) \/ ReturnComplete(c)

-----------------------------------------------------------------------------
(***************************************************************************)
(* The worker thread, run().                                               *)
(***************************************************************************)

\* Top of the loop: drop the tasks nobody wants, collect the ones to start.
BeginPass ==
    /\ worker = "idle" /\ ~stopped
    /\ LET unwanted == {k \in tasks : ~Wanted(k)} IN
        /\ RemoveEasy(unwanted)
        /\ Finish(unwanted, "Cancelled")
        /\ pending' = {k \in tasks \ unwanted : k \notin active /\ info[k].ready}
    /\ worker' = "pass"
    /\ UNCHANGED <<netVars, diskVars, sequence, cur, callVars, ctlVars>>

\* The order of the sort: larger priority first, then older task first.
Before(k, l) ==
    \/ info[k].priority > info[l].priority
    \/ info[k].priority = info[l].priority /\ info[k].sequence <= info[l].sequence

IsNext(k) == k \in pending /\ \A l \in pending : Before(k, l)

\* stopped, or no transfer slot left: the rest of the pass is abandoned.
AbandonPass ==
    /\ worker = "pass" /\ pending # {}
    /\ stopped \/ Cardinality(active) >= Concurrency
    /\ pending' = {}
    /\ UNCHANGED <<taskVars, netVars, diskVars, sequence, worker, cur, batchVars,
                   callVars, ctlVars>>

DropUnwanted(k) ==
    /\ worker = "pass" /\ IsNext(k) /\ ~stopped /\ ~Wanted(k)
    /\ Finish({k}, "Cancelled")
    /\ pending' = pending \ {k}
    /\ UNCHANGED <<active, hosts, netVars, diskVars, sequence, worker, cur, callVars, ctlVars>>

\* Mutant: one connection limit for every host.
WindowAlwaysWide(h) == Concurrency
Window(h) == IF h \in multiplexed THEN Concurrency ELSE PerHost

\* The conditions under which the pass calls start().
Startable(k) ==
    /\ worker = "pass" /\ IsNext(k) /\ ~stopped /\ Wanted(k)
    /\ Cardinality(active) < Concurrency
    /\ HostOfTask(k) \in Hosts => hosts[HostOfTask(k)] < Window(HostOfTask(k))

SkipHost(k) ==
    /\ worker = "pass" /\ IsNext(k) /\ ~stopped /\ Wanted(k)
    /\ Cardinality(active) < Concurrency
    /\ ~Startable(k)
    /\ pending' = pending \ {k}
    /\ UNCHANGED <<taskVars, netVars, diskVars, sequence, worker, cur, batchVars,
                   callVars, ctlVars>>

(***************************************************************************)
(* validFile(): a matching stamp (mtime and size) is believed; otherwise   *)
(* the file is read and, when valid, stamped.  The stamp cache is emptied  *)
(* when it is full.                                                        *)
(***************************************************************************)
\* Mutant: a stamp is believed without comparing it to the file.
ValidUnchecked(k) == stamp[k] # "none" \/ file[k] = "good"
Valid(k) == stamp[k] = "match" \/ file[k] = "good"

Stamp(k) ==
    IF stamp[k] = "match" THEN stamp
    ELSE IF Cardinality({l \in Keys : stamp[l] # "none"}) >= 2 * MaxQueued
         THEN [l \in Keys |-> IF l = k THEN "match" ELSE "none"]
         ELSE [stamp EXCEPT ![k] = "match"]

\* start(): the file is already there, no lock is needed.
StartCached(k) ==
    /\ Startable(k) /\ Valid(k)
    /\ stamp' = Stamp(k)
    /\ Finish({k}, "Cached")
    /\ pending' = pending \ {k}
    /\ UNCHANGED <<active, hosts, netVars, file, sequence, worker, cur, callVars, ctlVars>>

\* start(): no usable URL, or the lock file cannot be created.
StartFailed(k) ==
    /\ Startable(k) /\ ~Valid(k)
    /\ HostOfTask(k) = Invalid \/ lock[k] # "self"
    /\ Finish({k}, "Failed")
    /\ pending' = pending \ {k}
    /\ UNCHANGED <<active, hosts, netVars, diskVars, sequence, worker, cur, callVars, ctlVars>>

\* start(): the file is not there; another process may publish it before the
\* lock is taken.
StartLocking(k) ==
    /\ Startable(k) /\ ~Valid(k) /\ HostOfTask(k) # Invalid
    /\ cur' = {k}
    /\ pending' = pending \ {k}
    /\ worker' = "locking"
    /\ UNCHANGED <<taskVars, netVars, diskVars, sequence, batchVars, callVars, ctlVars>>

Locking(k) == worker = "locking" /\ cur = {k}

\* flock(LOCK_NB) fails: try again in a later pass, 25 ms from now.
LockBusy(k) ==
    /\ Locking(k) /\ lock[k] = "other"
    /\ info' = [info EXCEPT ![k].ready = FALSE]
    /\ worker' = "pass" /\ cur' = {}
    /\ UNCHANGED <<tasks, active, hosts, lock, netVars, diskVars, sequence, pending,
                   batchVars, callVars, ctlVars>>

\* The lock was free, and meanwhile its last holder has published the file.
FoundAfterLock(k) ==
    /\ Locking(k) /\ lock[k] = "free" /\ Valid(k)
    /\ stamp' = Stamp(k)
    /\ Finish({k}, "Cached")
    /\ worker' = "pass" /\ cur' = {}
    /\ UNCHANGED <<active, hosts, netVars, file, sequence, pending, callVars, ctlVars>>

\* With the lock (new, or kept by a retry): the re-check is only made when it
\* is new.
Holds(k) == lock[k] = "self" \/ (lock[k] = "free" /\ ~Valid(k))

Publish(k) ==
    /\ file' = [file EXCEPT ![k] = "good"]
    /\ stamp' = [stamp EXCEPT ![k] = "none"]

\* A local source is read, validated and published inside start().
CopyLocal(k) ==
    /\ Locking(k) /\ Holds(k) /\ HostOfTask(k) = Local
    /\ \/ Publish(k) /\ Finish({k}, "Downloaded")
       \/ /\ stamp' = [stamp EXCEPT ![k] = "none"]
          /\ Finish({k}, "Failed")
          /\ UNCHANGED file
    /\ worker' = "pass" /\ cur' = {}
    /\ UNCHANGED <<active, hosts, netVars, sequence, pending, callVars, ctlVars>>

BeginTransfer(k) ==
    /\ Locking(k) /\ Holds(k) /\ HostOfTask(k) \in Hosts
    /\ lock' = [lock EXCEPT ![k] = "self"]
    /\ active' = active \cup {k}
    /\ hosts' = [hosts EXCEPT ![HostOfTask(k)] = @ + 1]
    /\ worker' = "pass" /\ cur' = {}
    /\ UNCHANGED <<tasks, info, netVars, diskVars, sequence, pending, batchVars,
                   callVars, ctlVars>>

\* curl_easy_init or curl_multi_add_handle fails.
TransferRefused(k) ==
    /\ Locking(k) /\ Holds(k) /\ HostOfTask(k) \in Hosts
    /\ Finish({k}, "Failed")
    /\ worker' = "pass" /\ cur' = {}
    /\ UNCHANGED <<active, hosts, netVars, diskVars, sequence, pending, callVars, ctlVars>>

\* The pass is over; the worker waits 25 ms when nothing is being transferred.
EndPass ==
    /\ worker = "pass" /\ pending = {}
    /\ worker' = IF stopped \/ active = {} THEN "idle" ELSE "perform"
    /\ UNCHANGED <<taskVars, netVars, diskVars, sequence, pending, cur, batchVars,
                   callVars, ctlVars>>

\* curl_multi_perform: any of the transfers may have ended.
Perform(S) ==
    /\ worker = "perform" /\ S \subseteq active
    /\ done' = S
    /\ worker' = "reading"
    /\ UNCHANGED <<taskVars, multiplexed, diskVars, sequence, pending, cur, batchVars,
                   callVars, ctlVars>>

\* The multi handle fails: the catch block stops the service.
PerformFailed ==
    /\ worker = "perform"
    /\ stopped' = TRUE /\ worker' = "idle"
    /\ UNCHANGED <<taskVars, netVars, diskVars, sequence, pending, cur, batchVars,
                   callVars, stopper, otherRuns>>

\* Each CURLMSG_DONE is handled in a critical section of its own.
Reading(k) == worker = "reading" /\ k \in done

NoteProtocol(k) ==
    \E m \in BOOLEAN :
        multiplexed' = IF m THEN multiplexed \cup {HostOfTask(k)}
                            ELSE multiplexed \ {HostOfTask(k)}

TransferDelivered(k) ==
    /\ Reading(k)
    /\ NoteProtocol(k)
    /\ RemoveEasy({k}) /\ Publish(k) /\ Finish({k}, "Downloaded")
    /\ done' = done \ {k}
    /\ UNCHANGED <<sequence, workVars, callVars, ctlVars>>

\* A transient error or an invalid 2xx body, with attempts left: the task
\* keeps its lock and waits for its retry time.
TransferRetry(k) ==
    /\ Reading(k) /\ info[k].attempt < Retries
    /\ NoteProtocol(k)
    /\ RemoveEasy({k})
    /\ info' = [info EXCEPT ![k].attempt = @ + 1, ![k].ready = FALSE]
    /\ done' = done \ {k}
    /\ UNCHANGED <<tasks, lock, diskVars, sequence, workVars, batchVars, callVars, ctlVars>>

\* A permanent error, no attempt left, or the body cannot be published.
TransferFailed(k) ==
    /\ Reading(k)
    /\ NoteProtocol(k)
    /\ RemoveEasy({k}) /\ Finish({k}, "Failed")
    /\ done' = done \ {k}
    /\ UNCHANGED <<diskVars, sequence, workVars, callVars, ctlVars>>

EndReading ==
    /\ worker = "reading" /\ done = {}
    /\ worker' = "idle"
    /\ UNCHANGED <<taskVars, netVars, diskVars, sequence, pending, cur, batchVars,
                   callVars, ctlVars>>

\* After the loop: every task left is cancelled in one critical section.
Drain ==
    /\ worker = "idle" /\ stopped
    /\ RemoveEasy(tasks) /\ Finish(tasks, "Cancelled")
    /\ worker' = "exited"
    /\ UNCHANGED <<netVars, diskVars, sequence, pending, cur, callVars, ctlVars>>

\* The steps of the worker in which the network has no say.
WorkerStep ==
    \/ BeginPass \/ AbandonPass \/ EndPass \/ EndReading \/ Drain
    \/ \E k \in Keys :
        \/ DropUnwanted(k) \/ SkipHost(k) \/ StartCached(k) \/ StartFailed(k)
        \/ StartLocking(k) \/ LockBusy(k) \/ FoundAfterLock(k) \/ CopyLocal(k)
        \/ BeginTransfer(k) \/ TransferRefused(k)
        \/ TransferDelivered(k) \/ TransferRetry(k) \/ TransferFailed(k)

NetworkStep == PerformFailed \/ \E S \in SUBSET active : Perform(S)

\* RetryDeadline / the 25 ms lock back-off expires.
RetryDue(k) ==
    /\ k \in tasks /\ ~info[k].ready
    /\ info' = [info EXCEPT ![k].ready = TRUE]
    /\ UNCHANGED <<tasks, active, hosts, lock, netVars, diskVars, sequence, workVars,
                   batchVars, callVars, ctlVars>>

-----------------------------------------------------------------------------
(***************************************************************************)
(* Stop() and InvalidateValidation().                                      *)
(***************************************************************************)
Stop ==
    /\ stopper = "idle"
    /\ stopped' = TRUE /\ stopper' = "joining"
    /\ UNCHANGED <<taskVars, netVars, diskVars, sequence, workVars, batchVars, callVars,
                   otherRuns>>

Join ==
    /\ stopper = "joining" /\ worker = "exited"
    /\ stopper' = "joined"
    /\ UNCHANGED <<taskVars, netVars, diskVars, sequence, workVars, batchVars, callVars,
                   stopped, otherRuns>>

Invalidate(k) ==
    /\ MutexFree /\ stamp[k] # "none"
    /\ stamp' = [stamp EXCEPT ![k] = "none"]
    /\ UNCHANGED <<taskVars, netVars, file, sequence, workVars, batchVars, callVars, ctlVars>>

(***************************************************************************)
(* The rest of the machine: other processes run the same code, and a file  *)
(* on disk may be damaged with or without its size and mtime changing.     *)
(***************************************************************************)
Touched(k) == IF stamp[k] = "none" THEN "none" ELSE "stale"

OtherLocks(k) ==
    /\ lock[k] = "free" /\ otherRuns < MaxOther
    /\ lock' = [lock EXCEPT ![k] = "other"]
    /\ otherRuns' = otherRuns + 1
    /\ UNCHANGED <<tasks, info, active, hosts, netVars, diskVars, sequence, workVars,
                   batchVars, callVars, stopped, stopper>>

OtherPublishes(k) ==
    /\ lock[k] = "other" /\ file[k] = "bad"
    /\ file' = [file EXCEPT ![k] = "good"]
    /\ stamp' = [stamp EXCEPT ![k] = Touched(k)]
    /\ UNCHANGED <<taskVars, netVars, sequence, workVars, batchVars, callVars, ctlVars>>

OtherUnlocks(k) ==
    /\ lock[k] = "other"
    /\ lock' = [lock EXCEPT ![k] = "free"]
    /\ UNCHANGED <<tasks, info, active, hosts, netVars, diskVars, sequence, workVars,
                   batchVars, callVars, ctlVars>>

Damage(k) ==
    /\ file[k] = "good"
    /\ file' = [file EXCEPT ![k] = "bad"]
    /\ stamp' \in {stamp, [stamp EXCEPT ![k] = Touched(k)]}
    /\ UNCHANGED <<taskVars, netVars, sequence, workVars, batchVars, callVars, ctlVars>>

Next ==
    \/ \E c \in Calls : StartCall(c) \/ CallStep(c) \/ AskCancel(c)
    \/ WorkerStep \/ NetworkStep
    \/ Stop \/ Join
    \/ \E k \in Keys : RetryDue(k) \/ Invalidate(k)
    \/ \E k \in Shared :
        \/ OtherLocks(k) \/ OtherPublishes(k) \/ OtherUnlocks(k) \/ Damage(k)

Spec == Init /\ [][Next]_vars

(***************************************************************************)
(* Fairness.  The threads run: a call polls its batch every 25 ms and the  *)
(* worker never blocks longer than that.  A call needs the service mutex,  *)
(* which the worker takes in every round and gives up for a wait or poll   *)
(* of 25 ms: strong fairness for the calls.                                *)
(***************************************************************************)
ThreadFairness ==
    /\ \A c \in Calls : SF_vars(CallStep(c))
    /\ WF_vars(WorkerStep \/ NetworkStep)
    /\ WF_vars(Join)

(***************************************************************************)
(* Every transfer ends (CURLOPT_TIMEOUT_MS), every back-off expires and    *)
(* the other processes release their locks.  A server that answers with a  *)
(* Retry-After in the far future is not covered: see CancelReturns.        *)
(***************************************************************************)
EnvironmentFairness ==
    \A k \in Keys :
        /\ SF_vars(\E S \in SUBSET active : k \in S /\ Perform(S))
        /\ WF_vars(RetryDue(k))
        /\ WF_vars(OtherUnlocks(k))

ThreadSpec == Spec /\ ThreadFairness

-----------------------------------------------------------------------------
(***************************************************************************)
(* Properties.                                                             *)
(***************************************************************************)

\* Every variable has its type; in particular no attempt exceeds the retry
\* budget and no host counter becomes negative.
TypeOK ==
    /\ tasks \subseteq Keys /\ active \subseteq Keys /\ done \subseteq Keys
    /\ pending \subseteq Keys /\ cur \subseteq Keys
    /\ info \in [Keys -> Task \cup {NoTask}]
    /\ hosts \in [Hosts -> Nat]
    /\ multiplexed \subseteq Hosts
    /\ lock \in [Keys -> {"free", "self", "other"}]
    /\ file \in [Keys -> {"bad", "good"}]
    /\ stamp \in [Keys -> {"none", "stale", "match"}]
    /\ sequence \in Nat /\ otherRuns \in Nat
    /\ stopped \in BOOLEAN /\ stopper \in {"idle", "joining", "joined"}
    /\ worker \in {"idle", "pass", "locking", "perform", "reading", "exited"}
    /\ pc \in [Calls -> {"idle", "submit", "full", "wait", "returned"}]
    /\ reqs \in [Calls -> Seq(Request)] /\ pos \in [Calls -> Nat \ {0}]
    /\ results \in [Calls -> [Keys -> Outcomes \cup {"Absent", "Pending"}]]
    /\ finished \in [Calls -> Nat]
    /\ cancelAsked \in [Calls -> BOOLEAN] /\ cancelled \in [Calls -> BOOLEAN]

\* The tiles a call has passed.
Submitted(c) == {reqs[c][i].key : i \in {j \in DOMAIN reqs[c] : j < pos[c]}}

\* A result slot still pending after the call has passed it is owned by a live
\* task: nobody waits for an answer that will not come, and no task answers a
\* call that did not ask.
PendingIsOwned ==
    \A c \in Calls, k \in Keys :
        /\ c \in info[k].subscribers =>
            k \in tasks /\ results[c][k] = "Pending"
        /\ results[c][k] = "Pending" /\ k \in Submitted(c) => c \in info[k].subscribers

\* Batch::finished is the number of slots answered, whoever answered them: the
\* worker or the call itself (a URL conflict).
FinishedCounts ==
    \A c \in Calls :
        finished[c] = Cardinality({k \in Keys : results[c][k] \in Outcomes})

\* No call waits in vain and none returns early: on states of the right type,
\* every open slot has a task that will answer it and the count a call waits
\* for is the number of slots answered.
BatchesAccounted == TypeOK /\ PendingIsOwned /\ FinishedCounts

\* The transfer bookkeeping agrees in its four places: a handle belongs to a
\* live task that holds the file lock, the host counters count the handles,
\* the total respects the concurrency limit, and a lock of this process
\* belongs to a live task.
TransfersAccounted ==
    /\ Cardinality(active) <= Concurrency
    /\ \A h \in Hosts : hosts[h] = Cardinality({k \in active : HostOfTask(k) = h})
    /\ active \subseteq tasks
    /\ \A k \in active : lock[k] = "self"
    /\ \A k \in Keys : lock[k] = "self" => k \in tasks

\* The queue limit holds whatever the interleaving of the submitting calls.
QueueBounded == Cardinality(tasks) <= MaxQueued

\* The bookkeeping of calls, transfers and queue together, for the instance in
\* which the queue is full and one tile is asked of two sources.
AllAccounted == BatchesAccounted /\ TransfersAccounted /\ QueueBounded

\* After the worker has left there is no task, transfer or lock, and every tile
\* a call had submitted has its answer: no batch keeps a slot that only the
\* worker could fill.  It stays so: a call that submits late finds the service
\* stopped and does not revive it.
ShutdownClean ==
    worker = "exited" =>
        /\ tasks = {} /\ active = {}
        /\ \A c \in Calls : \A k \in Submitted(c) : results[c][k] \in Outcomes
        /\ \A k \in Keys : lock[k] # "self"
        /\ \A h \in Hosts : hosts[h] = 0

\* A call is told Cancelled only when it was itself cancelled or the service
\* stops: another subscriber's cancellation never takes its transfer away.
CancelIsolated ==
    [][\A c \in Calls, k \in Keys :
        results[c][k] # "Cancelled" /\ results'[c][k] = "Cancelled"
            => cancelled[c] \/ stopped]_vars

\* A new transfer respects the window of its host: more than PerHost at once
\* only on a host that last answered with HTTP/2.
WindowRespected ==
    [][\A k \in active' \ active :
        LET h == HostOf[info[k].url] IN
        hosts'[h] <= IF h \in multiplexed THEN Concurrency ELSE PerHost]_vars

\* Every call returns when the network answers within its timeouts, although
\* nobody cancels it: no answer is lost and no slot is left uncounted.
EnsureReturns ==
    EnvironmentFairness => \A c \in Calls : pc[c] = "submit" ~> pc[c] = "returned"

\* A cancelled call returns even when no transfer ever ends and no lock is ever
\* released.
CancelReturns ==
    \A c \in Calls : cancelAsked[c] ~> pc[c] = "returned"

\* Stop() returns, and so does every call, even when no transfer ever ends.
StopReturns ==
    /\ stopper = "joining" ~> stopper = "joined"
    /\ \A c \in Calls : stopped /\ pc[c] = "submit" ~> pc[c] = "returned"

-----------------------------------------------------------------------------
(***************************************************************************)
(* The mapping under which DownloadCache implements DownloadService.       *)
(***************************************************************************)
StatusOf(c) == IF pc[c] \in {"idle", "returned"} THEN pc[c] ELSE "open"
AnswerOf(result) ==
    CASE result = "Absent" -> "none"
      [] result = "Pending" -> "asked"
      [] result \in {"Cached", "Downloaded"} -> "usable"
      [] result = "Failed" -> "failed"
      [] result = "Cancelled" -> "withdrawn"

Service == INSTANCE DownloadService WITH
    status <- [c \in Calls |-> StatusOf(c)],
    answer <- [c \in Calls |-> [k \in Keys |-> AnswerOf(results[c][k])]],
    usable <- {k \in Keys : file[k] = "good"},
    vouched <- {k \in Keys : stamp[k] = "match"},
    withdrawn <- {c \in Calls : cancelAsked[c]},
    closed <- stopped

\* DownloadCache implements DownloadService: queueing, sharing, retries, locks
\* and shutdown never show through the interface of Ensure.
ImplementsService == Service!Spec

=============================================================================
