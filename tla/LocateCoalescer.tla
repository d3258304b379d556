-------------------------- MODULE LocateCoalescer --------------------------
(***************************************************************************)
(* Locate requests on the event loop (webui/locate_coalescer.py and the    *)
(* locate functions of webui/deps.py).  Callers of locate_device() share   *)
(* one fetch per device; callers of locate_device_with_capture() run one   *)
(* of their own; every fetch holds a permit of one semaphore.              *)
(*                                                                         *)
(* One step is one run of a coroutine up to its next await, or one         *)
(* callback, of the single event loop.  A finished task does not call its  *)
(* callbacks: it schedules them, _clear first and those of the waiting     *)
(* callers after it, behind whatever the loop has ready by then.           *)
(***************************************************************************)
EXTENDS Integers, Sequences, FiniteSets

CONSTANTS
    Callers,    \* the coroutines that ask for a locate
    Keys,       \* the devices, by canonic id
    MaxJobs,    \* bound on the fetches of a behaviour
    KeyOf,      \* the device each of them is for: a bound per device
    Permits,    \* LOCATE_CONCURRENCY
    NoJob

Jobs == 1 .. MaxJobs

ASSUME LocateAssumption ==
    /\ IsFiniteSet(Callers)
    /\ MaxJobs \in Nat
    /\ Permits \in Nat \ {0}
    /\ NoJob \notin Jobs
    /\ KeyOf \in [Jobs -> Keys]

VARIABLES
    inflight,   \* self._inflight, NoJob where the dict has no entry
    shared,     \* whether the fetch is the coalescer's
    at,         \* where each fetch is
    permits,    \* _locate_semaphore._value
    waiters,    \* _locate_semaphore._waiters, in order
    pc,         \* whether a caller is awaiting
    on          \* the fetch it awaits, or was given without having to wait

loopVars == <<inflight, shared, at, permits, waiters, pc, on>>

\* "unused": no such fetch yet; "started": its coroutine has not run;
\* "queued", "granted": waiting for a permit, and given one but not resumed;
\* "working": a worker thread runs it; "finished": the task is done, its
\* callbacks are scheduled; "cleared": _clear has run.
Stages == {"unused", "started", "queued", "granted", "working", "finished", "cleared"}

LoopTypeOK ==
    /\ inflight \in [Keys -> Jobs \union {NoJob}]
    /\ shared \in [Jobs -> BOOLEAN]
    /\ at \in [Jobs -> Stages]
    /\ permits \in 0 .. Permits
    /\ waiters \in Seq(Jobs)
    /\ pc \in [Callers -> {"out", "awaiting"}]
    /\ on \in [Callers -> Jobs \union {NoJob}]

LoopInit ==
    /\ inflight = [k \in Keys |-> NoJob]
    /\ shared = [j \in Jobs |-> FALSE]
    /\ at = [j \in Jobs |-> "unused"]
    /\ permits = Permits
    /\ waiters = <<>>
    /\ pc = [c \in Callers |-> "out"]
    /\ on = [c \in Callers |-> NoJob]

Unused(k) == {j \in Jobs : at[j] = "unused" /\ KeyOf[j] = k}

NextJob(k) == CHOOSE j \in Unused(k) : TRUE

-----------------------------------------------------------------------------
(* The callers.                                                            *)

NewJob(c, k, isShared) ==
    /\ Unused(k) # {}
    /\ shared' = [shared EXCEPT ![NextJob(k)] = isShared]
    /\ at' = [at EXCEPT ![NextJob(k)] = "started"]
    /\ pc' = [pc EXCEPT ![c] = "awaiting"]
    /\ on' = [on EXCEPT ![c] = NextJob(k)]

\* A mistaken HasFetch: a fetch is not seen until it has its permit.
HasWorkingFetch(k) == inflight[k] # NoJob /\ at[inflight[k]] = "working"

\* task is not None
HasFetch(k) == inflight[k] # NoJob

\* get_or_fetch() finds no task for the device and starts one.
Lead(c, k) ==
    /\ pc[c] = "out"
    /\ ~HasFetch(k)
    /\ NewJob(c, k, TRUE)
    /\ inflight' = [inflight EXCEPT ![k] = NextJob(k)]
    /\ UNCHANGED <<permits, waiters>>

\* It finds one and awaits it.
Join(c, k) ==
    /\ pc[c] = "out"
    /\ HasFetch(k)
    /\ at[inflight[k]] # "finished"
    /\ pc' = [pc EXCEPT ![c] = "awaiting"]
    /\ on' = [on EXCEPT ![c] = inflight[k]]
    /\ UNCHANGED <<inflight, shared, at, permits, waiters>>

\* It finds one that is done, whose _clear has not run: the await returns
\* its result without suspending the caller.
JoinFinished(c, k) ==
    /\ pc[c] = "out"
    /\ HasFetch(k)
    /\ at[inflight[k]] = "finished"
    /\ on' = [on EXCEPT ![c] = inflight[k]]
    /\ UNCHANGED <<inflight, shared, at, permits, waiters, pc>>

\* locate_device_with_capture(): past the coalescer, to the semaphore.
Capture(c, k) ==
    /\ pc[c] = "out"
    /\ NewJob(c, k, FALSE)
    /\ UNCHANGED <<inflight, permits, waiters>>

\* A caller's own request is dropped: only its shield is cancelled.
CancelCaller(c) ==
    /\ pc[c] = "awaiting"
    /\ shared[on[c]]
    /\ pc' = [pc EXCEPT ![c] = "out"]
    /\ on' = [on EXCEPT ![c] = NoJob]
    /\ UNCHANGED <<inflight, shared, at, permits, waiters>>

\* The caller resumes with the result, or the exception, of its fetch: after
\* _clear, which was scheduled before the caller's wake-up.
Return(c) ==
    /\ pc[c] = "awaiting"
    /\ at[on[c]] = IF shared[on[c]] THEN "cleared" ELSE "finished"
    /\ pc' = [pc EXCEPT ![c] = "out"]
    /\ on' = [on EXCEPT ![c] = NoJob]
    /\ UNCHANGED <<inflight, shared, at, permits, waiters>>

-----------------------------------------------------------------------------
(* The fetches, and asyncio.Semaphore as the fetches use it.               *)

\* The places in queue q whose fetch has no permit yet.
Asleep(q) == {i \in 1 .. Len(q) : at[q[i]] = "queued"}

\* With p permits free and fetch j moved to the stage `to`, hand one to the
\* first waiter in q that has none.
WakeNext(j, to, p, q) ==
    \/ /\ p > 0
       /\ \E i \in Asleep(q) :
             /\ \A n \in Asleep(q) : i <= n
             /\ at' = [at EXCEPT ![j] = to, ![q[i]] = "granted"]
       /\ permits' = p - 1
    \/ /\ p = 0 \/ Asleep(q) = {}
       /\ at' = [at EXCEPT ![j] = to]
       /\ permits' = p

\* A mistaken FreePermit: a capture does not wait its turn.
FreePermitOrCapture(j) == ~shared[j] \/ (permits > 0 /\ waiters = <<>>)

\* not locked()
FreePermit(j) == permits > 0 /\ waiters = <<>>

\* The fetch runs up to the semaphore, and through it if it can.
Acquire(j) ==
    /\ at[j] = "started"
    /\ IF FreePermit(j)
       THEN /\ at' = [at EXCEPT ![j] = "working"]
            /\ permits' = permits - 1
            /\ UNCHANGED waiters
       ELSE /\ at' = [at EXCEPT ![j] = "queued"]
            /\ waiters' = Append(waiters, j)
            /\ UNCHANGED permits
    /\ UNCHANGED <<inflight, shared, pc, on>>

\* A waiter that was handed a permit resumes, and passes on what is left.
\* Waiters are handed permits, and resume, in their order in the queue.
Resume(j) ==
    /\ at[j] = "granted"
    /\ waiters # <<>> /\ j = Head(waiters)
    /\ waiters' = Tail(waiters)
    /\ WakeNext(j, "working", permits, Tail(waiters))
    /\ UNCHANGED <<inflight, shared, pc, on>>

\* A mistaken Release: the permit is given back twice.
ReleaseTwice(j) == WakeNext(j, "finished", permits + 2, waiters)

\* async with exits: one permit more, for the first waiter.
Release(j) == WakeNext(j, "finished", permits + 1, waiters)

\* run_blocking() returns or raises in the fetch: it gives its permit back
\* and the task is done.
FetchEnds(j) ==
    /\ at[j] = "working"
    /\ Release(j)
    /\ UNCHANGED <<inflight, shared, waiters, pc, on>>

\* The _clear callback of the coalescer's task.
Clear(j) ==
    /\ at[j] = "finished"
    /\ shared[j]
    /\ at' = [at EXCEPT ![j] = "cleared"]
    /\ inflight' = IF inflight[KeyOf[j]] = j
                   THEN [inflight EXCEPT ![KeyOf[j]] = NoJob]
                   ELSE inflight
    /\ UNCHANGED <<shared, permits, waiters, pc, on>>

CallerStep(c) ==
    \/ \E k \in Keys : Lead(c, k) \/ Join(c, k) \/ JoinFinished(c, k) \/ Capture(c, k)
    \/ CancelCaller(c)
    \/ Return(c)

LoopNext ==
    \/ \E c \in Callers : CallerStep(c)
    \/ \E j \in Jobs : Acquire(j) \/ Resume(j) \/ FetchEnds(j) \/ Clear(j)

LoopSpec == LoopInit /\ [][LoopNext]_loopVars

-----------------------------------------------------------------------------
Running(j) == at[j] \in {"started", "queued", "granted", "working"}

\* Never two fetches of the coalescer for one device, however their callers
\* come and go.
SingleFlight ==
    \A i, j \in Jobs :
        shared[i] /\ shared[j] /\ KeyOf[i] = KeyOf[j] /\ Running(i) /\ Running(j) => i = j

Holding == {j \in Jobs : at[j] \in {"granted", "working"}}

\* A permit is never lost nor made up while waiters, hand-overs and captures
\* interleave, and none lies idle while a fetch waits for one: the first
\* waiter has been handed it.
PermitsConserved ==
    /\ Cardinality(Holding) <= Permits
    /\ permits + Cardinality(Holding) = Permits
    /\ permits > 0 /\ waiters # <<>> => at[Head(waiters)] = "granted"
=============================================================================
