---------------------------- MODULE LocateProofs ----------------------------
(***************************************************************************)
(* Locate for any number of callers, devices, fetches and permits: first   *)
(* the worker threads and the fan-out of pushes, then the coalescer and    *)
(* its semaphore, then the two together.                                   *)
(***************************************************************************)
EXTENDS Locate, FiniteSetTheorems, TLAPS

-----------------------------------------------------------------------------
(* Requests on their threads.                                              *)

\* The backend pushes for a request only after the request's post.
PushesFollowPost ==
    \A r \in Requests :
        pushes[r] > 0 \/ current = r => stage[r] \in {"posted", "leaving", "over"}

ThreadInv ==
    ThreadTypeOK /\ PushesFollowPost /\ CallbacksAreRequests /\ NoLostPush

LEMMA ThreadInvInit == ThreadInit => ThreadInv
BY RequestsAssumption
   DEF ThreadInit, ThreadInv, ThreadTypeOK, RequestStages, PushesFollowPost,
       CallbacksAreRequests, NoLostPush

LEMMA ThreadInvStep == ThreadInv /\ [ThreadNext]_threadVars => ThreadInv'
<1> SUFFICES ASSUME ThreadInv, [ThreadNext]_threadVars
             PROVE  ThreadInv'
  OBVIOUS
<1> USE RequestsAssumption
        DEF ThreadInv, ThreadTypeOK, RequestStages, PushesFollowPost,
            CallbacksAreRequests, NoLostPush
<1>0. ASSUME NEW r \in Requests, Call(r)
      PROVE  ThreadInv'
  BY <1>0 DEF Call
<1>1. ASSUME NEW r \in Requests, Register(r)
      PROVE  ThreadInv'
  BY <1>1 DEF Register
<1>1a. ASSUME NEW r \in Requests, TokenFails(r)
      PROVE  ThreadInv'
  BY <1>1a DEF TokenFails
<1>2. ASSUME NEW r \in Requests, RegisterFails(r)
      PROVE  ThreadInv'
  BY <1>2 DEF RegisterFails
<1>3. ASSUME NEW r \in Requests, Post(r)
      PROVE  ThreadInv'
  BY <1>3 DEF Post
<1>4. ASSUME NEW r \in Requests, PostFails(r)
      PROVE  ThreadInv'
  BY <1>4 DEF PostFails
<1>5. ASSUME NEW r \in Requests, Decrypt(r)
      PROVE  ThreadInv'
  BY <1>5 DEF Decrypt
<1>6. ASSUME NEW r \in Requests, TimeOut(r)
      PROVE  ThreadInv'
  BY <1>6 DEF TimeOut
<1>7. ASSUME NEW r \in Requests, Leave(r)
      PROVE  ThreadInv'
  BY <1>7 DEF Leave, Unregistered
<1>8. ASSUME NEW r \in Requests, Deliver(r)
      PROVE  ThreadInv'
  BY <1>8 DEF Deliver, Snapshot
<1>9. CASE CallBack
  BY <1>9 DEF CallBack, IsMine, Over
<1>10. CASE UNCHANGED threadVars
  BY <1>10 DEF threadVars
<1> QED
  BY <1>0, <1>1, <1>1a, <1>2, <1>3, <1>4, <1>5, <1>6, <1>7, <1>8, <1>9, <1>10
     DEF ThreadNext, ThreadStep, ListenerStep

LEMMA ThreadInvHolds == ThreadSpec => []ThreadInv
BY ThreadInvInit, ThreadInvStep, PTL DEF ThreadSpec

-----------------------------------------------------------------------------
(* The coalescer and its semaphore.                                        *)

\* The slot of a device holds a fetch of the coalescer for it that exists
\* and whose _clear has not run.
SlotInv ==
    \A k \in Keys :
        inflight[k] # NoJob =>
            /\ KeyOf[inflight[k]] = k
            /\ shared[inflight[k]]
            /\ at[inflight[k]] \notin {"unused", "cleared"}

\* A running fetch of the coalescer is in the slot of its device.
RunningInv == \A j \in Jobs : shared[j] /\ Running(j) => inflight[KeyOf[j]] = j

\* The queue holds fetches that wait for a permit or were handed one, each
\* once.
QueueInv ==
    /\ \A i \in 1 .. Len(waiters) : at[waiters[i]] \in {"queued", "granted"}
    /\ \A m, n \in 1 .. Len(waiters) : waiters[m] = waiters[n] => m = n

LoopInv == LoopTypeOK /\ SlotInv /\ RunningInv /\ QueueInv /\ PermitsConserved

LEMMA NextJobIsUnused ==
    ASSUME NEW k \in Keys, Unused(k) # {}
    PROVE  NextJob(k) \in Jobs /\ at[NextJob(k)] = "unused" /\ KeyOf[NextJob(k)] = k
BY DEF NextJob, Unused

LEMMA FetchesAreFinite ==
    ASSUME NEW S \in SUBSET Jobs
    PROVE  IsFiniteSet(S) /\ Cardinality(S) \in Nat
<1>1. IsFiniteSet(Jobs)
  BY LocateAssumption, FS_Interval DEF Jobs
<1> QED
  BY <1>1, FS_Subset, FS_CardinalityType

LEMMA HoldingIsFinite == IsFiniteSet(Holding) /\ Cardinality(Holding) \in Nat
<1>1. Holding \in SUBSET Jobs
  BY DEF Holding
<1> QED
  BY <1>1, FetchesAreFinite

LEMMA LoopInvInit == LoopInit => LoopInv
<1> SUFFICES ASSUME LoopInit
             PROVE  LoopInv
  OBVIOUS
<1> USE LocateAssumption DEF LoopInit
<1>1. LoopTypeOK
  BY DEF LoopTypeOK, Stages
<1>2. SlotInv /\ RunningInv /\ QueueInv
  BY DEF SlotInv, RunningInv, QueueInv, Running
<1>3. PermitsConserved
  <2>1. Holding = {}
    BY DEF Holding
  <2> QED
    BY <2>1, FS_EmptySet DEF PermitsConserved
<1> QED
  BY <1>1, <1>2, <1>3 DEF LoopInv

\* A step that changes no permit, no waiter and nobody's claim to one keeps
\* the semaphore's part of the invariant.
LEMMA SemaphoreUntouched ==
    ASSUME LoopInv, UNCHANGED <<permits, waiters>>,
           NEW j \in Jobs, NEW to \in {"started", "cleared"},
           at' = at \/ (at' = [at EXCEPT ![j] = to] /\ at[j] \in {"unused", "finished"})
    PROVE  QueueInv' /\ PermitsConserved'
<1>1. Holding' = Holding
  BY DEF LoopInv, LoopTypeOK, Holding
<1>2. QueueInv'
  BY DEF LoopInv, LoopTypeOK, QueueInv
<1>3. waiters # <<>> => Head(waiters) = waiters[1] /\ 1 \in 1 .. Len(waiters)
  BY DEF LoopInv, LoopTypeOK
<1>4. permits > 0 /\ waiters # <<>> => at'[Head(waiters)] = "granted"
  BY <1>3 DEF LoopInv, LoopTypeOK, QueueInv, PermitsConserved
<1> QED
  BY <1>1, <1>2, <1>4 DEF LoopInv, PermitsConserved

LEMMA CallerKeepsLoopInv ==
    ASSUME LoopInv, NEW c \in Callers, CallerStep(c)
    PROVE  LoopInv'
<1> USE LocateAssumption
<1>1. ASSUME NEW k \in Keys, Lead(c, k)
      PROVE  LoopInv'
  <2> DEFINE j == NextJob(k)
  <2>1. j \in Jobs /\ at[j] = "unused" /\ KeyOf[j] = k
    BY <1>1, NextJobIsUnused DEF Lead, NewJob
  <2>2. /\ inflight[k] = NoJob
        /\ inflight' = [inflight EXCEPT ![k] = j]
        /\ shared' = [shared EXCEPT ![j] = TRUE]
        /\ at' = [at EXCEPT ![j] = "started"]
        /\ pc' = [pc EXCEPT ![c] = "awaiting"] /\ on' = [on EXCEPT ![c] = j]
        /\ UNCHANGED <<permits, waiters>>
    BY <1>1 DEF Lead, NewJob, HasFetch
  <2> HIDE DEF j
  <2>3. LoopTypeOK'
    BY <2>1, <2>2 DEF LoopInv, LoopTypeOK, Stages
  <2>4. SlotInv'
    BY <2>1, <2>2 DEF LoopInv, LoopTypeOK, SlotInv
  <2>5. RunningInv'
    BY <2>1, <2>2 DEF LoopInv, LoopTypeOK, RunningInv, Running
  <2> QED
    BY <2>1, <2>2, <2>3, <2>4, <2>5, SemaphoreUntouched DEF LoopInv
<1>2. ASSUME NEW k \in Keys, Capture(c, k)
      PROVE  LoopInv'
  <2> DEFINE j == NextJob(k)
  <2>1. j \in Jobs /\ at[j] = "unused" /\ KeyOf[j] = k
    BY <1>2, NextJobIsUnused DEF Capture, NewJob
  <2>2. /\ shared' = [shared EXCEPT ![j] = FALSE]
        /\ at' = [at EXCEPT ![j] = "started"]
        /\ pc' = [pc EXCEPT ![c] = "awaiting"] /\ on' = [on EXCEPT ![c] = j]
        /\ UNCHANGED <<inflight, permits, waiters>>
    BY <1>2 DEF Capture, NewJob
  <2> HIDE DEF j
  <2>3. LoopTypeOK'
    BY <2>1, <2>2 DEF LoopInv, LoopTypeOK, Stages
  <2>4. SlotInv'
    BY <2>1, <2>2 DEF LoopInv, LoopTypeOK, SlotInv
  <2>5. RunningInv'
    BY <2>1, <2>2 DEF LoopInv, LoopTypeOK, RunningInv, Running
  <2> QED
    BY <2>1, <2>2, <2>3, <2>4, <2>5, SemaphoreUntouched DEF LoopInv
<1>3. ASSUME UNCHANGED <<inflight, shared, at, permits, waiters>>, LoopTypeOK'
      PROVE  LoopInv'
  BY <1>3 DEF LoopInv, SlotInv, RunningInv, Running, QueueInv, PermitsConserved, Holding
<1>4. ASSUME NEW k \in Keys, Join(c, k) \/ JoinFinished(c, k)
      PROVE  LoopInv'
  BY <1>3, <1>4 DEF Join, JoinFinished, HasFetch, LoopInv, LoopTypeOK
<1>5. ASSUME CancelCaller(c) \/ Return(c)
      PROVE  LoopInv'
  BY <1>3, <1>5 DEF CancelCaller, Return, LoopInv, LoopTypeOK
<1> QED
  BY <1>1, <1>2, <1>4, <1>5 DEF CallerStep

\* Fetch j moves to a stage, and one of the p free permits to the first of
\* the sleepers in q: then no permit is free while the head of q sleeps, and
\* permits and holders change by as much.
LEMMA WakeNextKeepsQueue ==
    ASSUME LoopTypeOK, NEW j \in Jobs, NEW to \in {"working", "finished"},
           NEW p \in Nat, NEW q \in Seq(Jobs), at[j] \in {"working", "granted"},
           \A i \in 1 .. Len(q) : at[q[i]] \in {"queued", "granted"} /\ q[i] # j,
           WakeNext(j, to, p, q)
    PROVE  /\ at' \in [Jobs -> Stages]
           /\ \A n \in Jobs \ {j} :
                 at'[n] = at[n] \/ (at[n] = "queued" /\ at'[n] = "granted")
           /\ at'[j] = to
           /\ \A i \in 1 .. Len(q) : at'[q[i]] \in {"queued", "granted"}
           /\ permits' > 0 /\ 1 \in 1 .. Len(q) => at'[q[1]] = "granted"
           /\ permits' \in Nat
           /\ to = "working" => permits' + Cardinality(Holding')
                                 = p + Cardinality(Holding \union {j})
           /\ to = "finished" => permits' + Cardinality(Holding')
                                  = p + Cardinality(Holding \ {j})
<1> DEFINE kept == IF to = "working" THEN Holding \union {j} ELSE Holding \ {j}
<1>1. /\ \A i \in 1 .. Len(q) : q[i] \in Jobs
      /\ q # <<>> => 1 \in 1 .. Len(q)
  OBVIOUS
<1>2. IsFiniteSet(kept) /\ Cardinality(kept) \in Nat
  BY HoldingIsFinite, FS_AddElement, FS_RemoveElement, FS_CardinalityType
<1>3. CASE /\ p = 0 \/ Asleep(q) = {}
           /\ at' = [at EXCEPT ![j] = to]
           /\ permits' = p
  <2>1. Holding' = kept
    BY <1>3 DEF Holding, LoopTypeOK
  <2>2. q # <<>> /\ p > 0 => at[q[1]] = "granted"
    BY <1>1, <1>3 DEF Asleep
  <2> HIDE DEF kept
  <2>3. permits' + Cardinality(Holding') = p + Cardinality(kept)
    BY <1>3, <2>1
  <2> QED
    BY <1>1, <1>3, <2>2, <2>3 DEF LoopTypeOK, Stages, kept
<1>4. CASE /\ p > 0
           /\ \E i \in Asleep(q) :
                 /\ \A n \in Asleep(q) : i <= n
                 /\ at' = [at EXCEPT ![j] = to, ![q[i]] = "granted"]
           /\ permits' = p - 1
  <2>1. PICK i \in Asleep(q) :
               /\ \A n \in Asleep(q) : i <= n
               /\ at' = [at EXCEPT ![j] = to, ![q[i]] = "granted"]
    BY <1>4
  <2>2. i \in 1 .. Len(q) /\ q[i] \in Jobs /\ at[q[i]] = "queued" /\ q[i] # j
    BY <1>1 DEF Asleep
  <2>3. Holding' = kept \union {q[i]} /\ q[i] \notin kept
    BY <2>1, <2>2 DEF Holding, LoopTypeOK
  <2>4. q # <<>> => at'[q[1]] = "granted"
    <3>1. 1 \in Asleep(q) => i = 1
      BY <2>1, <2>2
    <3>2. q # <<>> /\ 1 \notin Asleep(q) => at[q[1]] = "granted"
      BY <1>1 DEF Asleep
    <3> QED
      BY <1>1, <2>1, <2>2, <3>1, <3>2 DEF LoopTypeOK
  <2> HIDE DEF kept
  <2>5. permits' + Cardinality(Holding') = p + Cardinality(kept)
    <3>1. Cardinality(Holding') = Cardinality(kept) + 1
      BY <1>2, <2>3, FS_AddElement
    <3> QED
      BY <1>2, <1>4, <3>1
  <2>6. permits' \in Nat
    BY <1>4
  <2>7. at' \in [Jobs -> Stages] /\ at'[j] = to
    BY <2>1, <2>2 DEF LoopTypeOK, Stages
  <2>8. \A n \in Jobs \ {j} :
           at'[n] = at[n] \/ (at[n] = "queued" /\ at'[n] = "granted")
    BY <2>1, <2>2 DEF LoopTypeOK
  <2> QED
    BY <1>1, <2>4, <2>5, <2>6, <2>7, <2>8 DEF kept
<1> QED
  BY <1>3, <1>4 DEF WakeNext

LEMMA AcquireKeepsLoopInv ==
    ASSUME LoopInv, NEW j \in Jobs, Acquire(j)
    PROVE  LoopInv'
<1> USE LocateAssumption
<1>1. /\ at[j] = "started" /\ j \notin Holding
      /\ \A i \in 1 .. Len(waiters) : waiters[i] # j
  BY DEF Acquire, LoopInv, QueueInv, Holding
<1>2. CASE FreePermit(j)
  <2>1. /\ permits > 0 /\ waiters = <<>> /\ permits' = permits - 1
        /\ at' = [at EXCEPT ![j] = "working"]
        /\ UNCHANGED <<inflight, shared, waiters, pc, on>>
    BY <1>2 DEF Acquire, FreePermit
  <2>2. Holding' = Holding \union {j}
    BY <2>1 DEF Holding, LoopInv, LoopTypeOK
  <2>3. Cardinality(Holding') = Cardinality(Holding) + 1
    BY <1>1, <2>2, HoldingIsFinite, FS_AddElement
  <2>4. PermitsConserved'
    BY <2>1, <2>3, HoldingIsFinite DEF LoopInv, LoopTypeOK, PermitsConserved
  <2>5. LoopTypeOK'
    BY <2>1, <2>4 DEF LoopInv, LoopTypeOK, Stages
  <2>6. SlotInv' /\ RunningInv' /\ QueueInv'
    BY <1>1, <2>1
       DEF LoopInv, LoopTypeOK, SlotInv, RunningInv, Running, QueueInv
  <2> QED
    BY <2>4, <2>5, <2>6 DEF LoopInv
<1>3. CASE ~FreePermit(j)
  <2>1. /\ permits = 0 \/ waiters # <<>>
        /\ at' = [at EXCEPT ![j] = "queued"]
        /\ waiters' = Append(waiters, j)
        /\ UNCHANGED <<inflight, shared, permits, pc, on>>
    BY <1>3 DEF Acquire, FreePermit, LoopInv, LoopTypeOK
  <2>2. /\ Len(waiters') = Len(waiters) + 1
        /\ \A i \in 1 .. Len(waiters) : waiters'[i] = waiters[i] /\ waiters[i] \in Jobs
        /\ waiters'[Len(waiters')] = j
        /\ waiters' \in Seq(Jobs)
    BY <2>1 DEF LoopInv, LoopTypeOK
  <2>3. Holding' = Holding
    BY <1>1, <2>1 DEF Holding, LoopInv, LoopTypeOK
  <2>4. QueueInv'
    BY <1>1, <2>1, <2>2 DEF LoopInv, LoopTypeOK, QueueInv
  <2>5. permits' > 0 => at'[Head(waiters')] = "granted"
    <3>1. permits > 0 => waiters # <<>> /\ Head(waiters) = waiters[1]
                         /\ 1 \in 1 .. Len(waiters)
      BY <2>1 DEF LoopInv, LoopTypeOK
    <3>2. permits > 0 => Head(waiters') = waiters[1]
      BY <2>2, <3>1
    <3> QED
      BY <1>1, <2>1, <2>2, <3>1, <3>2 DEF LoopInv, LoopTypeOK, PermitsConserved
  <2>6. LoopTypeOK' /\ PermitsConserved'
    BY <2>1, <2>2, <2>3, <2>5 DEF LoopInv, LoopTypeOK, Stages, PermitsConserved
  <2>7. SlotInv' /\ RunningInv'
    BY <1>1, <2>1 DEF LoopInv, LoopTypeOK, SlotInv, RunningInv, Running
  <2> QED
    BY <2>4, <2>6, <2>7 DEF LoopInv
<1> QED
  BY <1>2, <1>3

\* What Resume and FetchEnds share: a fetch of the slot keeps its slot.
LEMMA MoveKeepsSlots ==
    ASSUME LoopInv, UNCHANGED <<inflight, shared>>, NEW j \in Jobs,
           at[j] \in {"granted", "working"}, at'[j] \in {"working", "finished"},
           at' \in [Jobs -> Stages],
           \A n \in Jobs \ {j} :
              at'[n] = at[n] \/ (at[n] = "queued" /\ at'[n] = "granted")
    PROVE  SlotInv' /\ RunningInv'
BY LocateAssumption DEF LoopInv, LoopTypeOK, SlotInv, RunningInv, Running

\* What is left to show of such a move once its permits add up.
LEMMA SemaphoreKept ==
    ASSUME LoopInv, UNCHANGED <<inflight, shared, pc, on>>,
           at' \in [Jobs -> Stages], permits' \in Nat, waiters' \in Seq(Jobs),
           permits' + Cardinality(Holding') = permits + Cardinality(Holding),
           \A i \in 1 .. Len(waiters') : at'[waiters'[i]] \in {"queued", "granted"},
           permits' > 0 /\ 1 \in 1 .. Len(waiters') => at'[waiters'[1]] = "granted",
           \A m, n \in 1 .. Len(waiters') : waiters'[m] = waiters'[n] => m = n
    PROVE  LoopTypeOK' /\ QueueInv' /\ PermitsConserved'
<1>1. Holding' \in SUBSET Jobs
  BY DEF Holding
<1>2. Cardinality(Holding') \in Nat
  BY <1>1, FetchesAreFinite
<1>3. waiters' # <<>> => Head(waiters') = waiters'[1]
  OBVIOUS
<1>4. PermitsConserved'
  BY <1>2, <1>3, LocateAssumption DEF LoopInv, LoopTypeOK, PermitsConserved
<1>5. permits' \in 0 .. Permits
  BY <1>2, <1>4, LocateAssumption DEF PermitsConserved
<1> QED
  BY <1>4, <1>5 DEF LoopInv, LoopTypeOK, QueueInv

LEMMA ResumeKeepsLoopInv ==
    ASSUME LoopInv, NEW j \in Jobs, Resume(j)
    PROVE  LoopInv'
<1>0. PICK p, q : p = permits /\ q = Tail(waiters)
  OBVIOUS
<1>1. /\ at[j] = "granted" /\ j \in Holding
      /\ UNCHANGED <<inflight, shared, pc, on>>
      /\ waiters # <<>> /\ Head(waiters) = j
      /\ waiters' = q
      /\ WakeNext(j, "working", p, q)
  BY <1>0 DEF Resume, Holding, WakeNext, Asleep
<1>2. /\ q \in Seq(Jobs) /\ Len(q) = Len(waiters) - 1
      /\ \A i \in 1 .. Len(q) : q[i] = waiters[i + 1] /\ i + 1 \in 1 .. Len(waiters)
      /\ waiters[1] = j /\ 1 \in 1 .. Len(waiters)
  BY <1>0, <1>1 DEF LoopInv, LoopTypeOK
<1>3. \A i \in 1 .. Len(q) : at[q[i]] \in {"queued", "granted"} /\ q[i] # j
  <2> SUFFICES ASSUME NEW i \in 1 .. Len(q)
               PROVE  at[q[i]] \in {"queued", "granted"} /\ q[i] # j
    OBVIOUS
  <2>1. i + 1 # 1
    BY <1>2
  <2> QED
    BY <1>2, <2>1 DEF LoopInv, QueueInv
<1>4. LoopTypeOK /\ p \in Nat /\ at[j] \in {"working", "granted"}
  BY <1>0, <1>1 DEF LoopInv, LoopTypeOK
<1>5. /\ at' \in [Jobs -> Stages] /\ at'[j] = "working"
      /\ \A n \in Jobs \ {j} :
            at'[n] = at[n] \/ (at[n] = "queued" /\ at'[n] = "granted")
      /\ permits' \in Nat
  BY <1>1, <1>2, <1>3, <1>4, WakeNextKeepsQueue
<1>5a. \A i \in 1 .. Len(q) : at'[q[i]] \in {"queued", "granted"}
  BY <1>1, <1>2, <1>3, <1>4, WakeNextKeepsQueue
<1>5b. ASSUME permits' > 0, 1 \in 1 .. Len(q)
       PROVE  at'[q[1]] = "granted"
  BY <1>1, <1>2, <1>3, <1>4, <1>5b, WakeNextKeepsQueue
<1>6. permits' + Cardinality(Holding') = p + Cardinality(Holding \union {j})
  BY <1>1, <1>2, <1>3, <1>4, WakeNextKeepsQueue
<1>7. Holding \union {j} = Holding
  BY <1>1
<1>8. \A m, n \in 1 .. Len(q) : q[m] = q[n] => m = n
  <2> SUFFICES ASSUME NEW m \in 1 .. Len(q), NEW n \in 1 .. Len(q), q[m] = q[n]
               PROVE  m = n
    OBVIOUS
  <2>1. m + 1 = n + 1
    BY <1>2 DEF LoopInv, QueueInv
  <2> QED
    BY <2>1
<1>9. SlotInv' /\ RunningInv'
  BY <1>1, <1>4, <1>5, MoveKeepsSlots
<1>10. /\ waiters' \in Seq(Jobs)
       /\ \A i \in 1 .. Len(waiters') : at'[waiters'[i]] \in {"queued", "granted"}
       /\ permits' > 0 /\ 1 \in 1 .. Len(waiters') => at'[waiters'[1]] = "granted"
       /\ \A m, n \in 1 .. Len(waiters') : waiters'[m] = waiters'[n] => m = n
  BY <1>1, <1>2, <1>5a, <1>5b, <1>8
<1>11. LoopTypeOK' /\ QueueInv' /\ PermitsConserved'
  BY <1>0, <1>1, <1>5, <1>5a, <1>5b, <1>6, <1>7, <1>10, SemaphoreKept
<1> QED
  BY <1>9, <1>11 DEF LoopInv

LEMMA FetchEndsKeepsLoopInv ==
    ASSUME LoopInv, NEW j \in Jobs, FetchEnds(j)
    PROVE  LoopInv'
<1>0. PICK p, q : p = permits + 1 /\ q = waiters
  OBVIOUS
<1>1. /\ at[j] = "working" /\ j \in Holding
      /\ UNCHANGED <<inflight, shared, waiters, pc, on>>
      /\ WakeNext(j, "finished", p, q)
  BY <1>0 DEF FetchEnds, Release, Holding, WakeNext, Asleep
<1>2. /\ LoopTypeOK /\ permits \in Nat /\ p \in Nat /\ q \in Seq(Jobs)
      /\ at[j] \in {"working", "granted"}
      /\ \A i \in 1 .. Len(q) : at[q[i]] \in {"queued", "granted"} /\ q[i] # j
  BY <1>0, <1>1 DEF LoopInv, LoopTypeOK, QueueInv
<1>3. /\ at' \in [Jobs -> Stages] /\ at'[j] = "finished"
      /\ \A n \in Jobs \ {j} :
            at'[n] = at[n] \/ (at[n] = "queued" /\ at'[n] = "granted")
      /\ permits' \in Nat
  BY <1>1, <1>2, WakeNextKeepsQueue
<1>3a. \A i \in 1 .. Len(q) : at'[q[i]] \in {"queued", "granted"}
  BY <1>1, <1>2, WakeNextKeepsQueue
<1>3b. ASSUME permits' > 0, 1 \in 1 .. Len(q)
       PROVE  at'[q[1]] = "granted"
  BY <1>1, <1>2, <1>3b, WakeNextKeepsQueue
<1>4. permits' + Cardinality(Holding') = p + Cardinality(Holding \ {j})
  BY <1>1, <1>2, WakeNextKeepsQueue
<1>5. Cardinality(Holding \ {j}) = Cardinality(Holding) - 1
  BY <1>1, HoldingIsFinite, FS_RemoveElement
<1>6. permits' + Cardinality(Holding') = permits + Cardinality(Holding)
  BY <1>0, <1>2, <1>4, <1>5, HoldingIsFinite
<1>7. \A m, n \in 1 .. Len(waiters) : waiters[m] = waiters[n] => m = n
  BY DEF LoopInv, QueueInv
<1>8. SlotInv' /\ RunningInv'
  BY <1>1, <1>2, <1>3, MoveKeepsSlots
<1>9. /\ waiters' \in Seq(Jobs)
      /\ \A i \in 1 .. Len(waiters') : at'[waiters'[i]] \in {"queued", "granted"}
      /\ permits' > 0 /\ 1 \in 1 .. Len(waiters') => at'[waiters'[1]] = "granted"
      /\ \A m, n \in 1 .. Len(waiters') : waiters'[m] = waiters'[n] => m = n
  BY <1>0, <1>1, <1>2, <1>3a, <1>3b, <1>7
<1>10. LoopTypeOK' /\ QueueInv' /\ PermitsConserved'
  BY <1>1, <1>3, <1>3a, <1>3b, <1>6, <1>9, SemaphoreKept
<1> QED
  BY <1>8, <1>10 DEF LoopInv

LEMMA ClearKeepsLoopInv ==
    ASSUME LoopInv, NEW j \in Jobs, Clear(j)
    PROVE  LoopInv'
<1> USE LocateAssumption
<1>1. LoopTypeOK'
  BY DEF Clear, LoopInv, LoopTypeOK, Stages
<1>2. SlotInv' /\ RunningInv'
  BY DEF Clear, LoopInv, LoopTypeOK, SlotInv, RunningInv, Running
<1>3. QueueInv' /\ PermitsConserved'
  BY SemaphoreUntouched DEF Clear
<1> QED
  BY <1>1, <1>2, <1>3 DEF LoopInv

LEMMA LoopInvStep == LoopInv /\ [LoopNext]_loopVars => LoopInv'
<1> SUFFICES ASSUME LoopInv, [LoopNext]_loopVars
             PROVE  LoopInv'
  OBVIOUS
<1>1. CASE UNCHANGED loopVars
  BY <1>1 DEF loopVars, LoopInv, LoopTypeOK, SlotInv, RunningInv, Running,
              QueueInv, PermitsConserved, Holding
<1> QED
  BY <1>1, CallerKeepsLoopInv, AcquireKeepsLoopInv, ResumeKeepsLoopInv,
     FetchEndsKeepsLoopInv, ClearKeepsLoopInv DEF LoopNext

LEMMA LoopInvHolds == LoopSpec => []LoopInv
BY LoopInvInit, LoopInvStep, PTL DEF LoopSpec

LEMMA OneFetchPerDevice == LoopInv => SingleFlight
BY LocateAssumption DEF LoopInv, LoopTypeOK, RunningInv, SingleFlight

-----------------------------------------------------------------------------
(* The two together.                                                       *)

\* A step of the whole is a step of the loop, or of a thread, or of both:
\* neither component can tell that the other is there.
LEMMA StepsOfTheParts == [Next]_vars => [LoopNext]_loopVars /\ [ThreadNext]_threadVars
<1> SUFFICES ASSUME [Next]_vars
             PROVE  [LoopNext]_loopVars /\ [ThreadNext]_threadVars
  OBVIOUS
<1> USE FetchesAreRequests
<1>1. ASSUME NEW j \in Jobs, Dispatch(j)
      PROVE  ThreadNext /\ UNCHANGED loopVars
  BY <1>1 DEF Dispatch, ThreadNext
<1>2. ASSUME NEW j \in Jobs, EndFetch(j)
      PROVE  LoopNext /\ UNCHANGED threadVars
  BY <1>2 DEF EndFetch, LoopNext
<1>3. ASSUME NEW j \in Jobs, ThreadStep(j)
      PROVE  ThreadNext
  BY <1>3 DEF ThreadNext
<1> QED
  BY <1>1, <1>2, <1>3 DEF Next, vars, LoopNext, ThreadNext

\* The composition implements both components, so what is proved of the
\* loop alone and of the threads alone holds of the two together.
THEOREM LocateImplementsParts == Spec => LoopSpec /\ ThreadSpec
<1>1. Init => LoopInit /\ ThreadInit
  BY DEF Init
<1> QED
  BY <1>1, StepsOfTheParts, PTL DEF Spec, LoopSpec, ThreadSpec

LEMMA PartsInv == Spec => [](LoopInv /\ ThreadInv)
BY LocateImplementsParts, LoopInvHolds, ThreadInvHolds, PTL

\* The state of the coalescer, of the semaphore and of every request keeps
\* its type.
THEOREM LocateTypeCorrect == Spec => []LocateTypeOK
<1>1. LoopInv /\ ThreadInv => LocateTypeOK
  BY DEF LoopInv, ThreadInv, LocateTypeOK
<1> QED
  BY <1>1, PartsInv, PTL

\* The coalescer never runs two fetches for one device, for any number of
\* callers that come, are cancelled and come again.
THEOREM SingleFlightHolds == Spec => []SingleFlight
BY OneFetchPerDevice, PartsInv, PTL

\* The locate semaphore neither loses nor makes up a permit, and hands a free
\* one to the first fetch that waits, for any number of permits and fetches.
THEOREM PermitsConservedHolds == Spec => []PermitsConserved
<1>1. LoopInv => PermitsConserved
  BY DEF LoopInv
<1> QED
  BY <1>1, PartsInv, PTL

\* A push that is being handed out reaches the request that waits for it, also
\* when it overtakes the response to the request's post.
THEOREM NoLostPushHolds == Spec => []NoLostPush
<1>1. ThreadInv => NoLostPush
  BY DEF ThreadInv
<1> QED
  BY <1>1, PartsInv, PTL

\* A request's callback is in the list as long as the backend may answer it,
\* and stays there for good after the token lookup raised: no other way out of
\* a request leaks it.
THEOREM OneWayOutLeaks == Spec => []CallbacksAreRequests
<1>1. ThreadInv => CallbacksAreRequests
  BY DEF ThreadInv
<1> QED
  BY <1>1, PartsInv, PTL

\* A request runs only while its fetch holds a permit.
ThreadsHoldPermits ==
    \A j \in Jobs : stage[j] # "idle" /\ ~Over(j) => at[j] = "working"

LEMMA WorkingUntilItEnds ==
    ASSUME LoopInv, NEW j \in Jobs, at[j] = "working",
           \/ UNCHANGED loopVars
           \/ \E c \in Callers : CallerStep(c)
           \/ \E n \in Jobs : Acquire(n) \/ Resume(n) \/ Clear(n)
           \/ \E n \in Jobs \ {j} : FetchEnds(n)
    PROVE  at'[j] = "working"
<1> USE DEF LoopInv, LoopTypeOK
<1>1. CASE UNCHANGED loopVars
  BY <1>1 DEF loopVars
<1>2. ASSUME NEW c \in Callers, CallerStep(c)
      PROVE  at'[j] = "working"
  BY <1>2, NextJobIsUnused
     DEF CallerStep, Lead, Capture, NewJob, Join, JoinFinished, CancelCaller, Return
<1>3. ASSUME NEW n \in Jobs, Acquire(n)
      PROVE  at'[j] = "working"
  BY <1>3 DEF Acquire
<1>4. ASSUME NEW n \in Jobs, Resume(n)
      PROVE  at'[j] = "working"
  BY <1>4 DEF Resume, WakeNext, Asleep
<1>5. ASSUME NEW n \in Jobs \ {j}, FetchEnds(n)
      PROVE  at'[j] = "working"
  BY <1>5 DEF FetchEnds, Release, WakeNext, Asleep
<1>6. ASSUME NEW n \in Jobs, Clear(n)
      PROVE  at'[j] = "working"
  BY <1>6 DEF Clear
<1> QED
  BY <1>1, <1>2, <1>3, <1>4, <1>5, <1>6

LEMMA ThreadsKeepTheirPermits ==
    LoopInv /\ ThreadInv /\ ThreadsHoldPermits /\ [Next]_vars => ThreadsHoldPermits'
<1> SUFFICES ASSUME LoopInv, ThreadInv, ThreadsHoldPermits, [Next]_vars,
                    NEW j \in Jobs, stage'[j] # "idle", ~Over(j)'
             PROVE  at'[j] = "working"
  BY DEF ThreadsHoldPermits
<1> USE FetchesAreRequests DEF ThreadInv, ThreadTypeOK, Over
<1>1. CASE stage' = stage
  <2>1. at[j] = "working" /\ ~Over(j)
    BY <1>1 DEF ThreadsHoldPermits
  <2>2. CASE \E n \in Jobs : EndFetch(n)
    BY <2>1, <2>2, WorkingUntilItEnds DEF EndFetch
  <2>3. CASE ~\E n \in Jobs : EndFetch(n)
    BY <2>1, <2>3, WorkingUntilItEnds DEF Next, vars, Dispatch
  <2> QED
    BY <2>2, <2>3
<1>2. ASSUME NEW n \in Jobs, Dispatch(n)
      PROVE  at'[j] = "working"
  BY <1>2 DEF Dispatch, Call, loopVars, ThreadsHoldPermits
<1>3. ASSUME NEW n \in Jobs, ThreadStep(n), UNCHANGED loopVars
      PROVE  at'[j] = "working"
  BY <1>3 DEF ThreadStep, Register, RegisterFails, TokenFails, Post, PostFails, Decrypt, TimeOut, Leave, loopVars,
              ThreadsHoldPermits
<1> QED
  BY <1>1, <1>2, <1>3
     DEF Next, vars, threadVars, EndFetch, ListenerStep, CallBack, Deliver

\* Whatever the callers do, no more requests are with the backend at a time
\* than LOCATE_CONCURRENCY allows.
THEOREM LoadIsBounded == Spec => []BackendLoad
<1>1. Init => ThreadsHoldPermits
  BY FetchesAreRequests DEF Init, ThreadInit, ThreadsHoldPermits
<1>2. LoopInv /\ ThreadsHoldPermits => BackendLoad
  <2> SUFFICES ASSUME LoopInv, ThreadsHoldPermits
               PROVE  BackendLoad
    OBVIOUS
  <2> DEFINE S == {j \in Jobs : stage[j] # "idle" /\ ~Over(j)}
  <2>1. S \subseteq Holding
    BY DEF ThreadsHoldPermits, Holding
  <2>2. S \in SUBSET Jobs
    OBVIOUS
  <2>3. Cardinality(S) \in Nat /\ Cardinality(S) <= Cardinality(Holding)
    BY <2>1, <2>2, FetchesAreFinite, HoldingIsFinite, FS_Subset
  <2> QED
    BY <2>3, HoldingIsFinite, LocateAssumption DEF LoopInv, PermitsConserved, BackendLoad
<1> QED
  BY <1>1, <1>2, ThreadsKeepTheirPermits, PartsInv, PTL DEF Spec
=============================================================================
