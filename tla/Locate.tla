------------------------------ MODULE Locate -------------------------------
(***************************************************************************)
(* Locating devices end to end: callers on the event loop (LocateCoalescer *)
(* module) whose fetches are requests on worker threads (LocateRequest).   *)
(* A fetch that gets its permit is dispatched by run_blocking() and ends   *)
(* when its thread is over.                                                *)
(***************************************************************************)
EXTENDS LocateCoalescer, LocateRequest

\* Each fetch is one call of get_location_data_for_device().
ASSUME FetchesAreRequests == Requests = Jobs

vars == <<loopVars, threadVars>>

LocateTypeOK == LoopTypeOK /\ ThreadTypeOK

Init == LoopInit /\ ThreadInit

\* run_blocking(get_location_data_for_device, ...) starts on the executor.
Dispatch(j) ==
    /\ at[j] = "working"
    /\ Call(j)
    /\ UNCHANGED loopVars

\* Its thread is over, and the loop resumes the fetch.
EndFetch(j) ==
    /\ Over(j)
    /\ FetchEnds(j)
    /\ UNCHANGED threadVars

Next ==
    \/ \E c \in Callers : CallerStep(c) /\ UNCHANGED threadVars
    \/ \E j \in Jobs :
          \/ (Acquire(j) \/ Resume(j) \/ Clear(j)) /\ UNCHANGED threadVars
          \/ Dispatch(j)
          \/ EndFetch(j)
          \/ ThreadStep(j) /\ UNCHANGED loopVars
    \/ ListenerStep /\ UNCHANGED loopVars

Spec == Init /\ [][Next]_vars

\* The loop runs what is ready, the pool runs its threads, and a wait ends
\* with its push or with its timeout; nova_request() ends (BackendRequests).
\* No fairness for a registration: it may go on for ever (HalfRegistered).
\* That anything raises is never assumed.
Fairness ==
    /\ \A j \in Jobs :
          /\ WF_vars((Acquire(j) \/ Resume(j) \/ Clear(j)) /\ UNCHANGED threadVars)
          /\ WF_vars(Dispatch(j))
          /\ WF_vars(EndFetch(j))
          /\ WF_vars(ThreadProgress(j) /\ UNCHANGED loopVars)
    /\ \A c \in Callers : WF_vars(Return(c) /\ UNCHANGED threadVars)

FairSpec == Spec /\ Fairness

-----------------------------------------------------------------------------
\* The requests that are with the backend never outnumber the permits.
BackendLoad ==
    Cardinality({j \in Jobs : stage[j] # "idle" /\ ~Over(j)}) <= Permits

Registering == {j \in Jobs : stage[j] = "registering"}

\* A caller waits for a registration: its own fetch's, or those of fetches
\* that hold all the permits.
KeptByRegistration(c) ==
    /\ pc[c] = "awaiting"
    /\ on[c] \in Registering \/ Cardinality(Registering) = Permits

\* Whoever asks for a locate gets an answer: leaders, joiners of a fetch
\* whose leader was cancelled, captures queueing for a permit, with pushes
\* lost, late or sent twice.  Nothing keeps a caller for ever but a push
\* registration that never ends, and somebody else's only if as many of them
\* hang as there are permits.
EveryCallerReturns ==
    \A c \in Callers :
        pc[c] = "awaiting" ~> (pc[c] = "out" \/ []KeptByRegistration(c))
=============================================================================
