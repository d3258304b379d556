-------------------------- MODULE BackendRequests --------------------------
(***************************************************************************)
(* The two call points through which every request to Google's backend     *)
(* goes, nova_request() and spot_request(), composed with the rate limiter *)
(* they share.  A Nova request is retried after a network error or a       *)
(* retryable status and takes a new slot for each attempt; a Spot request  *)
(* is posted once.  A request is a caller thread's; threads interleave.    *)
(***************************************************************************)
EXTENDS QueryThrottle

CONSTANT RETRIES    \* NOVA_REQUEST_RETRIES

ASSUME RetriesAssumption == RETRIES \in Nat

VARIABLES
    kind,       \* which of the two call points the caller is in
    phase,      \* where in it
    attempt,    \* nova_request()'s local counter
    posts       \* history: requests posted in the present call

requestVars == <<kind, phase, attempt, posts>>

Kinds == {"nova", "spot"}
Phases == {"idle", "queued", "posting", "backoff"}

RequestTypeOK ==
    /\ TypeOK
    /\ kind \in [Callers -> Kinds]
    /\ phase \in [Callers -> Phases]
    /\ attempt \in [Callers -> 0 .. RETRIES]
    /\ posts \in [Callers -> Nat]

RequestInit ==
    /\ Init
    /\ kind = [c \in Callers |-> "nova"]
    /\ phase = [c \in Callers |-> "idle"]
    /\ attempt = [c \in Callers |-> 0]
    /\ posts = [c \in Callers |-> 0]

-----------------------------------------------------------------------------
\* A thread calls one of the two and reaches its first wait_turn().  (The
\* bound on the calls of wait_turn() leaves room for every retry.)
StartRequest(c) ==
    /\ phase[c] = "idle"
    /\ calls[c] + RETRIES + 1 <= MaxCalls
    /\ Enter(c)
    /\ \E k \in Kinds : kind' = [kind EXCEPT ![c] = k]
    /\ phase' = [phase EXCEPT ![c] = "queued"]
    /\ attempt' = [attempt EXCEPT ![c] = 0]
    /\ posts' = [posts EXCEPT ![c] = 0]

\* wait_turn() returns: the request is on its way.
SlotTaken(c) ==
    /\ TakeSlot(c)
    /\ phase' = [phase EXCEPT ![c] = "posting"]
    /\ posts' = [posts EXCEPT ![c] = @ + 1]
    /\ UNCHANGED <<kind, attempt>>

\* wait_turn() raises, and the error leaves the call.
SlotRefused(c) ==
    /\ SettingsRaise(c)
    /\ phase' = [phase EXCEPT ![c] = "idle"]
    /\ UNCHANGED <<kind, attempt, posts>>

StayQueued(c) ==
    /\ GoToSleep(c) \/ Wake(c)
    /\ UNCHANGED requestVars

\* The call returns or raises.
Finish(c) ==
    /\ phase' = [phase EXCEPT ![c] = "idle"]
    /\ UNCHANGED <<vars, kind, attempt, posts>>

BackOff(c) ==
    /\ phase' = [phase EXCEPT ![c] = "backoff"]
    /\ attempt' = [attempt EXCEPT ![c] = @ + 1]
    /\ UNCHANGED <<vars, kind, posts>>

\* Status 200, or one that is never retried.
Answered(c) ==
    /\ phase[c] = "posting"
    /\ Finish(c)

\* A mistaken RetriesNetworkError: both call points retry.
RetriesAnyNetworkError(c) == attempt[c] + 1 <= RETRIES

RetriesNetworkError(c) == kind[c] = "nova" /\ attempt[c] + 1 <= RETRIES

RetriesStatus(c) == kind[c] = "nova" /\ attempt[c] < RETRIES

\* A connection error or a timeout: nova_request() counts it and retries
\* until the count passes RETRIES; spot_request() catches nothing.
NetworkError(c) ==
    /\ phase[c] = "posting"
    /\ IF RetriesNetworkError(c)
       THEN BackOff(c)
       ELSE Finish(c)

\* 500, 502, 503 or 504.
RetryableStatus(c) ==
    /\ phase[c] = "posting"
    /\ IF RetriesStatus(c)
       THEN BackOff(c)
       ELSE Finish(c)

\* time.sleep(NOVA_REQUEST_RETRY_BACKOFF_S) is over: queue for a new slot.
Retry(c) ==
    /\ phase[c] = "backoff"
    /\ Enter(c)
    /\ phase' = [phase EXCEPT ![c] = "queued"]
    /\ UNCHANGED <<kind, attempt, posts>>

RequestNext ==
    \/ \E c \in Callers :
          \/ StartRequest(c)
          \/ SlotTaken(c)
          \/ SlotRefused(c)
          \/ StayQueued(c)
          \/ Answered(c)
          \/ NetworkError(c)
          \/ RetryableStatus(c)
          \/ Retry(c)
    \/ Tick /\ UNCHANGED requestVars
    \/ EditSettings /\ UNCHANGED requestVars

RequestSpec == RequestInit /\ [][RequestNext]_<<vars, requestVars>>

\* The thread pool runs every thread that can run, time passes, and a post
\* ends: requests.post() and httpx are given a timeout of 30 s.
RequestFairness ==
    /\ WF_<<vars, requestVars>>(Tick /\ UNCHANGED requestVars)
    /\ \A c \in Callers :
          /\ WF_<<vars, requestVars>>(SlotTaken(c) \/ SlotRefused(c) \/ StayQueued(c))
          /\ WF_<<vars, requestVars>>(Answered(c) \/ NetworkError(c) \/ RetryableStatus(c))
          /\ WF_<<vars, requestVars>>(Retry(c))

FairRequestSpec == RequestSpec /\ RequestFairness

-----------------------------------------------------------------------------
\* Retries never escape the account's limit, nor multiply without one: a
\* call posts once per slot it took and RETRIES + 1 times at most, network
\* errors and retryable statuses counted together.
RetryBudget ==
    /\ \A c \in Callers :
          posts[c] <= (IF kind[c] = "nova" THEN RETRIES + 1 ELSE 1)
    /\ \A c \in Callers :
          phase[c] = "posting" => posts[c] = attempt[c] + 1

SlotsAreTakenOrEdited(c) ==
    EditSettings \/ \E d \in Callers \ {c} : SlotTaken(d)

\* From some time on nobody else takes a slot, and the settings stay.
NotOvertaken(c) ==
    <>[][~SlotsAreTakenOrEdited(c)]_<<vars, requestVars>>

\* Callers over the limit wait their turn instead of failing, and a backend
\* that keeps failing does not keep them: a call ends unless other callers
\* overtake it for ever, which the limiter does not exclude.
EveryRequestEnds ==
    \A c \in Callers :
        NotOvertaken(c) => (phase[c] # "idle" ~> phase[c] = "idle")
=============================================================================
