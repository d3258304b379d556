------------------------------- MODULE SignIn -------------------------------
(***************************************************************************)
(* Signing in to Google: the provisioning runs of webui/browser_           *)
(* provisioning.py, the worker threads that get the account token and the  *)
(* shared key through a browser (Auth/aas_token_retrieval.py,              *)
(* KeyBackup/shared_key_flow.py), background polls that need both, and     *)
(* the button that clears the credentials (webui/routers/auth.py).         *)
(*                                                                         *)
(* A run works on one thread at a time, which goes on after wait_for() has *)
(* given it up: threads cannot be cancelled.                               *)
(***************************************************************************)
EXTENDS TokenCache, Naturals

CONSTANTS
    Runs,       \* sign-in attempts, numbered in their order
    Polls,      \* polls of the scheduler
    Nobody

ASSUME SignInAssumption ==
    /\ Threads = Runs \union Polls
    /\ Runs \subseteq Nat
    /\ Runs \intersect Polls = {}
    /\ Nobody \notin Threads

VARIABLES
    phase,      \* _state["phase"]
    flow,       \* where each run's _run_flow() is
    final,      \* the phase its teardown will end with
    at,         \* where each thread is; a name stands for the storing of its value
    then,       \* where it goes from FcmReceiver().get_android_id()
    chrome,     \* the threads whose browser is alive
    flowLock,   \* who holds _flow_lock
    receiver,   \* FcmReceiver._instance: none, or without or with credentials
    starter,    \* who holds its _start_lock
    dropped,    \* threads inside an instance that a clear has dropped
    acts        \* what has begun: each run, each poll and one clear

flowVars == <<phase, flow, final>>
browserVars == <<chrome, flowLock>>
receiverVars == <<receiver, starter, dropped>>
vars == <<cacheVars, flowVars, at, then, browserVars, receiverVars, acts>>

\* Installing, downloading, extracting and launching count as starting.
ActivePhases == {"starting", "ready", "logging_in"}

\* A run that is not done ends with "timeout" or "error", which read differently.
Finals == {"done", "failed"}

Over == {"none", "returned", "failed"}

Places == Over \union Names \union
    {"receiver", "start_lock", "registering", "token", "flow_lock", "account",
     "key", "vault_driver", "vault"}

\* Locks and browsers are with threads that are inside the code that frees them.
LocksAreHeldInside ==
    /\ flowLock # Nobody => at[flowLock] = "account"
    /\ starter # Nobody => at[starter] \in {"registering", "fcm_credentials"}
    /\ \A t \in chrome : at[t] \in {"account", "vault"}

SignInTypeOK ==
    /\ CacheTypeOK
    /\ phase \in {"idle"} \union ActivePhases \union Finals
    /\ flow \in [Runs -> {"none", "provisioning", "token", "key", "teardown", "stopped"}]
    /\ final \in [Runs -> Finals]
    /\ at \in [Threads -> Places]
    /\ then \in [Threads -> {"token", "flow_lock", "key"}]
    /\ chrome \in SUBSET Threads
    /\ flowLock \in Threads \union {Nobody}
    /\ receiver \in {"none", "bare", "ready"}
    /\ starter \in Threads \union {Nobody}
    /\ dropped \in SUBSET Threads
    /\ acts \in SUBSET Writers
    /\ LocksAreHeldInside

Init ==
    /\ CacheInit
    /\ phase = "idle"
    /\ flow = [r \in Runs |-> "none"]
    /\ final = [r \in Runs |-> "failed"]
    /\ at = [t \in Threads |-> "none"]
    /\ then = [t \in Threads |-> "token"]
    /\ chrome = {}
    /\ flowLock = Nobody
    /\ receiver = "none"
    /\ starter = Nobody
    /\ dropped = {}
    /\ acts = {}

Goes(t, place) == at' = [at EXCEPT ![t] = place]

Waiting(r) == flow[r] \in {"token", "key"}

\* What is left of a thread that is over: its outcome, if a run waits for it.
Outcome(t, outcome) == IF t \in Runs /\ Waiting(t) THEN outcome ELSE "none"

LoggedIn == {"aas_token", "fcm_credentials"} \subseteq Readable

\* A mistaken IsActive: the second confirmation is forgotten.
ActiveUntilSignedIn == phase \in ActivePhases \ {"logging_in"}

IsActive == phase \in ActivePhases

-----------------------------------------------------------------------------
(* The receiver, which registers for pushes when it has no credentials.    *)

Proceeds(t) ==
    /\ Goes(t, then[t])
    /\ then' = [then EXCEPT ![t] = "token"]

\* FcmReceiver(), made from the file if there is none, and the credentials it
\* has in memory.  The first call of a locate starts the listener, which may
\* have to register again.
CallReceiver(t) ==
    /\ at[t] = "receiver"
    /\ receiver' = IF receiver # "none" THEN receiver
                   ELSE IF "fcm_credentials" \in Readable THEN "ready" ELSE "bare"
    /\ \/ receiver' = "ready" /\ Proceeds(t)
       \/ (receiver' = "bare" \/ then[t] = "token") /\ Goes(t, "start_lock") /\ UNCHANGED then
    /\ IF receiver = "none" THEN Reads(t) ELSE UNCHANGED cacheVars
    /\ UNCHANGED <<flowVars, browserVars, starter, dropped>>

\* An instance that was dropped has a lock of its own.
StartLockIsFree(t) ==
    IF t \in dropped THEN \A u \in dropped : at[u] = "start_lock"
    ELSE starter = Nobody

LeaveReceiver(t) ==
    /\ Proceeds(t)
    /\ starter' = IF starter = t THEN Nobody ELSE starter
    /\ dropped' = dropped \ {t}
    /\ UNCHANGED receiver

\* _start_lock is taken to start the listener, or to find that it was started.
EnterStart(t) ==
    /\ at[t] = "start_lock"
    /\ StartLockIsFree(t)
    /\ \/ /\ Goes(t, "registering")
          /\ starter' = IF t \in dropped THEN starter ELSE t
          /\ UNCHANGED <<then, receiver, dropped>>
       \/ /\ receiver = "ready" \/ t \in dropped
          /\ LeaveReceiver(t)
    /\ UNCHANGED <<cacheVars, flowVars, browserVars>>

\* checkin_or_register() accepts the credentials there are ...
ChecksIn(t) ==
    /\ at[t] = "registering"
    /\ receiver = "ready" \/ t \in dropped
    /\ LeaveReceiver(t)
    /\ UNCHANGED <<cacheVars, flowVars, browserVars>>

\* ... or brings new ones: _on_credentials_updated() keeps them, and stores them.
Registers(t) ==
    /\ at[t] = "registering"
    /\ receiver' = IF t \in dropped THEN receiver ELSE "ready"
    /\ Goes(t, "fcm_credentials")
    /\ UNCHANGED <<cacheVars, flowVars, then, browserVars, starter, dropped>>

-----------------------------------------------------------------------------
(* get_aas_token() and get_shared_key(): the cached value, or a browser.   *)

\* A mistaken Ends: a flow that raises keeps the lock.
EndsHolding(t, outcome) ==
    /\ Goes(t, Outcome(t, outcome))
    /\ chrome' = chrome \ {t}
    /\ UNCHANGED flowLock

\* A thread comes to its end: what it holds is released, its browser quit.
Ends(t, outcome) ==
    /\ Goes(t, Outcome(t, outcome))
    /\ chrome' = chrome \ {t}
    /\ flowLock' = IF flowLock = t THEN Nobody ELSE flowLock

Token(t) ==
    /\ at[t] = "token"
    /\ Reads(t)
    /\ IF "aas_token" \notin Readable
       THEN Goes(t, "receiver") /\ then' = [then EXCEPT ![t] = "flow_lock"]
       ELSE IF t \in Polls
       THEN Goes(t, "receiver") /\ then' = [then EXCEPT ![t] = "key"]
       ELSE Goes(t, Outcome(t, "returned")) /\ UNCHANGED then
    /\ UNCHANGED <<flowVars, browserVars, receiverVars>>

\* A mistaken FlowLockIsFree: nothing serializes the flows.
NoFlowLock == TRUE

FlowLockIsFree == flowLock = Nobody

\* create_driver() kills every Chrome there is before it starts one.
OpensAccount(t) ==
    /\ at[t] = "flow_lock"
    /\ FlowLockIsFree
    /\ flowLock' = t
    /\ chrome' = {t}
    /\ Goes(t, "account")
    /\ UNCHANGED <<cacheVars, flowVars, then, receiverVars>>

\* ... and gpsoauth.exchange_token() has a token.
SignsIn(t) ==
    /\ at[t] = "account"
    /\ t \in chrome
    /\ chrome' = chrome \ {t}
    /\ flowLock' = IF flowLock = t THEN Nobody ELSE flowLock
    /\ Goes(t, "aas_token")
    /\ UNCHANGED <<cacheVars, flowVars, then, receiverVars>>

\* get_shared_key(), which a locate only needs for an owner key it has not cached.
Key(t) ==
    /\ at[t] = "key"
    /\ Reads(t)
    /\ \/ t \in Polls /\ Goes(t, "none")
       \/ "shared_key" \notin Readable /\ Goes(t, "vault_driver")
       \/ /\ "shared_key" \in Readable
          /\ Goes(t, IF t \in Polls THEN "owner_key" ELSE Outcome(t, "returned"))
    /\ UNCHANGED <<flowVars, then, browserVars, receiverVars>>

\* request_shared_key_flow() takes no lock.
OpensVault(t) ==
    /\ at[t] = "vault_driver"
    /\ chrome' = {t}
    /\ Goes(t, "vault")
    /\ UNCHANGED <<cacheVars, flowVars, then, flowLock, receiverVars>>

\* The second sign-in, and the confirmation.
Confirms(t) ==
    /\ at[t] = "vault"
    /\ t \in chrome
    /\ chrome' = chrome \ {t}
    /\ Goes(t, "shared_key")
    /\ UNCHANGED <<cacheVars, flowVars, then, flowLock, receiverVars>>

\* The user takes too long, Chrome is killed or closed, the exchange rejected, the
\* page closed; and for a poll, a request fails.
Fails(t) ==
    /\ at[t] \in {"account", "vault"}
          \union (IF t \in Polls THEN {"token", "key"} ELSE {})
    /\ Ends(t, "failed")
    /\ UNCHANGED <<cacheVars, flowVars, then, receiverVars>>

\* create_driver() raises, having killed the others.
DriverFails(t) ==
    /\ at[t] = "vault_driver" \/ (at[t] = "flow_lock" /\ FlowLockIsFree)
    /\ Goes(t, Outcome(t, "failed"))
    /\ chrome' = {}
    /\ UNCHANGED <<cacheVars, flowVars, then, flowLock, receiverVars>>

-----------------------------------------------------------------------------
(* set_cached_value() of the name the thread is at, in three steps.        *)

StoreLoads(t) ==
    /\ at[t] \in Names
    /\ Loads(t, at[t])
    /\ UNCHANGED <<flowVars, at, then, browserVars, receiverVars>>

\* A file that does not parse: _register_for_fcm() tries again with the
\* credentials it got, all others give up.
StoreRaises(t) ==
    /\ at[t] \in Names
    /\ store[t].at = "no"
    /\ torn
    /\ Reads(t)
    /\ IF at[t] = "fcm_credentials"
       THEN Goes(t, "registering") /\ UNCHANGED browserVars
       ELSE Ends(t, "failed")
    /\ UNCHANGED <<flowVars, then, receiverVars>>

StoreOpens(t) ==
    /\ Opens(t)
    /\ UNCHANGED <<flowVars, at, then, browserVars, receiverVars>>

\* Where a thread goes when the value is stored.
AfterStore(t) ==
    CASE at[t] = "aas_token" -> IF t \in Polls THEN "receiver" ELSE Outcome(t, "returned")
      [] at[t] = "shared_key" -> IF t \in Polls THEN "owner_key" ELSE Outcome(t, "returned")
      [] at[t] = "owner_key" -> "none"

StoreWrites(t) ==
    /\ Writes(t)
    /\ IF at[t] = "fcm_credentials"
       THEN LeaveReceiver(t)
       ELSE /\ Goes(t, AfterStore(t))
            /\ then' = [then EXCEPT ![t] = IF AfterStore(t) = "receiver" THEN "key" ELSE @]
            /\ UNCHANGED receiverVars
    /\ UNCHANGED <<flowVars, browserVars>>

-----------------------------------------------------------------------------
(* The event loop: runs, polls that begin, and the clear.                  *)

LoopIsFree == store[Loop].at = "no"

Advances(r, place) == flow' = [flow EXCEPT ![r] = place]

\* _teardown() begins.
TearsDown(r, outcome) ==
    /\ Advances(r, "teardown")
    /\ final' = [final EXCEPT ![r] = outcome]
    /\ at' = [at EXCEPT ![r] = IF @ \in Over THEN "none" ELSE @]
    /\ UNCHANGED phase

Start(r) ==
    /\ LoopIsFree
    /\ ~IsActive
    /\ flow[r] = "none"
    /\ at[r] = "none"
    /\ phase' = "starting"
    /\ Advances(r, "provisioning")
    /\ UNCHANGED <<cacheVars, final, at, then, browserVars, receiverVars>>

\* The X stack runs: get_aas_token() starts on a thread.
Provisioned(r) ==
    /\ flow[r] = "provisioning"
    /\ phase' = "ready"
    /\ Advances(r, "token")
    /\ Goes(r, "token")
    /\ UNCHANGED <<cacheVars, final, then, browserVars, receiverVars>>

ProvisionFails(r) ==
    /\ flow[r] = "provisioning"
    /\ TearsDown(r, "failed")
    /\ UNCHANGED <<cacheVars, then, browserVars, receiverVars>>

\* get_aas_token() is over, and get_shared_key() starts if that was a sign-in.
TokenOver(r) ==
    /\ flow[r] = "token"
    /\ at[r] = "returned"
    /\ IF LoggedIn
       THEN /\ phase' = "logging_in"
            /\ Advances(r, "key")
            /\ Goes(r, "key")
            /\ UNCHANGED final
       ELSE TearsDown(r, "failed")
    /\ Reads(Loop)
    /\ UNCHANGED <<then, browserVars, receiverVars>>

KeyOver(r) ==
    /\ flow[r] = "key"
    /\ at[r] = "returned"
    /\ TearsDown(r, IF "shared_key" \in Readable THEN "done" ELSE "failed")
    /\ Reads(Loop)
    /\ UNCHANGED <<then, browserVars, receiverVars>>

ThreadRaised(r) ==
    /\ Waiting(r)
    /\ at[r] = "failed"
    /\ TearsDown(r, "failed")
    /\ UNCHANGED <<cacheVars, then, browserVars, receiverVars>>

\* A mistaken WaitForEnds: the wait only ends when the thread does.
WaitForThread(r) == FALSE

\* wait_for() gives up; the thread goes on.
WaitForEnds(r) ==
    /\ Waiting(r)
    /\ TearsDown(r, "failed")
    /\ UNCHANGED <<cacheVars, then, browserVars, receiverVars>>

\* browser_stack.teardown(): Chrome may not be known, or not die.
StackStops(r) ==
    /\ flow[r] = "teardown"
    /\ chrome' \in {{}, chrome}
    /\ Advances(r, "stopped")
    /\ UNCHANGED <<cacheVars, phase, final, at, then, flowLock, receiverVars>>

RunEnds(r) ==
    /\ flow[r] = "stopped"
    /\ phase' = final[r]
    /\ Advances(r, "none")
    /\ final' = [final EXCEPT ![r] = "failed"]
    /\ UNCHANGED <<cacheVars, at, then, browserVars, receiverVars>>

\* A poll only locates when somebody is signed in.
Poll(p) ==
    /\ LoopIsFree
    /\ at[p] = "none"
    /\ LoggedIn
    /\ tangled' = (tangled \/ Others(p))
    /\ Goes(p, "receiver")
    /\ then' = [then EXCEPT ![p] = "token"]
    /\ UNCHANGED <<file, torn, store, flowVars, browserVars, receiverVars>>

\* The button: refused while a sign-in is active.
Clear ==
    /\ ~IsActive
    /\ Wipes
    /\ UNCHANGED <<flowVars, at, then, browserVars, receiverVars>>

\* A mistaken DropReceiver: the file is cleared and the instance stays.
KeepReceiver == UNCHANGED receiverVars

\* FcmReceiver().clear(): the next call makes an instance from the file.
DropReceiver ==
    /\ receiver' = "none"
    /\ starter' = Nobody
    /\ dropped' = dropped \union
          {t \in Threads : at[t] \in {"start_lock", "registering", "fcm_credentials"}}

Cleared ==
    /\ Writes(Loop)
    /\ DropReceiver
    /\ UNCHANGED <<flowVars, at, then, browserVars>>

RunStep(r) ==
    \/ Provisioned(r) \/ ProvisionFails(r) \/ TokenOver(r) \/ KeyOver(r)
    \/ ThreadRaised(r) \/ WaitForEnds(r) \/ StackStops(r) \/ RunEnds(r)

ThreadStep(t) ==
    \/ CallReceiver(t) \/ EnterStart(t) \/ ChecksIn(t) \/ Registers(t)
    \/ Token(t) \/ OpensAccount(t) \/ SignsIn(t)
    \/ Key(t) \/ OpensVault(t) \/ Confirms(t)
    \/ Fails(t) \/ DriverFails(t)
    \/ StoreLoads(t) \/ StoreRaises(t) \/ StoreOpens(t) \/ StoreWrites(t)

\* Each happens once at most, to bound the model.
Once(w) == w \notin acts /\ acts' = acts \union {w}

Act ==
    \/ \E r \in Runs : Start(r) /\ Once(r) /\ \A s \in Runs : s < r => s \in acts
    \/ \E p \in Polls : Poll(p) /\ Once(p)
    \/ Clear /\ Once(Loop)

Next ==
    \/ Act
    \/ /\ (\E r \in Runs : RunStep(r)) \/ (\E t \in Threads : ThreadStep(t)) \/ Cleared
       /\ UNCHANGED acts

Spec == Init /\ [][Next]_vars

\* The loop runs what is ready, installing and stopping the stack have time
\* limits of their own, and so has wait_for().  A worker thread may hang.
FairSpec ==
    /\ Spec
    /\ WF_vars(Cleared /\ UNCHANGED acts)
    /\ \A r \in Runs :
          /\ WF_vars((Provisioned(r) \/ ProvisionFails(r)) /\ UNCHANGED acts)
          /\ WF_vars(WaitForEnds(r) /\ UNCHANGED acts)
          /\ WF_vars(StackStops(r) /\ UNCHANGED acts)
          /\ WF_vars(RunEnds(r) /\ UNCHANGED acts)

-----------------------------------------------------------------------------
(* What is expected of it.                                                 *)

\* _flow_lock: getting a token never kills the browser in which another thread is
\* getting one ("two overlapping calls would kill each other's browser", in
\* Auth/auth_flow.py).
AccountBrowsersAlone ==
    [][\A t, u \in Threads : t # u /\ OpensAccount(t) => ~(at[u] = "account" /\ u \in chrome)]_vars

\* One run at a time, its teardown included: a second would lose its browser to
\* the teardown of the first, and both report through one state.
OneRunAtATime ==
    \A r, s \in Runs : flow[r] # "none" /\ flow[s] # "none" => r = s

\* A run never stores a token without the push credentials beside it or on their
\* way there, whatever was cleared before, as long as no two threads were ever in
\* the store at once: the "split-brain state" of auth_clear() in
\* webui/routers/auth.py.
TokenComesWithCredentials ==
    [][\A r \in Runs :
          ~tangled /\ flow[r] = "token" /\ at[r] = "aas_token" /\ StoreWrites(r)
             => "fcm_credentials" \in file' \/ \E t \in Threads : at[t] = "fcm_credentials"]_vars

\* When a run announces that it is done, all that locating needs is on file, but
\* for the instant in which another thread's store has the file truncated: no clear
\* came between, and no store lost a value if no two were ever at it at once.
DoneIsComplete ==
    [][phase' = "done" /\ phase # "done" /\ ~tangled /\ (\A w \in Writers : ~HasOpen(w))
          => {"aas_token", "fcm_credentials", "shared_key"} \subseteq file']_vars

\* A sign-in ends, though its thread may hang in the registration, for the lock or
\* in a browser: nothing can be cleared or signed in to before.
SignInEnds == IsActive ~> ~IsActive
=============================================================================
