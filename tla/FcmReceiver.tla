---------------------------- MODULE FcmReceiver ----------------------------
(***************************************************************************)
(* The push receiver (Auth/fcm_receiver.py): threads that need the         *)
(* listener call _ensure_listening(), which starts it, on a loop and a     *)
(* thread of its own, if it never ran or is dead.                          *)
(***************************************************************************)
EXTENDS FcmPushClient

CONSTANTS
    Callers,    \* threads that call _ensure_listening()
    Nobody

ASSUME FcmReceiverAssumption == Nobody \notin Callers

VARIABLES
    listening,  \* _listening
    pending,    \* pc.start() is scheduled on the loop, and has not run
    holder,     \* who holds _start_lock
    caller      \* where each thread is

receiverVars == <<listening, pending, holder, caller>>
vars == <<pc, receiverVars>>

FcmTypeOK ==
    /\ ClientTypeOK
    /\ listening \in BOOLEAN
    /\ pending \in BOOLEAN
    /\ holder \in Callers \union {Nobody}
    /\ caller \in [Callers -> {"away", "asking", "queued", "teardown", "registering"}]

Init ==
    /\ ClientInit
    /\ listening = FALSE
    /\ pending = FALSE
    /\ holder = Nobody
    /\ caller = [c \in Callers |-> "away"]

\* A mistaken Healthy: that the listener once started is enough.
HealthyOnce == listening

Healthy == listening /\ ~Dead

\* A locate registers, a sound is to be played, a token is wanted.
Ask(c) ==
    /\ caller[c] = "away"
    /\ caller' = [caller EXCEPT ![c] = "asking"]
    /\ UNCHANGED <<pc, listening, pending, holder>>

\* The check without the lock.
Look(c) ==
    /\ caller[c] = "asking"
    /\ caller' = [caller EXCEPT ![c] = IF Healthy THEN "away" ELSE "queued"]
    /\ UNCHANGED <<pc, listening, pending, holder>>

\* A mistaken LockIsFree: there is no lock.
NoLock == TRUE

LockIsFree == holder = Nobody

\* The check with it.
Enter(c) ==
    /\ caller[c] = "queued"
    /\ LockIsFree
    /\ IF Healthy
       THEN caller' = [caller EXCEPT ![c] = "away"] /\ UNCHANGED holder
       ELSE caller' = [caller EXCEPT ![c] = "teardown"] /\ holder' = c
    /\ UNCHANGED <<pc, listening, pending>>

\* The loop of before is stopped, with its tasks where they are and a start that
\* has not run, and a new loop and thread begin.
Teardown(c) ==
    /\ caller[c] = "teardown"
    /\ pc' = Quiet(pc)
    /\ pending' = FALSE
    /\ caller' = [caller EXCEPT ![c] = "registering"]
    /\ UNCHANGED <<listening, holder>>

\* checkin_or_register() raises: stop(), sleep, and again.
RegisterFails(c) ==
    /\ caller[c] = "registering"
    /\ pc' = Stopped(pc)
    /\ UNCHANGED receiverVars

Registered(c) ==
    /\ caller[c] = "registering"
    /\ pending' = TRUE
    /\ listening' = TRUE
    /\ holder' = Nobody
    /\ caller' = [caller EXCEPT ![c] = "away"]
    /\ UNCHANGED pc

\* The loop runs the start.
StartRuns ==
    /\ pending
    /\ pending' = FALSE
    /\ pc' = Started(pc)
    /\ UNCHANGED <<listening, holder, caller>>

CallerStep(c) ==
    Look(c) \/ Enter(c) \/ Teardown(c) \/ Registered(c)

Next ==
    \/ \E c \in Callers : Ask(c) \/ CallerStep(c) \/ RegisterFails(c)
    \/ StartRuns
    \/ ClientStep /\ UNCHANGED receiverVars

Spec == Init /\ [][Next]_vars

-----------------------------------------------------------------------------
(* What is expected of it.                                                 *)

\* The client is only started when no task of an earlier start is left: two
\* listeners would read one connection ("readexactly() called while another
\* coroutine is already waiting", in the docstring of _ensure_listening()).
StartsOnQuietClient ==
    [][StartRuns => \A t \in Tasks : pc.at[t] = "ended"]_vars
=============================================================================
