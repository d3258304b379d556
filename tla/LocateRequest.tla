--------------------------- MODULE LocateRequest ---------------------------
(***************************************************************************)
(* One locate on its worker thread: get_location_data_for_device(), and    *)
(* the fan-out of push messages to the callbacks registered meanwhile      *)
(* (Auth/fcm_receiver.py).  The backend answers a locate by push, not in   *)
(* the HTTP response: the answer may overtake the response, come twice,    *)
(* come late, or not at all, and every callback is shown every push.       *)
(***************************************************************************)
EXTENDS Integers, FiniteSets

CONSTANTS
    Requests,   \* the calls of get_location_data_for_device(): their uuids
    MaxPushes,  \* bound: how many pushes the backend sends for each of them
    NoPush

ASSUME RequestsAssumption ==
    /\ IsFiniteSet(Requests)
    /\ MaxPushes \in [Requests -> Nat]
    /\ NoPush \notin Requests

VARIABLES
    stage,      \* where each request's thread is
    result,     \* the request whose push its callback kept; its Event is set with it
    callbacks,  \* location_update_callbacks: the requests that have one in it
    pushes,     \* how many pushes for each request are on their way
    current,    \* the push the listener thread is handing out
    todo        \* the callbacks it has still to call

threadVars == <<stage, result, callbacks, pushes, current, todo>>

\* "idle": not called; "registering": in _ensure_listening(), which may have
\* to register with FCM and may not return; "registered": its callback is in
\* the list; "posted": the backend has the request, and the thread is in
\* nova_request() or in received.wait(); "leaving": in the finally clause;
\* "tokenless": over too, by the token lookup, which is outside the try.
RequestStages ==
    {"idle", "registering", "registered", "posted", "leaving", "over", "tokenless"}

Over(r) == stage[r] \in {"over", "tokenless"}

ThreadTypeOK ==
    /\ stage \in [Requests -> RequestStages]
    /\ result \in [Requests -> Requests \union {NoPush}]
    /\ callbacks \subseteq Requests
    /\ pushes \in [Requests -> Nat]
    /\ current \in Requests \union {NoPush}
    /\ todo \subseteq Requests

ThreadInit ==
    /\ stage = [r \in Requests |-> "idle"]
    /\ result = [r \in Requests |-> NoPush]
    /\ callbacks = {}
    /\ pushes = [r \in Requests |-> 0]
    /\ current = NoPush
    /\ todo = {}

-----------------------------------------------------------------------------
(* The worker thread.                                                      *)

\* The call reaches register_for_location_updates() and _ensure_listening().
Call(r) ==
    /\ stage[r] = "idle"
    /\ stage' = [stage EXCEPT ![r] = "registering"]
    /\ UNCHANGED <<result, callbacks, pushes, current, todo>>

\* The listener runs, and the callback is added.
Register(r) ==
    /\ stage[r] = "registering"
    /\ callbacks' = callbacks \union {r}
    /\ stage' = [stage EXCEPT ![r] = "registered"]
    /\ UNCHANGED <<result, pushes, current, todo>>

\* _ensure_listening() raises: there is nothing to unregister.
RegisterFails(r) ==
    /\ stage[r] = "registering"
    /\ stage' = [stage EXCEPT ![r] = "over"]
    /\ UNCHANGED <<result, callbacks, pushes, current, todo>>

\* The credentials have no token, and its lookup raises: the callback is in
\* the list, and the finally clause that would remove it is not entered yet.
TokenFails(r) ==
    /\ stage[r] = "registered"
    /\ stage' = [stage EXCEPT ![r] = "tokenless"]
    /\ UNCHANGED <<result, callbacks, pushes, current, todo>>

\* nova_request() reaches the backend, which sends its pushes from now on;
\* the push service may lose them all.
Post(r) ==
    /\ stage[r] = "registered"
    /\ stage' = [stage EXCEPT ![r] = "posted"]
    /\ \E n \in 0 .. MaxPushes[r] : pushes' = [pushes EXCEPT ![r] = n]
    /\ UNCHANGED <<result, callbacks, current, todo>>

\* nova_request() raises, whether or not the backend has the request.
PostFails(r) ==
    /\ stage[r] \in {"registered", "posted"}
    /\ stage' = [stage EXCEPT ![r] = "leaving"]
    /\ UNCHANGED <<result, callbacks, pushes, current, todo>>

\* received.wait() returns True: the kept response is decrypted, which may
\* raise.
Decrypt(r) ==
    /\ stage[r] = "posted"
    /\ result[r] # NoPush
    /\ stage' = [stage EXCEPT ![r] = "leaving"]
    /\ UNCHANGED <<result, callbacks, pushes, current, todo>>

\* A mistaken NoAnswerYet: the wait has no timeout.
WaitsForEver(r) == FALSE

NoAnswerYet(r) == result[r] = NoPush

\* received.wait(timeout) returns False.
TimeOut(r) ==
    /\ stage[r] = "posted"
    /\ NoAnswerYet(r)
    /\ stage' = [stage EXCEPT ![r] = "leaving"]
    /\ UNCHANGED <<result, callbacks, pushes, current, todo>>

\* unregister_callback()
Unregistered(r) == callbacks \ {r}

\* The finally clause; the call's local variables go with it.
Leave(r) ==
    /\ stage[r] = "leaving"
    /\ stage' = [stage EXCEPT ![r] = "over"]
    /\ callbacks' = Unregistered(r)
    /\ result' = [result EXCEPT ![r] = NoPush]
    /\ UNCHANGED <<pushes, current, todo>>

-----------------------------------------------------------------------------
(* The listener thread, _on_notification(), and the push service.          *)

\* A mistaken Snapshot: one callback only.
OneCallback == IF callbacks = {} THEN {} ELSE {CHOOSE r \in callbacks : TRUE}

\* list(self.location_update_callbacks)
Snapshot == callbacks

\* A push arrives: the callbacks of this moment are copied under the lock.
Deliver(r) ==
    /\ current = NoPush
    /\ pushes[r] > 0
    /\ pushes' = [pushes EXCEPT ![r] = @ - 1]
    /\ todo' = Snapshot
    /\ current' = IF Snapshot = {} THEN NoPush ELSE r
    /\ UNCHANGED <<stage, result, callbacks>>

\* device_update.fcmMetadata.requestUuid == request_uuid
IsMine(r) == current = r

\* A callback of the copy runs, on the listener thread; its request may have
\* left meanwhile, and then nobody reads what the callback keeps.
CallBack ==
    /\ current # NoPush
    /\ \E r \in todo :
          /\ result' = IF IsMine(r) /\ ~Over(r)
                       THEN [result EXCEPT ![r] = current] ELSE result
          /\ todo' = todo \ {r}
    /\ current' = IF todo' = {} THEN NoPush ELSE current
    /\ UNCHANGED <<stage, callbacks, pushes>>

ThreadStep(r) ==
    \/ Register(r) \/ RegisterFails(r) \/ TokenFails(r)
    \/ Post(r) \/ PostFails(r)
    \/ Decrypt(r) \/ TimeOut(r) \/ Leave(r)

\* The steps a thread takes if nothing raises, once it is registered.
ThreadProgress(r) == Post(r) \/ Decrypt(r) \/ TimeOut(r) \/ Leave(r)

ListenerStep == CallBack \/ \E r \in Requests : Deliver(r)

ThreadNext ==
    \/ \E r \in Requests : Call(r) \/ ThreadStep(r)
    \/ ListenerStep

ThreadSpec == ThreadInit /\ [][ThreadNext]_threadVars

-----------------------------------------------------------------------------
\* A request's own push, once it is being handed out, reaches it: as long as
\* the request has no answer its callback is among those to call.  (The push
\* may overtake the HTTP response of its request.)
NoLostPush ==
    \A r \in Requests :
        current = r /\ stage[r] = "posted" /\ result[r] = NoPush
            => r \in todo

\* A request's callback is registered from before its post until it leaves:
\* none is missing while the backend may answer.  Every way out removes it
\* but one: a request whose token lookup raised leaves it behind for good.
CallbacksAreRequests ==
    \A r \in Requests :
        r \in callbacks
            <=> stage[r] \in {"registered", "posted", "leaving", "tokenless"}
=============================================================================
