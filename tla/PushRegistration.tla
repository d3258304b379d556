-------------------------- MODULE PushRegistration --------------------------
(***************************************************************************)
(* How the push receiver gets its credentials: the conversation with       *)
(* Google's servers in Auth/firebase_messaging/fcmregister.py, held by the *)
(* thread that starts the listener, under _start_lock.  FcmReceiver only   *)
(* knows that a registration fails or succeeds; this module says when, and *)
(* implements it.                                                          *)
(***************************************************************************)
EXTENDS FcmReceiver

CONSTANT Tries      \* how often a request is tried: retries, 100 in the code

ASSUME TriesAssumption == Tries \in Nat \ {0}

VARIABLES
    creds,      \* the credentials in memory and on file: none, half (no token) or full
    talk        \* the request that is being made, and how often it was tried;
                \* "lookup": they are all made, and register.close() is awaited

\* The receiver, its client and the file are given the same credentials in one step.
registrationVars == <<creds, talk>>
pushVars == <<vars, registrationVars>>

Requests == {"checkIn", "newCheckIn", "gcm", "install", "fcm"}
Idle == [at |-> "idle", tries |-> 0]
Asking(request) == [at |-> request, tries |-> 0]

\* fcm_register() is tried twice, fcm_install() once.
TriesOf(request) ==
    IF request = "install" THEN 1 ELSE IF request = "fcm" THEN 2 ELSE Tries

RegistrationTypeOK ==
    /\ creds \in {"none", "half", "full"}
    /\ talk \in [at : Requests \union {"idle", "lookup"}, tries : 0..Tries]

\* What an earlier run of the program left on file.
PushInit == Init /\ creds \in {"none", "half", "full"} /\ talk = Idle

IsTalking(c, request) == caller[c] = "registering" /\ talk.at = request

\* checkin_or_register() checks in with the credentials that there are, or registers.
Begin(c) ==
    /\ IsTalking(c, "idle")
    /\ talk' = Asking(IF creds # "none" THEN "checkIn" ELSE "newCheckIn")
    /\ UNCHANGED <<vars, creds>>

\* A mistaken GivesUp: the error leaves _register_for_fcm(), and with it the lock.
GivesUpAndReleases(c) ==
    /\ caller[c] = "registering"
    /\ pc' = Stopped(pc)
    /\ holder' = Nobody
    /\ caller' = [caller EXCEPT ![c] = "away"]
    /\ talk' = Idle
    /\ UNCHANGED <<listening, pending, creds>>

\* An exception in _register_for_fcm(): it stops the client, sleeps and begins again.
GivesUp(c) == RegisterFails(c) /\ talk' = Idle /\ UNCHANGED creds

\* A mistaken HasToken: the token is not looked at.
HasAnyToken == TRUE

HasToken == creds = "full"

\* The token is read (fcmpushclient.py) where there may be none, which raises.  Other
\* threads ran since the credentials were kept.
LooksUp(c) ==
    /\ IsTalking(c, "lookup")
    /\ IF HasToken THEN Registered(c) /\ talk' = Idle /\ UNCHANGED creds
       ELSE GivesUp(c)

(***************************************************************************)
(* Requests that succeed.                                                  *)
(***************************************************************************)
\* The credentials are taken to be good as they are.  What the check-in says is dropped,
\* also if it is that of a new device: a try that follows a refusal leaves the ids out.
ChecksIn(c) ==
    /\ IsTalking(c, "checkIn")
    /\ talk' = Asking("lookup")
    /\ UNCHANGED <<vars, creds>>

Proceeds(c, request, next) ==
    /\ IsTalking(c, request)
    /\ talk' = Asking(next)
    /\ UNCHANGED <<vars, creds>>

\* New credentials, with a token or without, are kept in memory and on file.
Publishes(c, new) ==
    /\ IsTalking(c, "fcm")
    /\ creds' = new
    /\ talk' = Asking("lookup")
    /\ UNCHANGED vars

Succeeds(c, request) ==
    \/ request = "checkIn" /\ ChecksIn(c)
    \/ request = "newCheckIn" /\ Proceeds(c, "newCheckIn", "gcm")
    \/ request = "gcm" /\ Proceeds(c, "gcm", "install")
    \/ request = "install" /\ Proceeds(c, "install", "fcm")
    \/ request = "fcm" /\ Publishes(c, "full")

(***************************************************************************)
(* Requests that fail.                                                     *)
(***************************************************************************)
IsLastTry(request) == talk.tries + 1 = TriesOf(request)

TryAgain(c, request) ==
    /\ IsTalking(c, request) /\ ~IsLastTry(request)
    /\ talk' = [talk EXCEPT !.tries = @ + 1]
    /\ UNCHANGED <<vars, creds>>

\* Credentials that cannot be checked in are replaced by new ones.
CheckInFails(c) ==
    /\ IsTalking(c, "checkIn") /\ IsLastTry("checkIn")
    /\ talk' = Asking("newCheckIn")
    /\ UNCHANGED <<vars, creds>>

\* An empty answer ends a check-in at once.
CheckInEmpty(c) ==
    /\ IsTalking(c, "checkIn")
    /\ talk' = Asking("newCheckIn")
    /\ UNCHANGED <<vars, creds>>

\* An answer that cannot be read, or that has nothing to register with, raises.
CheckInUnusable(c) ==
    /\ IsTalking(c, "checkIn") \/ IsTalking(c, "newCheckIn")
    /\ GivesUp(c)

RequestFails(c) ==
    /\ \E request \in {"newCheckIn", "gcm", "install"} :
         IsTalking(c, request) /\ IsLastTry(request)
    /\ GivesUp(c)

\* fcm_register() has no registration, and fcm_install_and_register() returns that as
\* one.
FcmRegisterFails(c) == IsLastTry("fcm") /\ Publishes(c, "half")

Fails(c) ==
    \/ \E request \in Requests : TryAgain(c, request)
    \/ CheckInFails(c) \/ CheckInEmpty(c) \/ CheckInUnusable(c)
    \/ RequestFails(c) \/ FcmRegisterFails(c)

(***************************************************************************)
(* Together with the receiver.                                             *)
(***************************************************************************)
\* The steps of the receiver but the outcomes of a registration.
ReceiverStep ==
    /\ \/ \E c \in Callers : Ask(c) \/ Look(c) \/ Enter(c) \/ Teardown(c)
       \/ StartRuns
       \/ ClientStep /\ UNCHANGED receiverVars
    /\ UNCHANGED registrationVars

\* What a thread does next in its conversation.
Converse(c) ==
    \/ Begin(c) \/ LooksUp(c) \/ Fails(c)
    \/ \E request \in Requests : Succeeds(c, request)

PushNext == ReceiverStep \/ \E c \in Callers : Converse(c)

PushSpec == PushInit /\ [][PushNext]_pushVars

Alone(action) == action /\ UNCHANGED registrationVars

\* Threads and the loop run, each request ends, one way or the other, and the lock goes
\* to whoever waits.  A start may be lost to a teardown that comes first, but not for
\* ever: it is due at once, and a teardown takes a thread through the lock.  The
\* monitor's sleeps end, and so does its sending of a login, which is small enough not
\* to wait for the server.
PushFairSpec ==
    /\ PushSpec
    /\ \A c \in Callers :
          /\ WF_pushVars(Alone(Look(c))) /\ SF_pushVars(Alone(Enter(c)))
          /\ WF_pushVars(Alone(Teardown(c))) /\ WF_pushVars(Converse(c))
    /\ SF_pushVars(Alone(StartRuns))
    /\ WF_pushVars(Alone(Ping /\ UNCHANGED receiverVars))
    /\ WF_pushVars(Alone(Pong /\ UNCHANGED receiverVars))
    /\ WF_pushVars(Alone((LoginSent("monitor") \/ LoginFails("monitor")) /\ UNCHANGED receiverVars))

\* The servers answer again: a request that is made again and again succeeds.
AnsweringSpec ==
    /\ PushFairSpec
    /\ \A c \in Callers, request \in Requests : SF_pushVars(Succeeds(c, request))

-----------------------------------------------------------------------------
(* What is expected of it.                                                 *)

\* Seen from the receiver the whole conversation is a registration that fails, again and
\* again, or succeeds: what FcmReceiver promises holds with it.
ImplementsReceiver == Spec

\* A listener that runs, or is about to, has a token, which
\* register_for_location_updates() looks up unguarded.  A receiver is taken for
\* listening without one in one place only: a client whose start ran just before the
\* teardown is not stopped yet while the thread that registers has kept credentials
\* that are half.
ListenerHasToken ==
    /\ pending \/ (\E t \in Tasks : pc.at[t] # "ended") => creds = "full"
    /\ Healthy /\ creds # "full" => \E c \in Callers : IsTalking(c, "lookup")

\* "Failed to register with FCM. Retrying": a registration that failed succeeds when the
\* servers answer again.
RegistrationEnds ==
    \A c \in Callers : caller[c] = "registering" ~> caller[c] = "away"

RegistrationsStopFailing == <>[][\A c \in Callers : ~GivesUp(c)]_pushVars

\* A dead listener is started again when somebody needs it, through the double check, the
\* lock and starts that are overtaken by teardowns; nothing prevents it but registrations
\* that fail again and again.
DeadIsRestarted ==
    RegistrationsStopFailing =>
        \A c \in Callers : (Dead /\ caller[c] = "asking") ~> ~Dead
=============================================================================
