--------------------------- MODULE FcmPushClient ---------------------------
(***************************************************************************)
(* The push client (Auth/firebase_messaging/fcmpushclient.py): a listen    *)
(* task and a monitor task on the receiver's loop, which share one         *)
(* connection that either of them may reset.  A step is what a task does   *)
(* between two awaits; it maps the client's state to its next, so `pc` is  *)
(* a record and the methods are operators on it.                           *)
(***************************************************************************)
EXTENDS Integers, FiniteSets

CONSTANTS
    Abort,      \* abort_on_sequential_error_count
    Retries     \* connection_retry_count

ASSUME FcmPushClientAssumption == Abort \in Nat \ {0} /\ Retries \in Nat \ {0}

VARIABLE pc

RunStates == {"CREATED", "STARTING_TASKS", "STARTING_CONNECTION", "STARTING_LOGIN", "STARTED",
              "RESETTING", "STOPPING", "STOPPED"}

Tasks == {"listen", "monitor"}

ErrorTypes == {"connection", "login", "notify"}

\* Where a task awaits.  "closing", "connecting" and "login" are the phases of
\* _reset(), and the last two also of the start of _listen().
Points == {"created", "closing", "connecting", "login", "reading", "napping", "waiting",
           "asleep", "pinging", "ended"}

\* `resetter` holds reset_lock; `link` is the current connection; `stale`: the
\* read under way is on the connection before it; `heard`: there was a message
\* since the monitor's heartbeat; `errors` is counted up to Abort.
Clients == [run : RunStates, doListen : BOOLEAN, at : [Tasks -> Points],
            resetter : Tasks \union {"none"}, tries : 0 .. Retries - 1,
            link : {"none", "up", "mute", "lost", "closed"}, stale : BOOLEAN, heard : BOOLEAN,
            errors : [ErrorTypes -> 0 .. Abort]]

ClientInit ==
    pc = [run |-> "CREATED", doListen |-> FALSE, at |-> [t \in Tasks |-> "ended"],
          resetter |-> "none", tries |-> 0, link |-> "none", stale |-> FALSE, heard |-> FALSE,
          errors |-> [k \in ErrorTypes |-> 0]]

\* What _listener_dead() of the receiver asks.
Dead == pc.run \in {"STOPPING", "STOPPED"}

\* Both tasks are gone, and with them the lock and the connection.
Quiet(p) == [p EXCEPT !.at = [t \in Tasks |-> "ended"], !.resetter = "none", !.link = "none",
                      !.stale = FALSE]

\* A mistaken Terminated: the other task is left to run.
TerminatedListen(p) ==
    [p EXCEPT !.run = "STOPPING", !.doListen = FALSE, !.at["listen"] = "ended"]

\* _terminate(): the other task is cancelled, this one returns.
Terminated(p) == [Quiet(p) EXCEPT !.run = "STOPPING", !.doListen = FALSE]

\* stop()
Stopped(p) ==
    IF p.run \in {"STOPPING", "STOPPED"} THEN p
    ELSE [Quiet(p) EXCEPT !.run = "STOPPED", !.doListen = FALSE]

\* start(): the counters stay as they are.
Started(p) ==
    [Quiet(p) EXCEPT !.run = "STARTING_TASKS", !.doListen = TRUE, !.tries = 0,
                     !.at = [t \in Tasks |-> IF t = "listen" THEN "created" ELSE "asleep"]]

\* _reset() by task t, up to its first await: nothing if there is one already.
ResetBegun(p, t) ==
    IF p.resetter # "none" \/ ~p.doListen THEN p
    ELSE [p EXCEPT !.run = "RESETTING", !.resetter = t, !.at[t] = "closing", !.link = "closed"]

Counted(p, k) == [p EXCEPT !.errors[k] = IF @ = Abort THEN Abort ELSE @ + 1]

\* _try_increment_error_count(), and what follows if it says to go on.
Strike(p, k, goOn) == IF Counted(p, k).errors[k] = Abort THEN Terminated(Counted(p, k)) ELSE goOn

StrikeAndReset(k) == Strike(pc, k, ResetBegun(Counted(pc, k), "listen"))

\* Task t is done with _reset() or _login() and goes back to its loop.
BackToLoop(p, t) ==
    [p EXCEPT !.at[t] = IF t = "listen" THEN "reading" ELSE "asleep",
              !.stale = IF t = "listen" THEN FALSE ELSE @,
              !.resetter = IF @ = t THEN "none" ELSE @]

-----------------------------------------------------------------------------
(* Connecting.                                                             *)

ListenBegins ==
    /\ pc.at["listen"] = "created"
    /\ pc' = [pc EXCEPT !.run = "STARTING_CONNECTION", !.at["listen"] = "connecting"]

\* The old connection is closed, and reset_interval is over.
Closed(t) ==
    /\ pc.at[t] = "closing"
    /\ pc' = [pc EXCEPT !.run = "STARTING_CONNECTION", !.at[t] = "connecting", !.tries = 0]

TriesLeft == pc.tries < Retries - 1

\* An attempt fails.  After the last, a reset terminates the client, but
\* _listen() only returns.
ConnectFails(t) ==
    /\ pc.at[t] = "connecting"
    /\ pc' = IF TriesLeft THEN [pc EXCEPT !.tries = @ + 1]
             ELSE IF pc.resetter = t THEN Terminated(pc)
             ELSE [pc EXCEPT !.at[t] = "ended"]

\* The reader is replaced: a read under way was on the one before.
Connects(t) ==
    /\ pc.at[t] = "connecting"
    /\ pc' = [pc EXCEPT !.run = "STARTING_LOGIN", !.at[t] = "login", !.link = "up",
                        !.stale = pc.at["listen"] = "reading"]

LoginSent(t) ==
    /\ pc.at[t] = "login"
    /\ pc' = BackToLoop(pc, t)

\* The request could not be sent.  Within a reset, _reset() does nothing.
LoginFails(t) ==
    /\ pc.at[t] = "login"
    /\ pc' = Strike(pc, "login",
                IF pc.resetter = t THEN BackToLoop(Counted(pc, "login"), t)
                ELSE ResetBegun(Counted(pc, "login"), t))

Connecting ==
    \/ ListenBegins
    \/ \E t \in Tasks : Closed(t) \/ ConnectFails(t) \/ Connects(t) \/ LoginSent(t) \/ LoginFails(t)

-----------------------------------------------------------------------------
(* The loop of _listen().                                                  *)

Receives == pc.at["listen"] = "reading" /\ ~pc.stale /\ pc.link = "up"

\* A login response answers a login.
LoginAccepted ==
    /\ Receives /\ pc.run = "STARTING_LOGIN"
    /\ pc' = [pc EXCEPT !.run = "STARTED", !.errors["login"] = 0, !.heard = TRUE]

LoginRefused ==
    /\ Receives /\ pc.run = "STARTING_LOGIN"
    /\ pc' = [StrikeAndReset("login") EXCEPT !.heard = TRUE]

CloseReceived ==
    /\ Receives
    /\ pc' = [StrikeAndReset("connection") EXCEPT !.heard = TRUE]

Heard(p) == [p EXCEPT !.errors["connection"] = 0, !.heard = TRUE]

\* A heartbeat, its acknowledgement, or a message that is not for this client.
MessageReceived == Receives /\ pc' = Heard(pc)

\* A notification, which the callback takes, or raises.
NotificationTaken == Receives /\ pc' = [Heard(pc) EXCEPT !.errors["notify"] = 0]

NotificationFails ==
    /\ Receives
    /\ pc' = Strike(Heard(pc), "notify", Counted(Heard(pc), "notify"))

\* Anything but an OSError or EOFError: a message that cannot be parsed.
ListenCrashes == Receives /\ pc' = Terminated(pc)

\* A mistaken ReadRaises: an error is of the current connection.
RaisesOnAny == pc.at["listen"] = "reading" /\ (pc.stale \/ pc.link \in {"lost", "closed"})

\* The read under way raises.
ReadRaises == pc.at["listen"] = "reading" /\ ~pc.stale /\ pc.link \in {"lost", "closed"}

\* An error of a superseded connection is discarded.
StaleErrorDiscarded ==
    /\ pc.at["listen"] = "reading" /\ pc.stale
    /\ pc' = [pc EXCEPT !.stale = FALSE]

\* One that a reset makes is expected, and the loop sleeps till it is over.
ExpectedError ==
    /\ ReadRaises /\ pc.run = "RESETTING"
    /\ pc' = [pc EXCEPT !.at["listen"] = "napping"]

Nap ==
    /\ pc.at["listen"] = "napping" /\ pc.run # "RESETTING"
    /\ pc' = [pc EXCEPT !.at["listen"] = "reading", !.stale = FALSE]

\* Waits for the reset that is on, or begins one.
WaitOrReset(p) ==
    IF p.resetter # "none" THEN [p EXCEPT !.at["listen"] = "waiting"] ELSE ResetBegun(p, "listen")

BenignTlsError ==
    /\ ReadRaises /\ pc.run # "RESETTING"
    /\ pc' = WaitOrReset([pc EXCEPT !.errors["connection"] = 0])

CleanEof ==
    /\ ReadRaises /\ pc.run # "RESETTING"
    /\ pc' = Strike(pc, "connection", WaitOrReset(Counted(pc, "connection")))

\* A plain OSError is unexpected also during a reset; then _reset() does nothing,
\* and the next read raises again.
UnexpectedError == ReadRaises /\ pc' = StrikeAndReset("connection")

\* `async with self.reset_lock`
Waited ==
    /\ pc.at["listen"] = "waiting" /\ pc.resetter = "none"
    /\ pc' = [pc EXCEPT !.at["listen"] = "reading", !.stale = FALSE]

Listening ==
    \/ LoginAccepted \/ LoginRefused \/ CloseReceived
    \/ MessageReceived \/ NotificationTaken \/ NotificationFails \/ ListenCrashes
    \/ StaleErrorDiscarded \/ ExpectedError \/ Nap
    \/ BenignTlsError \/ CleanEof \/ UnexpectedError \/ Waited

-----------------------------------------------------------------------------
(* _do_monitor().                                                          *)

\* A mistaken Ping: a message of before counts as an answer.
PingOnly ==
    /\ pc.at["monitor"] = "asleep" /\ pc.run = "STARTED" /\ pc.link \in {"up", "mute"}
    /\ pc' = [pc EXCEPT !.at["monitor"] = "pinging"]

\* Nothing was heard for client_heartbeat_interval: a heartbeat is sent.
Ping ==
    /\ pc.at["monitor"] = "asleep" /\ pc.run = "STARTED" /\ pc.link \in {"up", "mute"}
    /\ pc' = [pc EXCEPT !.at["monitor"] = "pinging", !.heard = FALSE]

\* The heartbeat cannot be sent: nobody catches that, and the task dies.
PingFails ==
    /\ pc.at["monitor"] = "asleep" /\ pc.run = "STARTED" /\ pc.link = "lost"
    /\ pc' = [pc EXCEPT !.at["monitor"] = "ended"]

\* The check after heartbeat_ack_timeout.
StillSilent == ~pc.heard /\ pc.run = "STARTED"

Pong ==
    /\ pc.at["monitor"] = "pinging"
    /\ pc' = LET awake == [pc EXCEPT !.at["monitor"] = "asleep"] IN
             IF StillSilent THEN ResetBegun(awake, "monitor") ELSE awake

Monitoring == Ping \/ PingFails \/ Pong

-----------------------------------------------------------------------------
(* The connection goes down, or goes silent.                               *)

LinkLost == pc.link \in {"up", "mute"} /\ pc' = [pc EXCEPT !.link = "lost"]

LinkMutes == pc.link = "up" /\ pc' = [pc EXCEPT !.link = "mute"]

ClientStep == Connecting \/ Listening \/ Monitoring \/ LinkLost \/ LinkMutes

-----------------------------------------------------------------------------
(* What is expected of it.                                                 *)

ClientTypeOK == pc \in Clients

\* A client that says it is stopping or stopped has no task left that reads,
\* pings or resets: neither task goes on behind the other's _terminate().
DeadMeansOver == Dead => \A t \in Tasks : pc.at[t] = "ended"

\* A reset closes the connection whose failure was seen, never the one that
\* replaced it: not for the error of a superseded read, and not for a silence
\* that ended while the monitor waited for the answer to its heartbeat.
ResetsWhatFailed ==
    [][pc.resetter = "none" =>
          /\ pc'.resetter = "listen" => ~pc.stale
          /\ pc'.resetter = "monitor" => ~pc.heard]_pc

\* While the monitor lives, a connection that went silent is reset: locates do
\* not wait for answers that cannot come.
SilenceIsNoticed ==
    (pc.link = "mute" /\ pc.run = "STARTED" /\ pc.at["monitor"] # "ended")
        ~> (pc.link # "mute" \/ pc.run # "STARTED")
=============================================================================
