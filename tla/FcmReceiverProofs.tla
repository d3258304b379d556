------------------------- MODULE FcmReceiverProofs -------------------------
(***************************************************************************)
(* Theorems about the push receiver: for any number of threads, retries    *)
(* and errors, its type, that a dead client has no task left, that the     *)
(* client is only started when it has none, and that a reset hits the      *)
(* connection that failed.  Then the conversation that registers it: that  *)
(* it implements the receiver, and leaves no listener without a token.     *)
(***************************************************************************)
EXTENDS PushRegistration, TLAPS

AllEnded(p) == \A t \in Tasks : p.at[t] = "ended"

DeadRun(p) == p.run \in {"STOPPING", "STOPPED"}

\* What every step of the client's tasks keeps.
ClientGood(p) == p \in Clients /\ (DeadRun(p) => AllEnded(p))

\* Only the thread with the lock tears down and registers, and from its teardown
\* to the start it schedules no task is left.
StartInv ==
    /\ \A c \in Callers : caller[c] \in {"teardown", "registering"} => holder = c
    /\ \A c \in Callers : caller[c] = "registering" => AllEnded(pc) /\ ~pending
    /\ pending => AllEnded(pc)

FcmInv == FcmTypeOK /\ ClientGood(pc) /\ StartInv

-----------------------------------------------------------------------------
(* The operators on the client's state.                                    *)

\* Ending both tasks keeps the type.
LEMMA QuietEnds ==
    ASSUME NEW p \in Clients
    PROVE  Quiet(p) \in Clients /\ AllEnded(Quiet(p))
BY DEF Quiet, Clients, AllEnded, Tasks, Points

\* _terminate() leaves a good client.
LEMMA TerminatedGood ==
    ASSUME NEW p \in Clients
    PROVE  ClientGood(Terminated(p))
<1>1. Quiet(p) \in Clients /\ AllEnded(Quiet(p))
  BY QuietEnds
<1>2. Terminated(p) \in Clients
  BY <1>1 DEF Terminated, Clients, RunStates
<1>3. AllEnded(Terminated(p))
  BY <1>1 DEF Terminated, AllEnded, Clients
<1> QED
  BY <1>2, <1>3 DEF ClientGood

\* stop() leaves a good client.
LEMMA StoppedGood ==
    ASSUME NEW p, ClientGood(p)
    PROVE  ClientGood(Stopped(p)) /\ (AllEnded(p) => AllEnded(Stopped(p)))
<1>0. p \in Clients
  BY DEF ClientGood
<1>1. Quiet(p) \in Clients /\ AllEnded(Quiet(p))
  BY <1>0, QuietEnds
<1>2. CASE p.run \in {"STOPPING", "STOPPED"}
  BY <1>2 DEF Stopped
<1>3. CASE ~(p.run \in {"STOPPING", "STOPPED"})
  <2> DEFINE q == [Quiet(p) EXCEPT !.run = "STOPPED", !.doListen = FALSE]
  <2>1. Stopped(p) = q
    BY <1>3 DEF Stopped
  <2>2. q \in Clients
    BY <1>1 DEF Clients, RunStates
  <2>3. AllEnded(q)
    BY <1>1 DEF AllEnded, Clients
  <2> QED
    BY <2>1, <2>2, <2>3 DEF ClientGood
<1> QED
  BY <1>2, <1>3

\* start() leaves a good client.
LEMMA StartedGood ==
    ASSUME NEW p \in Clients
    PROVE  ClientGood(Started(p))
<1>1. Quiet(p) \in Clients
  BY QuietEnds
<1>2. Started(p) \in Clients
  <2> DEFINE at == [t \in Tasks |-> IF t = "listen" THEN "created" ELSE "asleep"]
  <2>1. at \in [Tasks -> Points]
    BY DEF Points
  <2>2. 0 \in 0 .. Retries - 1
    BY FcmPushClientAssumption
  <2>3. Started(p) = [Quiet(p) EXCEPT !.run = "STARTING_TASKS", !.doListen = TRUE, !.tries = 0, !.at = at]
    BY DEF Started
  <2> HIDE DEF at
  <2> QED
    BY <1>1, <2>1, <2>2, <2>3 DEF Clients, RunStates
<1>3. Started(p).run = "STARTING_TASKS"
  BY <1>1 DEF Started, Clients
<1> QED
  BY <1>2, <1>3 DEF ClientGood, DeadRun

\* Beginning a reset keeps a client that is not dead that way.
LEMMA ResetBegunGood ==
    ASSUME NEW p \in Clients, ~DeadRun(p), NEW t \in Tasks
    PROVE  ResetBegun(p, t) \in Clients /\ ~DeadRun(ResetBegun(p, t))
BY DEF ResetBegun, Clients, DeadRun, RunStates, Points, Tasks

\* Counting keeps everything but the counter.
LEMMA CountedGood ==
    ASSUME NEW p \in Clients, NEW k \in ErrorTypes
    PROVE  Counted(p, k) \in Clients /\ Counted(p, k).run = p.run
BY FcmPushClientAssumption DEF Counted, Clients, ErrorTypes

\* A strike ends in a termination, or in what comes if it does not.
LEMMA StrikeGood ==
    ASSUME NEW p \in Clients, NEW k \in ErrorTypes, NEW q, q \in Clients, ~DeadRun(q)
    PROVE  ClientGood(Strike(p, k, q))
BY CountedGood, TerminatedGood DEF Strike, ClientGood

\* Going back to the loop keeps a client that is not dead that way.
LEMMA BackToLoopGood ==
    ASSUME NEW p \in Clients, ~DeadRun(p), NEW t \in Tasks
    PROVE  BackToLoop(p, t) \in Clients /\ ~DeadRun(BackToLoop(p, t))
BY DEF BackToLoop, Clients, DeadRun, Points, Tasks

\* Waiting for a reset, or beginning one.
LEMMA WaitOrResetGood ==
    ASSUME NEW p \in Clients, ~DeadRun(p)
    PROVE  WaitOrReset(p) \in Clients /\ ~DeadRun(WaitOrReset(p))
<1>1. [p EXCEPT !.at["listen"] = "waiting"] \in Clients
  BY DEF Clients, Points, Tasks
<1>2. ~DeadRun([p EXCEPT !.at["listen"] = "waiting"])
  BY DEF Clients, DeadRun
<1>3. "listen" \in Tasks
  BY DEF Tasks
<1> QED
  BY <1>1, <1>2, <1>3, ResetBegunGood DEF WaitOrReset

-----------------------------------------------------------------------------
(* The steps of the client's tasks.                                        *)

\* A task moves.
LEMMA MoveGood ==
    ASSUME NEW p \in Clients, NEW t \in Tasks, NEW q \in Points
    PROVE  /\ [p EXCEPT !.at[t] = q] \in Clients
           /\ [p EXCEPT !.at[t] = q].run = p.run
           /\ [p EXCEPT !.at[t] = q, !.stale = FALSE] \in Clients
           /\ [p EXCEPT !.at[t] = q, !.stale = FALSE].run = p.run
           /\ [p EXCEPT !.at[t] = q, !.heard = FALSE] \in Clients
           /\ [p EXCEPT !.at[t] = q, !.heard = FALSE].run = p.run
BY DEF Clients

\* Connecting: whoever does it is not ended, so the client is not dead.
LEMMA ConnectingGood ==
    ASSUME ClientGood(pc), Connecting
    PROVE  ClientGood(pc') /\ ~AllEnded(pc)
<1>0. pc \in Clients /\ (DeadRun(pc) => AllEnded(pc))
  BY DEF ClientGood
<1>1. CASE ListenBegins
  <2>1. ~AllEnded(pc)
    BY <1>1 DEF ListenBegins, AllEnded, Tasks
  <2>2. pc' \in Clients /\ ~DeadRun(pc')
    BY <1>0, <1>1, <2>1 DEF ListenBegins, Clients, RunStates, Points, Tasks, DeadRun
  <2> QED
    BY <2>1, <2>2 DEF ClientGood
<1>2. ASSUME NEW t \in Tasks, Closed(t)
      PROVE  ClientGood(pc') /\ ~AllEnded(pc)
  <2>1. ~AllEnded(pc)
    BY <1>2 DEF Closed, AllEnded
  <2>2. pc' \in Clients /\ ~DeadRun(pc')
    <3>1. 0 \in 0 .. Retries - 1
      BY FcmPushClientAssumption
    <3>2. pc' = [pc EXCEPT !.run = "STARTING_CONNECTION", !.at[t] = "connecting", !.tries = 0]
      BY <1>2 DEF Closed
    <3> QED
      BY <1>0, <3>1, <3>2 DEF Clients, RunStates, Points, DeadRun
  <2> QED
    BY <2>1, <2>2 DEF ClientGood
<1>3. ASSUME NEW t \in Tasks, ConnectFails(t)
      PROVE  ClientGood(pc') /\ ~AllEnded(pc)
  <2>1. ~AllEnded(pc)
    BY <1>3 DEF ConnectFails, AllEnded
  <2>2. CASE TriesLeft
    <3>1. pc' \in Clients /\ pc'.run = pc.run
      BY <1>0, <1>3, <2>2, FcmPushClientAssumption DEF ConnectFails, TriesLeft, Clients
    <3> QED
      BY <1>0, <2>1, <3>1 DEF ClientGood, DeadRun
  <2>3. CASE ~TriesLeft /\ pc.resetter = t
    BY <1>0, <1>3, <2>1, <2>3, TerminatedGood DEF ConnectFails
  <2>4. CASE ~TriesLeft /\ pc.resetter # t
    <3>1. pc' \in Clients /\ pc'.run = pc.run
      BY <1>0, <1>3, <2>4 DEF ConnectFails, Clients, Points
    <3> QED
      BY <1>0, <2>1, <3>1 DEF ClientGood, DeadRun
  <2> QED
    BY <2>2, <2>3, <2>4
<1>4. ASSUME NEW t \in Tasks, Connects(t)
      PROVE  ClientGood(pc') /\ ~AllEnded(pc)
  <2>1. ~AllEnded(pc)
    BY <1>4 DEF Connects, AllEnded
  <2>2. pc' \in Clients /\ ~DeadRun(pc')
    BY <1>0, <1>4, <2>1 DEF Connects, Clients, RunStates, Points, DeadRun
  <2> QED
    BY <2>1, <2>2 DEF ClientGood
<1>5. ASSUME NEW t \in Tasks, LoginSent(t)
      PROVE  ClientGood(pc') /\ ~AllEnded(pc)
  <2>1. ~AllEnded(pc)
    BY <1>5 DEF LoginSent, AllEnded
  <2>2. pc' \in Clients /\ ~DeadRun(pc')
    BY <1>0, <1>5, <2>1, BackToLoopGood DEF LoginSent
  <2> QED
    BY <2>1, <2>2 DEF ClientGood
<1>6. ASSUME NEW t \in Tasks, LoginFails(t)
      PROVE  ClientGood(pc') /\ ~AllEnded(pc)
  <2>1. ~AllEnded(pc)
    BY <1>6 DEF LoginFails, AllEnded
  <2> DEFINE q == Counted(pc, "login")
             r == IF pc.resetter = t THEN BackToLoop(q, t) ELSE ResetBegun(q, t)
  <2>2. q \in Clients /\ ~DeadRun(q)
    BY <1>0, <2>1, CountedGood DEF ErrorTypes, DeadRun
  <2>3. r \in Clients /\ ~DeadRun(r)
    BY <2>2, BackToLoopGood, ResetBegunGood
  <2>4. pc' = Strike(pc, "login", r)
    BY <1>6 DEF LoginFails
  <2> QED
    BY <1>0, <2>1, <2>3, <2>4, StrikeGood DEF ErrorTypes
<1> QED
  BY <1>1, <1>2, <1>3, <1>4, <1>5, <1>6 DEF Connecting

\* The listen task's loop.
LEMMA ListeningGood ==
    ASSUME ClientGood(pc), Listening
    PROVE  ClientGood(pc') /\ ~AllEnded(pc)
<1>0. pc \in Clients /\ (DeadRun(pc) => AllEnded(pc))
  BY DEF ClientGood
<1>1. pc.at["listen"] # "ended"
  BY DEF Listening, LoginAccepted, LoginRefused, CloseReceived, MessageReceived, NotificationTaken,
         NotificationFails, ListenCrashes, Receives, StaleErrorDiscarded, ExpectedError, Nap,
         BenignTlsError, CleanEof, UnexpectedError, ReadRaises, Waited
<1>2. ~AllEnded(pc) /\ ~DeadRun(pc)
  BY <1>0, <1>1 DEF AllEnded, Tasks
<1>3. \A k \in ErrorTypes : ClientGood(StrikeAndReset(k))
  BY <1>0, <1>2, CountedGood, ResetBegunGood, StrikeGood DEF StrikeAndReset, Tasks, DeadRun
<1>4. \A p \in Clients : Heard(p) \in Clients /\ Heard(p).run = p.run
  <2>1. 0 \in 0 .. Abort
    BY FcmPushClientAssumption
  <2> QED
    BY <2>1 DEF Heard, Clients, ErrorTypes
<1>5. \A p \in Clients : ClientGood(p) => ClientGood([p EXCEPT !.heard = TRUE])
  BY DEF ClientGood, Clients, DeadRun, AllEnded
<1>6. CASE LoginAccepted
  <2>1. pc' = [pc EXCEPT !.run = "STARTED", !.errors["login"] = 0, !.heard = TRUE]
    BY <1>6 DEF LoginAccepted
  <2>2. 0 \in 0 .. Abort
    BY FcmPushClientAssumption
  <2>3. pc' \in Clients /\ ~DeadRun(pc')
    BY <1>0, <2>1, <2>2 DEF Clients, RunStates, ErrorTypes, DeadRun
  <2> QED
    BY <1>2, <2>3 DEF ClientGood
<1>7. CASE LoginRefused \/ CloseReceived
  <2>1. PICK k \in {"login", "connection"} : pc' = [StrikeAndReset(k) EXCEPT !.heard = TRUE]
    BY <1>7 DEF LoginRefused, CloseReceived
  <2>2. ClientGood(StrikeAndReset(k)) /\ StrikeAndReset(k) \in Clients
    BY <1>3 DEF ErrorTypes, ClientGood
  <2> QED
    BY <1>2, <1>5, <2>1, <2>2
<1>8. CASE MessageReceived
  BY <1>0, <1>2, <1>4, <1>8 DEF MessageReceived, ClientGood, DeadRun
<1>9. CASE NotificationTaken
  <2>1. pc' = [Heard(pc) EXCEPT !.errors["notify"] = 0] /\ Heard(pc) \in Clients
    BY <1>0, <1>4, <1>9 DEF NotificationTaken
  <2>2. 0 \in 0 .. Abort
    BY FcmPushClientAssumption
  <2>3. pc' \in Clients /\ pc'.run = Heard(pc).run
    BY <2>1, <2>2 DEF Clients, ErrorTypes
  <2> QED
    BY <1>0, <1>2, <1>4, <2>3 DEF ClientGood, DeadRun
<1>10. CASE NotificationFails
  <2>1. Heard(pc) \in Clients /\ ~DeadRun(Heard(pc))
    BY <1>0, <1>2, <1>4 DEF DeadRun
  <2>2. Counted(Heard(pc), "notify") \in Clients /\ ~DeadRun(Counted(Heard(pc), "notify"))
    BY <2>1, CountedGood DEF ErrorTypes, DeadRun
  <2> QED
    BY <1>2, <1>10, <2>1, <2>2, StrikeGood DEF NotificationFails, ErrorTypes
<1>11. CASE ListenCrashes
  BY <1>0, <1>2, <1>11, TerminatedGood DEF ListenCrashes
<1>12. CASE StaleErrorDiscarded \/ ExpectedError \/ Nap \/ Waited
  <2>1. pc' \in Clients /\ pc'.run = pc.run
    <3>1. \/ pc' = [pc EXCEPT !.stale = FALSE]
          \/ pc' = [pc EXCEPT !.at["listen"] = "napping"]
          \/ pc' = [pc EXCEPT !.at["listen"] = "reading", !.stale = FALSE]
      BY <1>12 DEF StaleErrorDiscarded, ExpectedError, Nap, Waited
    <3>2. [pc EXCEPT !.stale = FALSE] \in Clients /\ [pc EXCEPT !.stale = FALSE].run = pc.run
      BY <1>0 DEF Clients
    <3>3. "listen" \in Tasks /\ "napping" \in Points /\ "reading" \in Points
      BY DEF Points, Tasks
    <3>4. CASE pc' = [pc EXCEPT !.at["listen"] = "napping"]
      BY <1>0, <3>3, <3>4, MoveGood
    <3>5. CASE pc' = [pc EXCEPT !.at["listen"] = "reading", !.stale = FALSE]
      BY <1>0, <3>3, <3>5, MoveGood
    <3> QED
      BY <3>1, <3>2, <3>4, <3>5
  <2> QED
    BY <1>2, <2>1 DEF ClientGood, DeadRun
<1>13. CASE BenignTlsError
  <2> DEFINE q == [pc EXCEPT !.errors["connection"] = 0]
  <2>1. pc' = WaitOrReset(q)
    BY <1>13 DEF BenignTlsError
  <2>2. q \in Clients /\ ~DeadRun(q)
    <3>1. 0 \in 0 .. Abort
      BY FcmPushClientAssumption
    <3> QED
      BY <1>0, <1>2, <3>1 DEF Clients, ErrorTypes, DeadRun
  <2> QED
    BY <1>2, <2>1, <2>2, WaitOrResetGood DEF ClientGood
<1>14. CASE CleanEof
  <2> DEFINE q == Counted(pc, "connection")
  <2>1. q \in Clients /\ ~DeadRun(q)
    BY <1>0, <1>2, CountedGood DEF ErrorTypes, DeadRun
  <2>2. WaitOrReset(q) \in Clients /\ ~DeadRun(WaitOrReset(q))
    BY <2>1, WaitOrResetGood
  <2>3. pc' = Strike(pc, "connection", WaitOrReset(q))
    BY <1>14 DEF CleanEof
  <2> QED
    BY <1>0, <1>2, <2>2, <2>3, StrikeGood DEF ErrorTypes
<1>15. CASE UnexpectedError
  BY <1>2, <1>3, <1>15 DEF UnexpectedError, ErrorTypes
<1> QED
  BY <1>6, <1>7, <1>8, <1>9, <1>10, <1>11, <1>12, <1>13, <1>14, <1>15 DEF Listening

\* The monitor, and the connection.
LEMMA MonitoringGood ==
    ASSUME ClientGood(pc), Monitoring
    PROVE  ClientGood(pc') /\ ~AllEnded(pc)
<1>0. pc \in Clients /\ (DeadRun(pc) => AllEnded(pc))
  BY DEF ClientGood
<1>1. ~AllEnded(pc) /\ ~DeadRun(pc)
  BY <1>0 DEF Monitoring, Ping, PingFails, Pong, AllEnded, Tasks
<1>2. CASE Ping \/ PingFails
  <2>1. pc' \in Clients /\ pc'.run = pc.run
    <3>1. \/ pc' = [pc EXCEPT !.at["monitor"] = "pinging", !.heard = FALSE]
          \/ pc' = [pc EXCEPT !.at["monitor"] = "ended"]
      BY <1>2 DEF Ping, PingFails
    <3>3. "monitor" \in Tasks /\ "pinging" \in Points /\ "ended" \in Points
      BY DEF Points, Tasks
    <3>4. CASE pc' = [pc EXCEPT !.at["monitor"] = "pinging", !.heard = FALSE]
      BY <1>0, <3>3, <3>4, MoveGood
    <3>5. CASE pc' = [pc EXCEPT !.at["monitor"] = "ended"]
      BY <1>0, <3>3, <3>5, MoveGood
    <3> QED
      BY <3>1, <3>4, <3>5
  <2> QED
    BY <1>1, <2>1 DEF ClientGood, DeadRun
<1>3. CASE Pong
  <2> DEFINE q == [pc EXCEPT !.at["monitor"] = "asleep"]
  <2>1. q \in Clients /\ ~DeadRun(q)
    BY <1>0, <1>1 DEF Clients, Points, DeadRun
  <2>2. pc' = IF StillSilent THEN ResetBegun(q, "monitor") ELSE q
    BY <1>3 DEF Pong
  <2> QED
    BY <1>1, <2>1, <2>2, ResetBegunGood DEF ClientGood, Tasks
<1> QED
  BY <1>2, <1>3 DEF Monitoring

\* Every step of the client keeps it good, and without tasks it stays without.
LEMMA ClientStepGood ==
    ASSUME ClientGood(pc), ClientStep
    PROVE  ClientGood(pc') /\ (AllEnded(pc) => AllEnded(pc'))
<1>1. CASE LinkLost \/ LinkMutes
  BY <1>1 DEF LinkLost, LinkMutes, ClientGood, Clients, DeadRun, AllEnded
<1> QED
  BY <1>1, ConnectingGood, ListeningGood, MonitoringGood DEF ClientStep

-----------------------------------------------------------------------------
(* The receiver.                                                           *)

LEMMA InitFcmInv == Init => FcmInv
<1> SUFFICES ASSUME Init PROVE FcmInv
  OBVIOUS
<1>1. 0 \in 0 .. Abort /\ 0 \in 0 .. Retries - 1
  BY FcmPushClientAssumption
<1>2. pc \in Clients /\ AllEnded(pc)
  BY <1>1 DEF Init, ClientInit, Clients, RunStates, Points, AllEnded
<1> QED
  BY <1>2 DEF Init, FcmInv, FcmTypeOK, ClientTypeOK, ClientGood, StartInv

\* A caller's steps up to its teardown leave the client alone.
LEMMA AskLookEnterKeep ==
    ASSUME FcmInv, NEW c \in Callers, Ask(c) \/ Look(c) \/ Enter(c)
    PROVE  FcmInv'
<1>1. pc' = pc /\ listening' = listening /\ pending' = pending
  BY DEF Ask, Look, Enter
<1>2. FcmTypeOK' /\ ClientGood(pc')
  BY <1>1 DEF FcmInv, FcmTypeOK, ClientTypeOK, ClientGood, Ask, Look, Enter
<1>3. StartInv'
  BY <1>1, FcmReceiverAssumption DEF FcmInv, FcmTypeOK, StartInv, Ask, Look, Enter, LockIsFree
<1> QED
  BY <1>2, <1>3 DEF FcmInv

\* The teardown ends what was left; the invariant of the start begins to hold.
LEMMA TeardownKeeps ==
    ASSUME FcmInv, NEW c \in Callers, Teardown(c)
    PROVE  FcmInv'
<1>0. pc \in Clients
  BY DEF FcmInv, ClientGood
<1>1. pc' = Quiet(pc) /\ pc' \in Clients /\ AllEnded(pc')
  BY <1>0, QuietEnds DEF Teardown
<1>2. FcmTypeOK' /\ ClientGood(pc')
  BY <1>1 DEF FcmInv, FcmTypeOK, ClientTypeOK, ClientGood, Teardown
<1>3. StartInv'
  BY <1>1 DEF FcmInv, FcmTypeOK, StartInv, Teardown
<1> QED
  BY <1>2, <1>3 DEF FcmInv

LEMMA RegistrationKeeps ==
    ASSUME FcmInv, NEW c \in Callers, RegisterFails(c) \/ Registered(c)
    PROVE  FcmInv'
<1>1. CASE RegisterFails(c)
  <2>1. pc' = Stopped(pc) /\ ClientGood(pc') /\ (AllEnded(pc) => AllEnded(pc'))
    BY <1>1, StoppedGood DEF FcmInv, RegisterFails
  <2>2. UNCHANGED receiverVars
    BY <1>1 DEF RegisterFails
  <2> QED
    BY <2>1, <2>2 DEF FcmInv, FcmTypeOK, ClientTypeOK, ClientGood, StartInv, receiverVars
<1>2. CASE Registered(c)
  <2>1. pc' = pc /\ AllEnded(pc)
    BY <1>2 DEF Registered, FcmInv, StartInv
  <2>2. FcmTypeOK' /\ ClientGood(pc')
    BY <1>2, <2>1 DEF FcmInv, FcmTypeOK, ClientTypeOK, ClientGood, Registered
  <2>3. \A d \in Callers : caller[d] \in {"teardown", "registering"} => d = c
    BY <1>2 DEF Registered, FcmInv, StartInv
  <2>4. StartInv'
    BY <1>2, <2>1, <2>3 DEF FcmInv, FcmTypeOK, StartInv, Registered
  <2> QED
    BY <2>2, <2>4 DEF FcmInv
<1> QED
  BY <1>1, <1>2

\* While a start is pending nobody registers, so it does not come in the way.
LEMMA StartRunsKeeps ==
    ASSUME FcmInv, StartRuns
    PROVE  FcmInv'
<1>1. pc' = Started(pc) /\ ClientGood(pc')
  BY StartedGood DEF FcmInv, ClientGood, StartRuns
<1>2. \A c \in Callers : caller[c] # "registering"
  BY DEF FcmInv, StartInv, StartRuns
<1> QED
  BY <1>1, <1>2 DEF FcmInv, FcmTypeOK, ClientTypeOK, ClientGood, StartInv, StartRuns

LEMMA ClientStepKeeps ==
    ASSUME FcmInv, ClientStep, UNCHANGED receiverVars
    PROVE  FcmInv'
<1>1. ClientGood(pc') /\ (AllEnded(pc) => AllEnded(pc'))
  BY ClientStepGood DEF FcmInv
<1> QED
  BY <1>1 DEF FcmInv, FcmTypeOK, ClientTypeOK, ClientGood, StartInv, receiverVars

LEMMA FcmInvInductive == FcmInv /\ [Next]_vars => FcmInv'
<1> SUFFICES ASSUME FcmInv, [Next]_vars PROVE FcmInv'
  OBVIOUS
<1>1. CASE UNCHANGED vars
  BY <1>1 DEF vars, receiverVars, FcmInv, FcmTypeOK, ClientTypeOK, ClientGood, StartInv
<1>2. CASE Next
  BY <1>2, AskLookEnterKeep, TeardownKeeps, RegistrationKeeps, StartRunsKeeps, ClientStepKeeps
     DEF Next, CallerStep
<1> QED
  BY <1>1, <1>2

LEMMA FcmInvHolds == Spec => []FcmInv
BY InitFcmInv, FcmInvInductive, PTL DEF Spec

\* The receiver and the client keep their types, whatever the numbers of
\* threads, retries and errors.
THEOREM FcmTypeCorrect == Spec => []FcmTypeOK
BY FcmInvHolds, PTL DEF FcmInv

\* A client that says it is stopping or stopped has no task left.
THEOREM DeadMeansOverHolds == Spec => []DeadMeansOver
<1>1. FcmInv => DeadMeansOver
  BY DEF FcmInv, ClientGood, DeadMeansOver, Dead, DeadRun, AllEnded
<1> QED
  BY <1>1, FcmInvHolds, PTL

\* pc.start() only ever runs on a client without tasks: two listeners never read
\* one connection, however the threads that need one race for it.
THEOREM StartsAreAlone == Spec => StartsOnQuietClient
<1>1. FcmInv /\ [Next]_vars => [StartRuns => \A t \in Tasks : pc.at[t] = "ended"]_vars
  BY DEF FcmInv, StartInv, StartRuns, AllEnded
<1> QED
  BY <1>1, FcmInvHolds, PTL DEF Spec, StartsOnQuietClient

-----------------------------------------------------------------------------
(* What a reset hits.                                                      *)

\* Only a read can be of a superseded connection, and the monitor is only within
\* a reset as the one that holds the lock.
ResetGood(p) ==
    /\ p.stale => p.at["listen"] = "reading"
    /\ p.at["monitor"] \in {"closing", "connecting", "login"} => p.resetter = "monitor"

\* From p to q no reset begins, or one that is due to what p knows.
RightReset(p, q) ==
    p.resetter = "none" =>
        /\ q.resetter = "listen" => ~p.stale
        /\ q.resetter = "monitor" => ~p.heard

\* Ending both tasks leaves no reset.
LEMMA QuietResets ==
    ASSUME NEW p \in Clients, NEW q, q = Quiet(p) \/ q = Terminated(p)
    PROVE  ResetGood(q) /\ q.resetter = "none"
<1>1. q.at = [t \in Tasks |-> "ended"] /\ q.stale = FALSE /\ q.resetter = "none"
  BY DEF Quiet, Terminated, Clients
<1> QED
  BY <1>1 DEF ResetGood, Tasks

\* Stopping and starting leave no reset either.
LEMMA StoppedStartedReset ==
    ASSUME NEW p \in Clients, ResetGood(p)
    PROVE  ResetGood(Stopped(p)) /\ ResetGood(Started(p))
BY DEF ResetGood, Stopped, Started, Quiet, Clients, Tasks

\* The listen task begins a reset for what it met on the current connection.
LEMMA ListenResets ==
    ASSUME NEW p \in Clients, ResetGood(p), ~p.stale
    PROVE  ResetGood(ResetBegun(p, "listen"))
BY DEF ResetGood, ResetBegun, Clients, Tasks

\* The monitor begins one unless there is one.
LEMMA MonitorResets ==
    ASSUME NEW p \in Clients, ResetGood(p), p.at["monitor"] = "asleep"
    PROVE  /\ ResetGood(ResetBegun(p, "monitor"))
           /\ ResetBegun(p, "monitor").resetter \in {p.resetter, "monitor"}
BY DEF ResetGood, ResetBegun, Clients, Tasks

\* Counting changes neither tasks nor lock.
LEMMA CountedReset ==
    ASSUME NEW p \in Clients, NEW k \in ErrorTypes
    PROVE  /\ Counted(p, k) \in Clients
           /\ Counted(p, k).at = p.at /\ Counted(p, k).stale = p.stale
           /\ Counted(p, k).resetter = p.resetter
           /\ ResetGood(p) => ResetGood(Counted(p, k))
BY CountedGood DEF Counted, Clients, ResetGood

\* A strike ends the client, or goes on as it would.
LEMMA StrikeReset ==
    ASSUME NEW p \in Clients, NEW k \in ErrorTypes, NEW q, ResetGood(q)
    PROVE  /\ ResetGood(Strike(p, k, q))
           /\ Strike(p, k, q).resetter \in {q.resetter, "none"}
<1>1. Counted(p, k) \in Clients
  BY CountedGood
<1> QED
  BY <1>1, QuietResets DEF Strike

\* The phases of connecting.
LEMMA ConnectingResets ==
    ASSUME pc \in Clients, ResetGood(pc), Connecting
    PROVE  ResetGood(pc') /\ RightReset(pc, pc')
<1>1. CASE ListenBegins
  BY <1>1 DEF ListenBegins, ResetGood, RightReset, Clients, Tasks
<1>2. ASSUME NEW t \in Tasks, Closed(t) \/ Connects(t) \/ LoginSent(t)
      PROVE  ResetGood(pc') /\ RightReset(pc, pc')
  <2>1. CASE Closed(t)
    BY <2>1 DEF Closed, ResetGood, RightReset, Clients, Tasks
  <2>2. CASE Connects(t)
    BY <2>2 DEF Connects, ResetGood, RightReset, Clients, Tasks
  <2>3. CASE LoginSent(t)
    BY <2>3 DEF LoginSent, BackToLoop, ResetGood, RightReset, Clients, Tasks
  <2> QED
    BY <1>2, <2>1, <2>2, <2>3
<1>3. ASSUME NEW t \in Tasks, ConnectFails(t)
      PROVE  ResetGood(pc') /\ RightReset(pc, pc')
  <2>1. CASE pc' = Terminated(pc)
    BY <2>1, QuietResets DEF RightReset
  <2>2. CASE pc' # Terminated(pc)
    BY <1>3, <2>2 DEF ConnectFails, ResetGood, RightReset, Clients, Tasks
  <2> QED
    BY <2>1, <2>2
<1>4. ASSUME NEW t \in Tasks, LoginFails(t)
      PROVE  ResetGood(pc') /\ RightReset(pc, pc')
  <2> DEFINE q == Counted(pc, "login")
             r == IF pc.resetter = t THEN BackToLoop(q, t) ELSE ResetBegun(q, t)
  <2>1. q \in Clients /\ ResetGood(q) /\ q.at = pc.at /\ q.resetter = pc.resetter
                      /\ q.stale = pc.stale
    BY CountedReset DEF ErrorTypes
  <2>2. pc' = Strike(pc, "login", r)
    BY <1>4 DEF LoginFails
  <2>3. CASE pc.resetter = t
    <3>1. ResetGood(r) /\ r.resetter = "none"
      BY <1>4, <2>1, <2>3 DEF LoginFails, BackToLoop, ResetGood, Clients, Tasks
    <3> QED
      BY <2>2, <3>1, StrikeReset DEF RightReset, ErrorTypes
  <2>4. CASE pc.resetter # t
    <3>1. t = "listen" /\ ~pc.stale
      BY <1>4, <2>4 DEF LoginFails, ResetGood, Tasks
    <3>2. ResetGood(r) /\ r.resetter \in {pc.resetter, "listen"}
      BY <2>1, <2>4, <3>1, ListenResets DEF ResetBegun, Clients
    <3> QED
      BY <2>2, <3>1, <3>2, StrikeReset DEF RightReset, ErrorTypes
  <2> QED
    BY <2>3, <2>4
<1> QED
  BY <1>1, <1>2, <1>3, <1>4 DEF Connecting

\* What the listen task meets.
LEMMA ListeningResets ==
    ASSUME pc \in Clients, ResetGood(pc), Listening
    PROVE  ResetGood(pc') /\ RightReset(pc, pc')
<1>1. ASSUME NEW k \in ErrorTypes, ~pc.stale
      PROVE  /\ StrikeAndReset(k) \in Clients
             /\ ResetGood(StrikeAndReset(k))
             /\ RightReset(pc, StrikeAndReset(k))
  <2> DEFINE q == Counted(pc, k)
  <2>1. q \in Clients /\ ResetGood(q) /\ q.resetter = pc.resetter /\ ~q.stale
    BY <1>1, CountedReset
  <2>2. ResetGood(ResetBegun(q, "listen"))
    BY <2>1, ListenResets
  <2>3. ResetBegun(q, "listen").resetter \in {pc.resetter, "listen"}
    BY <2>1 DEF ResetBegun, Clients
  <2>4. ResetBegun(q, "listen") \in Clients
    <3>1. "listen" \in Tasks /\ "closing" \in Points /\ "RESETTING" \in RunStates
      BY DEF Tasks, Points, RunStates
    <3> HIDE DEF q
    <3> QED
      BY <2>1, <3>1 DEF ResetBegun, Clients
  <2>5. Terminated(q) \in Clients
    BY <2>1, TerminatedGood DEF ClientGood
  <2> QED
    BY <1>1, <2>2, <2>3, <2>4, <2>5, StrikeReset DEF StrikeAndReset, RightReset, Strike
<1>2. CASE LoginAccepted \/ MessageReceived \/ NotificationTaken
  <2>1. pc'.at = pc.at /\ pc'.stale = pc.stale /\ pc'.resetter = pc.resetter
    BY <1>2 DEF LoginAccepted, MessageReceived, NotificationTaken, Heard, Clients
  <2> QED
    BY <2>1 DEF ResetGood, RightReset, Clients, Tasks
<1>3. CASE LoginRefused \/ CloseReceived
  <2>1. PICK k \in ErrorTypes : pc' = [StrikeAndReset(k) EXCEPT !.heard = TRUE]
    BY <1>3 DEF LoginRefused, CloseReceived, ErrorTypes
  <2>2. ~pc.stale
    BY <1>3 DEF LoginRefused, CloseReceived, Receives
  <2>3. /\ pc'.at = StrikeAndReset(k).at /\ pc'.stale = StrikeAndReset(k).stale
        /\ pc'.resetter = StrikeAndReset(k).resetter
    BY <1>1, <2>1, <2>2 DEF Clients
  <2> QED
    BY <1>1, <2>2, <2>3 DEF ResetGood, RightReset
<1>4. CASE NotificationFails
  <2>1. Heard(pc) \in Clients
    <3>1. 0 \in 0 .. Abort
      BY FcmPushClientAssumption
    <3> QED
      BY <3>1 DEF Heard, Clients, ErrorTypes
  <2>2. ResetGood(Heard(pc)) /\ Heard(pc).resetter = pc.resetter
    BY DEF Heard, ResetGood, Clients
  <2>3. /\ ResetGood(Counted(Heard(pc), "notify"))
        /\ Counted(Heard(pc), "notify").resetter = pc.resetter
    BY <2>1, <2>2, CountedReset DEF ErrorTypes
  <2> QED
    BY <1>4, <2>1, <2>3, StrikeReset DEF NotificationFails, RightReset, ErrorTypes
<1>5. CASE ListenCrashes
  BY <1>5, QuietResets DEF ListenCrashes, RightReset
<1>6. CASE StaleErrorDiscarded \/ ExpectedError \/ Nap \/ Waited
  <2>1. CASE StaleErrorDiscarded
    BY <2>1 DEF StaleErrorDiscarded, ResetGood, RightReset, Clients, Tasks
  <2>2. CASE ExpectedError
    BY <2>2 DEF ExpectedError, ReadRaises, ResetGood, RightReset, Clients, Tasks
  <2>3. CASE Nap
    BY <2>3 DEF Nap, ResetGood, RightReset, Clients, Tasks
  <2>4. CASE Waited
    BY <2>4 DEF Waited, ResetGood, RightReset, Clients, Tasks
  <2> QED
    BY <1>6, <2>1, <2>2, <2>3, <2>4
<1>7. ASSUME NEW p \in Clients, ResetGood(p), ~p.stale, p.resetter = pc.resetter
      PROVE  ResetGood(WaitOrReset(p)) /\ WaitOrReset(p).resetter \in {pc.resetter, "listen"}
  <2>1. CASE p.resetter # "none"
    BY <1>7, <2>1 DEF WaitOrReset, ResetGood, Clients, Tasks
  <2>2. CASE p.resetter = "none"
    BY <1>7, <2>2, ListenResets DEF WaitOrReset, ResetBegun, Clients
  <2> QED
    BY <2>1, <2>2
<1>8. CASE BenignTlsError
  <2> DEFINE q == [pc EXCEPT !.errors["connection"] = 0]
  <2>1. q \in Clients /\ ResetGood(q) /\ ~q.stale /\ q.resetter = pc.resetter
    <3>1. 0 \in 0 .. Abort
      BY FcmPushClientAssumption
    <3> QED
      BY <1>8, <3>1 DEF BenignTlsError, ReadRaises, ResetGood, Clients, ErrorTypes
  <2>2. pc' = WaitOrReset(q) /\ ~pc.stale
    BY <1>8 DEF BenignTlsError, ReadRaises
  <2> HIDE DEF q
  <2> QED
    BY <1>7, <2>1, <2>2 DEF RightReset
<1>9. CASE CleanEof
  <2> DEFINE q == Counted(pc, "connection")
  <2>1. q \in Clients /\ ResetGood(q) /\ ~q.stale /\ q.resetter = pc.resetter
    BY <1>9, CountedReset DEF CleanEof, ReadRaises, ErrorTypes
  <2>2. pc' = Strike(pc, "connection", WaitOrReset(q)) /\ ~pc.stale
    BY <1>9 DEF CleanEof, ReadRaises
  <2> HIDE DEF q
  <2>3. ResetGood(WaitOrReset(q)) /\ WaitOrReset(q).resetter \in {pc.resetter, "listen"}
    BY <1>7, <2>1
  <2> QED
    BY <2>2, <2>3, StrikeReset DEF RightReset, ErrorTypes
<1>10. CASE UnexpectedError
  BY <1>1, <1>10 DEF UnexpectedError, ReadRaises, ErrorTypes
<1> QED
  BY <1>2, <1>3, <1>4, <1>5, <1>6, <1>8, <1>9, <1>10 DEF Listening

\* What the monitor does, and the network.
LEMMA MonitoringResets ==
    ASSUME pc \in Clients, ResetGood(pc), Monitoring \/ LinkLost \/ LinkMutes
    PROVE  ResetGood(pc') /\ RightReset(pc, pc')
<1>1. CASE Ping \/ PingFails
  <2>1. CASE Ping
    BY <2>1 DEF Ping, ResetGood, RightReset, Clients, Tasks
  <2>2. CASE PingFails
    BY <2>2 DEF PingFails, ResetGood, RightReset, Clients, Tasks
  <2> QED
    BY <1>1, <2>1, <2>2
<1>2. CASE LinkLost \/ LinkMutes
  <2>1. pc'.at = pc.at /\ pc'.stale = pc.stale /\ pc'.resetter = pc.resetter
    BY <1>2 DEF LinkLost, LinkMutes, Clients
  <2> QED
    BY <2>1 DEF ResetGood, RightReset, Clients, Tasks
<1>3. CASE Pong
  <2> DEFINE q == [pc EXCEPT !.at["monitor"] = "asleep"]
  <2>1. /\ q \in Clients /\ ResetGood(q) /\ q.at["monitor"] = "asleep"
        /\ q.resetter = pc.resetter
    BY <1>3 DEF Pong, ResetGood, Clients, Points, Tasks
  <2>2. pc' = IF StillSilent THEN ResetBegun(q, "monitor") ELSE q
    BY <1>3 DEF Pong
  <2> QED
    BY <2>1, <2>2, MonitorResets DEF RightReset, StillSilent
<1> QED
  BY <1>1, <1>2, <1>3 DEF Monitoring

\* What every step of the receiver keeps.
ResetInv == ResetGood(pc)

LEMMA ResetInvInductive ==
    FcmInv /\ ResetInv /\ [Next]_vars => ResetInv' /\ RightReset(pc, pc')
<1> SUFFICES ASSUME FcmInv, ResetGood(pc), [Next]_vars
             PROVE  ResetGood(pc') /\ RightReset(pc, pc')
  BY DEF ResetInv
<1>0. pc \in Clients
  BY DEF FcmInv, ClientGood
<1>1. CASE pc' = pc
  BY <1>1 DEF RightReset
<1>2. CASE pc' = Quiet(pc)
  BY <1>0, <1>2, QuietResets DEF RightReset
<1>3. CASE pc' = Stopped(pc) \/ pc' = Started(pc)
  <2>1. pc'.resetter \in {pc.resetter, "none"}
    BY <1>0, <1>3 DEF Stopped, Started, Quiet, Clients
  <2> QED
    BY <1>0, <1>3, <2>1, StoppedStartedReset DEF RightReset
<1>4. CASE ClientStep
  BY <1>0, <1>4, ConnectingResets, ListeningResets, MonitoringResets DEF ClientStep
<1> QED
  BY <1>1, <1>2, <1>3, <1>4
     DEF Next, CallerStep, Ask, Look, Enter, Teardown, Registered, RegisterFails, StartRuns,
         vars

LEMMA ResetInvHolds == Spec => [](FcmInv /\ ResetInv)
<1>1. Init => ResetInv
  BY DEF Init, ClientInit, ResetInv, ResetGood, Tasks
<1> QED
  BY <1>1, FcmInvHolds, ResetInvInductive, PTL DEF Spec

\* A reset closes the connection whose failure was seen, never its successor, in
\* every interleaving of the two tasks, for any number of retries and errors.
THEOREM ResetsWhatFailedHolds == Spec => ResetsWhatFailed
<1>1. FcmInv /\ ResetInv /\ [Next]_vars =>
        [pc.resetter = "none" =>
            /\ pc'.resetter = "listen" => ~pc.stale
            /\ pc'.resetter = "monitor" => ~pc.heard]_pc
  BY ResetInvInductive DEF RightReset
<1> QED
  BY <1>1, ResetInvHolds, PTL DEF Spec, ResetsWhatFailed

-----------------------------------------------------------------------------
(* The conversation that registers it.                                     *)

\* What a request of a thread that registers may do to the receiver: nothing, or
\* what the receiver knows as the end of a registration.
Outcome(c) == UNCHANGED vars \/ RegisterFails(c) \/ Registered(c)

\* Whoever makes a request is a thread that registers, and it ends in an outcome.
LEMMA TalkIsRegistration ==
    ASSUME NEW c \in Callers,
           \/ Begin(c) \/ LooksUp(c) \/ Fails(c)
           \/ \E request \in Requests : Succeeds(c, request)
    PROVE  caller[c] = "registering" /\ Outcome(c)
BY DEF Begin, Fails, Succeeds, TryAgain, CheckInFails, CheckInEmpty, CheckInUnusable,
       RequestFails, FcmRegisterFails, ChecksIn, Proceeds, Publishes, LooksUp, GivesUp,
       IsTalking, Outcome

LEMMA PushStepOfReceiver == [PushNext]_pushVars => [Next]_vars
<1> SUFFICES ASSUME [PushNext]_pushVars
             PROVE  [Next]_vars
  OBVIOUS
<1>1. CASE UNCHANGED pushVars
  BY <1>1 DEF pushVars
<1>2. CASE ReceiverStep
  BY <1>2 DEF ReceiverStep, Next, CallerStep
<1>3. ASSUME NEW c \in Callers,
             \/ Begin(c) \/ LooksUp(c) \/ Fails(c)
             \/ \E request \in Requests : Succeeds(c, request)
      PROVE  [Next]_vars
  BY <1>3, TalkIsRegistration DEF Outcome, Next, CallerStep
<1> QED
  BY <1>1, <1>2, <1>3 DEF PushNext, Converse

\* The five requests, with all their tries and refusals, are a registration as
\* FcmReceiver knows it: its properties hold with them.
THEOREM ImplementsReceiverHolds == PushSpec => ImplementsReceiver
<1>1. PushInit => Init
  BY DEF PushInit
<1> QED
  BY <1>1, PushStepOfReceiver, PTL DEF PushSpec, Spec, ImplementsReceiver

\* So they do for the push client: no task of a dead one is left, starts are
\* alone, resets hit what failed.
THEOREM RegisteredClientIsSafe ==
    PushSpec => []DeadMeansOver /\ StartsOnQuietClient /\ ResetsWhatFailed
BY ImplementsReceiverHolds, DeadMeansOverHolds, StartsAreAlone, ResetsWhatFailedHolds, PTL
   DEF ImplementsReceiver

\* Each request is tried at most as often as it may be, in a conversation and in
\* the one that follows it.
TalkInv ==
    /\ RegistrationTypeOK
    /\ talk.at \in Requests => talk.tries < TriesOf(talk.at)

LEMMA TalkInvInductive == TalkInv /\ [PushNext]_pushVars => TalkInv'
<1> SUFFICES ASSUME TalkInv, [PushNext]_pushVars
             PROVE  TalkInv'
  OBVIOUS
<1> USE TriesAssumption DEF TalkInv, RegistrationTypeOK, Requests, TriesOf, Idle, Asking
<1>1. CASE UNCHANGED registrationVars
  BY <1>1 DEF registrationVars
<1>2. ASSUME NEW c \in Callers, Begin(c)
      PROVE  TalkInv'
  BY <1>2 DEF Begin
<1>3. ASSUME NEW c \in Callers, NEW request \in Requests, TryAgain(c, request)
      PROVE  TalkInv'
  BY <1>3 DEF TryAgain, IsLastTry, IsTalking
<1>4. ASSUME NEW c \in Callers,
             CheckInFails(c) \/ CheckInEmpty(c)
      PROVE  TalkInv'
  BY <1>4 DEF CheckInFails, CheckInEmpty
<1>5. ASSUME NEW c \in Callers,
             CheckInUnusable(c) \/ RequestFails(c) \/ FcmRegisterFails(c)
      PROVE  TalkInv'
  BY <1>5 DEF CheckInUnusable, RequestFails, FcmRegisterFails, Publishes, GivesUp
<1>5a. ASSUME NEW c \in Callers, LooksUp(c)
      PROVE  TalkInv'
  BY <1>5a DEF LooksUp, GivesUp
<1>6. ASSUME NEW c \in Callers, NEW request \in Requests, Succeeds(c, request)
      PROVE  TalkInv'
  BY <1>6 DEF Succeeds, ChecksIn, Proceeds, Publishes
<1> QED
  BY <1>1, <1>2, <1>3, <1>4, <1>5, <1>5a, <1>6
     DEF PushNext, Converse, pushVars, ReceiverStep, Fails

\* Requests are tried as often as fcmregister.py says, in every conversation.
THEOREM TriesAreBounded == PushSpec => []TalkInv
<1>1. PushInit => TalkInv
  BY TriesAssumption DEF PushInit, TalkInv, RegistrationTypeOK, Idle, Requests
<1> QED
  BY <1>1, TalkInvInductive, PTL DEF PushSpec

\* A client without tasks that is dead stays dead but for a start.
LEMMA DeadStaysDead ==
    ASSUME FcmInv, Dead,
           \/ UNCHANGED pc \/ pc' = Quiet(pc) \/ pc' = Stopped(pc)
           \/ ClientStep
    PROVE  Dead'
<1>0. pc \in Clients /\ AllEnded(pc)
  BY DEF FcmInv, ClientGood, Dead, DeadRun
<1>1. CASE UNCHANGED pc
  BY <1>1 DEF Dead
<1>2. CASE pc' = Quiet(pc)
  BY <1>0, <1>2 DEF Dead, Quiet, Clients
<1>3. CASE pc' = Stopped(pc)
  BY <1>3 DEF Dead, Stopped
<1>4. CASE LinkLost \/ LinkMutes
  BY <1>0, <1>4 DEF LinkLost, LinkMutes, Dead, Clients
<1> QED
  BY <1>0, <1>1, <1>2, <1>3, <1>4, ConnectingGood, ListeningGood, MonitoringGood
     DEF FcmInv, ClientStep

\* stop() leaves a dead client.
LEMMA StoppedIsDead ==
    ASSUME pc \in Clients, pc' = Stopped(pc)
    PROVE  Dead'
BY DEF Dead, Stopped, Quiet, Clients

\* The thread that made the last request stays where it is while others run.
LEMMA LookupStays ==
    ASSUME FcmInv, ReceiverStep, \E c \in Callers : IsTalking(c, "lookup")
    PROVE  \E c \in Callers : IsTalking(c, "lookup")'
<1>1. PICK c \in Callers : IsTalking(c, "lookup")
  OBVIOUS
<1>2. caller'[c] = "registering" /\ talk' = talk
  BY <1>1 DEF ReceiverStep, registrationVars, receiverVars, IsTalking, Ask, Look, Enter,
              Teardown, StartRuns, FcmInv, FcmTypeOK
<1> QED
  BY <1>1, <1>2 DEF IsTalking

LEMMA TokenInductive == FcmInv /\ ListenerHasToken /\ [PushNext]_pushVars => ListenerHasToken'
<1> SUFFICES ASSUME FcmInv, ListenerHasToken, [PushNext]_pushVars
             PROVE  ListenerHasToken'
  OBVIOUS
<1> DEFINE Runs == pending \/ ~AllEnded(pc)
           Looking == \E c \in Callers : IsTalking(c, "lookup")
<1>0. pc \in Clients
  BY DEF FcmInv, ClientGood
<1>a. (Runs => creds = "full") /\ (Healthy /\ creds # "full" => Looking)
  BY DEF ListenerHasToken, AllEnded
<1>b. SUFFICES (Runs => creds = "full")' /\ (Healthy /\ creds # "full" => Looking)'
  BY DEF ListenerHasToken, AllEnded
<1>1. CASE UNCHANGED pushVars
  BY <1>1, <1>a
     DEF pushVars, vars, receiverVars, registrationVars, Dead, Healthy, IsTalking, AllEnded
<1>2. CASE ReceiverStep
  <2>1. creds' = creds /\ listening' = listening /\ (pending' => pending)
    BY <1>2 DEF ReceiverStep, registrationVars, receiverVars, Ask, Look, Enter, Teardown, StartRuns
  <2>2. CASE StartRuns
    BY <1>a, <2>1, <2>2 DEF StartRuns
  <2>3. CASE ~StartRuns
    <3>1. UNCHANGED pc \/ pc' = Quiet(pc) \/ ClientStep
      BY <1>2, <2>3 DEF ReceiverStep, Ask, Look, Enter, Teardown
    <3>2. Dead => Dead'
      BY <3>1, DeadStaysDead
    <3>3. AllEnded(pc) => AllEnded(pc')
      BY <1>0, <3>1, QuietEnds, ClientStepGood DEF FcmInv
    <3>4. Healthy' => Healthy
      BY <2>1, <3>2 DEF Healthy
    <3>5. Looking => Looking'
      BY <1>2, LookupStays
    <3> QED
      BY <1>a, <2>1, <3>3, <3>4, <3>5
  <2> QED
    BY <2>2, <2>3
<1>3. ASSUME NEW c \in Callers,
             \/ Begin(c) \/ LooksUp(c) \/ Fails(c)
             \/ \E request \in Requests : Succeeds(c, request)
      PROVE  (Runs => creds = "full")' /\ (Healthy /\ creds # "full" => Looking)'
  <2>1. caller[c] = "registering" /\ ~pending /\ AllEnded(pc)
    BY <1>3, TalkIsRegistration DEF FcmInv, StartInv
  <2>2. CASE UNCHANGED <<vars, creds>> /\ talk.at # "lookup"
    BY <1>a, <2>1, <2>2 DEF vars, receiverVars, Dead, Healthy, IsTalking
  <2>3. CASE Publishes(c, "half") \/ Publishes(c, "full")
    <3>1. UNCHANGED vars /\ IsTalking(c, "lookup")'
      BY <2>1, <2>3 DEF Publishes, IsTalking, Asking, vars, receiverVars
    <3> QED
      BY <2>1, <3>1 DEF vars, receiverVars
  <2>4. CASE RegisterFails(c)
    <3>1. Dead' /\ ~pending'
      BY <1>0, <2>1, <2>4, StoppedIsDead DEF RegisterFails, receiverVars
    <3>2. AllEnded(pc')
      BY <2>1, <2>4, StoppedGood DEF FcmInv, RegisterFails
    <3> QED
      BY <3>1, <3>2 DEF Healthy
  <2>5. CASE Registered(c) /\ creds' = "full"
    BY <2>5
  <2> QED
    BY <1>3, <2>2, <2>3, <2>4, <2>5
       DEF Begin, Fails, Succeeds, TryAgain, CheckInFails, CheckInEmpty, CheckInUnusable,
           RequestFails, FcmRegisterFails, ChecksIn, Proceeds, LooksUp, GivesUp, HasToken,
           IsTalking, Requests
<1> QED
  BY <1>1, <1>2, <1>3 DEF PushNext, Converse

\* A listener that runs or is about to has a token to give, whatever was on file and
\* however registrations fail and the client dies; and a receiver that is taken for
\* listening lacks one only between the last request of a registration and its end.
THEOREM ListenerHasTokenHolds == PushSpec => []ListenerHasToken
<1>1. PushInit => ListenerHasToken
  BY DEF PushInit, Init, ClientInit, ListenerHasToken, Healthy
<1>2. PushSpec => []FcmInv
  BY ImplementsReceiverHolds, FcmInvHolds, PTL DEF ImplementsReceiver
<1> QED
  BY <1>1, <1>2, TokenInductive, PTL DEF PushSpec
=============================================================================
