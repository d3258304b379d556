----------------------------- MODULE Forwarding -----------------------------
(***************************************************************************)
(* Forwarding the locations of one device (webui/scheduler.py and          *)
(* webui/forwarders/policy.py): its poll task, "send now", the manual      *)
(* locate, saves of its endpoints and restarts of the process.             *)
(*                                                                         *)
(* All but the HTTP requests runs on the event loop, so a step is what a   *)
(* coroutine does between two awaits; the requests run on worker threads,  *)
(* which no cancellation stops.  An endpoint is known by its URL.          *)
(***************************************************************************)
EXTENDS DeviceLocations

CONSTANTS
    Endpoints,      \* the URLs, in the order of the endpoint list: numbers
    Unlocated,      \* readings without coordinates
    RawOf,          \* a reading as it is without the semantic location mapping
    SeenGate,       \* endpoints with skip_if_already_seen
    RecentGate,     \* endpoints with only_most_recent
    CloseGate,      \* endpoints with skip_if_close
    Near,           \* pairs of readings closer than min_movement_m
    StaleGate,      \* endpoints with skip_if_stale
    SameFix,        \* pairs of readings within min_update_gap_m of each other
    Filtered,       \* <<endpoint, reading>>: status, own-report and accuracy filters
    Attempts,       \* _LOCATE_RETRY_ATTEMPTS
    Configs,        \* the endpoint lists that are saved
    MaxWire,        \* bound on the requests that outlive their task
    MaxActs,        \* bound on the clicks, manual locates, saves and restarts
    NoReading, NoResult

ASSUME ForwardingAssumption ==
    /\ Endpoints \subseteq Nat
    /\ IsFiniteSet(Endpoints)
    /\ SeenGate \subseteq Endpoints
    /\ Unlocated \subseteq Readings
    /\ RawOf \in [Readings -> Readings]
    /\ Attempts \in Nat \ {0}
    /\ Configs \subseteq SUBSET Endpoints
    /\ MaxWire \in Nat
    /\ MaxActs \in Nat
    /\ NoReading \notin Readings
    /\ NoResult \notin Readings \union {NoReading}

VARIABLES
    config,     \* the endpoints of the device
    state,      \* endpoint_state on disk
    tick,       \* the poll task
    click,      \* a send_now request
    wire,       \* requests on threads whose task is gone
    acts,       \* the clicks, manual locates, saves and restarts so far
    taken,      \* the readings each destination has accepted (history)
    polled      \* the readings on file that polls have sent those with SeenGate (history)

history == <<taken, polled>>
vars == <<stored, newest, config, state, tick, click, wire, acts, taken, polled>>

\* The state of an endpoint: the reading that last_sent_lat, last_sent_lon and
\* last_sent_fix_time are of.  last_forward_status and _time are only shown, and
\* consecutive_failures only decides when a failure is logged.
States == Readings \union {NoReading}

\* A poll task: `mine` is the endpoint list it read when it went to sleep,
\* `left` what is still to do of the due endpoints for reading `turn` of
\* `batch`, `old` the already_seen flags, `merged` what the request under way
\* was given, `results` what is to be recorded.
Ticks == [at : {"none", "asleep", "locating", "forwarding", "sending"},
          mine : SUBSET Endpoints, due : SUBSET Endpoints, attempt : 0 .. Attempts - 1,
          batch : Batches \union {<<>>}, old : SUBSET Nat, turn : Nat,
          left : SUBSET Endpoints, merged : States,
          results : [Endpoints -> States \union {NoResult}]]

NoTick == [at |-> "none", mine |-> {}, due |-> {}, attempt |-> 0, batch |-> <<>>, old |-> {},
           turn |-> 0, left |-> {}, merged |-> NoReading, results |-> [e \in Endpoints |-> NoResult]]

Asleep(mine) == IF mine = {} THEN NoTick ELSE [NoTick EXCEPT !.at = "asleep", !.mine = mine]

Clicks == [at : {"none", "locating", "forwarding", "sending"}, on : Endpoints \union {0},
           batch : Seq(Readings), merged : States]

NoClick == [at |-> "none", on |-> 0, batch |-> <<>>, merged |-> NoReading]

ForwardingTypeOK ==
    /\ LocationTypeOK
    /\ config \subseteq Endpoints
    /\ state \in [Endpoints -> States]
    /\ tick \in Ticks
    /\ click \in Clicks
    /\ wire \subseteq Endpoints \X Readings
    /\ acts \in 0 .. MaxActs
    /\ taken \in [Endpoints -> SUBSET Readings]
    /\ polled \in [SeenGate -> SUBSET Readings]

Init ==
    /\ LocationInit
    /\ config \in Configs
    /\ state = [e \in Endpoints |-> NoReading]
    /\ tick = Asleep(config)
    /\ click = NoClick
    /\ wire = {}
    /\ acts = 0
    /\ taken = [e \in Endpoints |-> {}]
    /\ polled = [e \in SeenGate |-> {}]

\* Somebody does something other than the poll.
Act == acts < MaxActs /\ acts' = acts + 1

First(S) == CHOOSE e \in S : \A f \in S : e <= f

-----------------------------------------------------------------------------
(* The policy.                                                             *)

TooClose(e, r, sent) == e \in CloseGate /\ sent # NoReading /\ <<sent, r>> \in Near

\* Unless the fix is fresh, which is a matter of the clock.
StaleDuplicate(e, r, sent) == e \in StaleGate /\ sent # NoReading /\ <<sent, r>> \in SameFix

\* What _forward_one() decides before any request: it must skip, or it may.
MustSkip(e, r, sent, isOld, isRecent) ==
    \/ isOld /\ e \in SeenGate
    \/ ~isRecent /\ e \in RecentGate
    \/ r \notin Unlocated /\ TooClose(e, r, sent)
    \/ <<e, r>> \in Filtered
    \/ r \in Unlocated

MaySkip(e, r, sent, isOld, isRecent) ==
    MustSkip(e, r, sent, isOld, isRecent) \/ StaleDuplicate(e, r, sent)

\* A mistaken Recorded: the reading of a failed attempt is taken for sent.
RecordedAttempt(sent, status, r) == IF status = "skipped" THEN sent ELSE r

\* _record_forward_result()
Recorded(sent, status, r) == IF status = "ok" THEN r ELSE sent

\* The destination answers a request: with success, or with an error, or not
\* at all, whether or not it took the reading.
Answer(e, r, status) ==
    /\ status \in {"ok", "error"}
    /\ \/ taken' = [taken EXCEPT ![e] = @ \union {r}]
       \/ status = "error" /\ UNCHANGED taken
    /\ UNCHANGED polled

-----------------------------------------------------------------------------
(* The poll task.                                                          *)

\* The next cron time comes: some of the endpoints are due.
Wake ==
    /\ tick.at = "asleep"
    /\ \E due \in (SUBSET tick.mine) \ {{}} :
          tick' = [tick EXCEPT !.at = "locating", !.due = due]
    /\ UNCHANGED <<locationVars, config, state, click, wire, acts, history>>

\* A mistaken RetryLocate: the attempts are counted from the start again.
RetryStartingOver ==
    /\ tick.at = "locating"
    /\ tick' = [tick EXCEPT !.attempt = (@ + 1) % Attempts]
    /\ UNCHANGED <<locationVars, config, state, click, wire, acts, history>>

\* A locate raises, and _locate_with_retries() tries again.
RetryLocate ==
    /\ tick.at = "locating"
    /\ tick.attempt < Attempts - 1
    /\ tick' = [tick EXCEPT !.attempt = @ + 1]
    /\ UNCHANGED <<locationVars, config, state, click, wire, acts, history>>

\* The locate returns; or raised for the last time, or nobody is logged in,
\* and then there is nothing to forward.
Located ==
    /\ tick.at = "locating"
    /\ \E batch \in Batches \union {<<>>} :
          /\ KeepLocations(batch)
          /\ tick' = [tick EXCEPT
                !.at = "forwarding", !.batch = batch, !.turn = 1, !.left = tick.due,
                !.attempt = 0, !.old = {i \in 1 .. Len(batch) : ~IsNew(batch, i)}]
          /\ polled' = IF batch = <<>> THEN polled
                       ELSE [e \in SeenGate |-> polled[e] \intersect ReadingsOf(batch)]
    /\ UNCHANGED <<config, state, click, wire, acts, taken>>

Reading == tick.batch[tick.turn]
Due == First(tick.left)

\* The rest of the loop over readings and due endpoints once the one at hand
\* has its result.
Advance(result) ==
    LET left == tick.left \ {Due} IN
    tick' = [tick EXCEPT
        !.at = "forwarding",
        !.results[Due] = result,
        !.merged = NoReading,
        !.turn = IF left = {} THEN @ + 1 ELSE @,
        !.left = IF left = {} THEN tick.due ELSE left]

Forwards == tick.at = "forwarding" /\ tick.turn <= Len(tick.batch)

IsOld == tick.turn \in tick.old
IsRecent == IsMostRecent(tick.batch, tick.turn)

\* A gate holds the reading back from the endpoint.
Skip ==
    /\ Forwards
    /\ MaySkip(Due, Reading, state[Due], IsOld, IsRecent)
    /\ Advance(Recorded(state[Due], "skipped", Reading))
    /\ UNCHANGED <<locationVars, config, state, click, wire, acts, history>>

\* It passes the gates, and its request goes out on a thread.
Send ==
    /\ Forwards
    /\ ~MustSkip(Due, Reading, state[Due], IsOld, IsRecent)
    /\ tick' = [tick EXCEPT !.at = "sending", !.merged = state[Due]]
    /\ polled' = [e \in SeenGate |->
          polled[e] \union {r \in {Reading} \intersect stored : e = Due}]
    /\ UNCHANGED <<locationVars, config, state, click, wire, acts, taken>>

Sent ==
    /\ tick.at = "sending"
    /\ \E status \in {"ok", "error"} :
          /\ Answer(Due, Reading, status)
          /\ Advance(Recorded(tick.merged, status, Reading))
    /\ UNCHANGED <<locationVars, config, state, click, wire, acts>>

\* Every due endpoint's last result is recorded, on the state its request was
\* given, and the task sleeps until the next cron time of the configuration.
Record ==
    /\ tick.at = "forwarding"
    /\ tick.turn > Len(tick.batch)
    /\ state' = [e \in Endpoints |->
          IF tick.results[e] = NoResult THEN state[e] ELSE tick.results[e]]
    /\ tick' = Asleep(config)
    /\ UNCHANGED <<locationVars, config, click, wire, acts, history>>

\* What a poll does once it is awake.
PollOn == RetryLocate \/ Located \/ Skip \/ Send \/ Sent \/ Record

-----------------------------------------------------------------------------
(* forward_now(): one endpoint, no gates, nothing put on file.             *)

Click(e) ==
    /\ Act
    /\ click.at = "none"
    /\ e \in config
    /\ click' = [NoClick EXCEPT !.at = "locating", !.on = e, !.merged = state[e]]
    /\ UNCHANGED <<locationVars, config, state, tick, wire, history>>

\* The locate returns, or raises.
ClickLocated ==
    /\ click.at = "locating"
    /\ \E batch \in Batches \union {<<>>} :
          click' = [click EXCEPT !.at = "forwarding", !.batch = batch]
    /\ UNCHANGED <<locationVars, config, state, tick, wire, acts, history>>

\* A reading without coordinates is not sent, all others are.
ClickSend ==
    /\ click.at = "forwarding"
    /\ click.batch # <<>>
    /\ click' = IF Head(click.batch) \in Unlocated
                THEN [click EXCEPT !.batch = Tail(@)]
                ELSE [click EXCEPT !.at = "sending"]
    /\ UNCHANGED <<locationVars, config, state, tick, wire, acts, history>>

\* Each result is recorded at once, on the state read at the click.
ClickSent ==
    /\ click.at = "sending"
    /\ \E status \in {"ok", "error"} :
          /\ Answer(click.on, Head(click.batch), status)
          /\ click' = [click EXCEPT
                !.at = "forwarding", !.batch = Tail(@),
                !.merged = Recorded(@, status, Head(click.batch))]
    /\ UNCHANGED <<locationVars, config, state, tick, wire, acts>>

ClickRecord ==
    /\ click.at = "forwarding"
    /\ click.batch = <<>>
    /\ state' = [state EXCEPT ![click.on] = click.merged]
    /\ click' = NoClick
    /\ UNCHANGED <<locationVars, config, tick, wire, acts, history>>

ClickStep ==
    \/ \E e \in Endpoints : Click(e)
    \/ ClickLocated \/ ClickSend \/ ClickSent \/ ClickRecord

-----------------------------------------------------------------------------
(* The rest.                                                               *)

\* The Locate button: its readings are put on file as they came, without the
\* semantic location mapping.
ManualLocate ==
    /\ Act
    /\ \E batch \in Batches \ {<<>>} :
          LET raw == [i \in 1 .. Len(batch) |-> RawOf[batch[i]]] IN
          /\ SetLastLocation(raw)
          /\ polled' = [e \in SeenGate |-> polled[e] \intersect ReadingsOf(raw)]
    /\ UNCHANGED <<config, state, tick, click, wire, taken>>

\* The poll's request that is under way: its thread cannot be cancelled.
PollWire == IF tick.at = "sending" THEN {<<Due, Reading>>} ELSE {}
ClickWire == IF click.at = "sending" THEN {<<click.on, Head(click.batch)>>} ELSE {}

\* A mistaken Restarted: a task that is running is left to run.
RestartedIfIdle(new) == IF tick.at \in {"none", "asleep"} THEN Asleep(new) ELSE tick

\* restart_device(): the task is cancelled, and another one started.
Restarted(new) == Asleep(new)

\* The settings route: set_device_config(), restart_device(), prune_to_urls().
Save(new) ==
    /\ Act
    /\ Cardinality(wire \union PollWire) <= MaxWire
    /\ config' = new
    /\ tick' = Restarted(new)
    /\ wire' = wire \union PollWire
    /\ state' = [e \in Endpoints |-> IF e \in new THEN state[e] ELSE NoReading]
    /\ UNCHANGED <<locationVars, click, history>>

\* The request of a cancelled task ends: nobody records how.
WireSent ==
    /\ \E p \in wire, status \in {"ok", "error"} :
          /\ Answer(p[1], p[2], status)
          /\ wire' = wire \ {p}
    /\ UNCHANGED <<locationVars, config, state, tick, click, acts>>

\* The process ends and starts again: start_all().
Restart ==
    /\ Act
    /\ Cardinality(wire \union PollWire \union ClickWire) <= MaxWire
    /\ tick' = Asleep(config)
    /\ click' = NoClick
    /\ wire' = wire \union PollWire \union ClickWire
    /\ UNCHANGED <<locationVars, config, state, history>>

Next ==
    \/ Wake
    \/ PollOn
    \/ ClickStep
    \/ ManualLocate
    \/ \E new \in Configs : Save(new)
    \/ WireSent
    \/ Restart

Spec == Init /\ [][Next]_vars

\* The event loop runs what is ready.  A locate ends, one way or the other (see
\* Locate), and a request has a timeout.
FairSpec == Spec /\ WF_vars(PollOn)

-----------------------------------------------------------------------------
(* What is expected of it.                                                 *)

\* last_sent_lat, last_sent_lon and last_sent_fix_time are of a reading that the
\* destination accepted: never of one that was skipped, that failed, or that
\* another endpoint was sent, however polls, clicks, saves and restarts
\* interleave (_record_forward_result() on results captured before an await).
RecordIsGrounded ==
    \A e \in Endpoints : state[e] \in taken[e] \union {NoReading}

\* A poll does not send an endpoint with skip_if_already_seen a reading again as
\* long as it stays on file: not when the backend repeats it within a response
\* or from fetch to fetch, not when a manual locate puts it on file again while
\* the poll is under way, not after a save or a restart (_new_this_fetch).
NoRepeatWhileListed ==
    [][Send /\ Due \in SeenGate => Reading \notin polled[Due]]_vars

\* The poll task runs for exactly the endpoints of the configuration, also when
\* it is saved in the middle of a poll (restart_device()).
PollerFollowsConfig ==
    /\ tick.mine = config
    /\ tick.at = "none" <=> config = {}
    /\ tick.due \subseteq config

\* A poll that wakes comes to its end: the retries run out, and every reading
\* is dealt with for every due endpoint.
TickEnds == tick.at \notin {"none", "asleep"} ~> tick.at \in {"none", "asleep"}
=============================================================================
