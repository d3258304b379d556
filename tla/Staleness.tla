----------------------------- MODULE Staleness -----------------------------
(***************************************************************************)
(* The alert that a device has not been seen for too long, and the notice  *)
(* that it is back: webui/staleness.py, run by a sweep over the devices    *)
(* without endpoints and by the polls of the others.                       *)
(*                                                                         *)
(* One device: they share nothing.  Times are ages, that grow up to Cap    *)
(* and stay there, so that time need not end.                              *)
(***************************************************************************)
EXTENDS Integers, FiniteSetsExt

CONSTANTS
    Thresholds, Repeats,    \* the durations that the form offers
    SweepInterval,          \* STALENESS_SWEEP_INTERVAL_S
    Cap,                    \* bound: ages are not told apart from here on
    None

ASSUME StalenessAssumption ==
    /\ SweepInterval \in Nat \ {0} /\ Cap \in Nat
    /\ \A t \in Thresholds \union Repeats : t \in 1 .. Cap - 1
    /\ None \notin 0..Cap

VARIABLES
    list,       \* the age of the newest of the stored readings
    mark,       \* newest_fix_time, that entries of old do not have
    best,       \* what is true: the age of the newest reading ever received
    cfg,        \* the staleness sub-key but for the streak: what the form shows
    alert,      \* alert_active, last_alert_sent_at
    endpoints,  \* of the device: unsaved (no settings at all), none, or polled
    poll,       \* the device's poll task: off, asleep or locating
    sweepIn,    \* when the sweep is next due
    notice,     \* what the last step sent
    quiet       \* since when the last alert stands, if nothing intervened

readings == <<list, mark, best>>
tasks == <<endpoints, poll, sweepIn>>
vars == <<readings, cfg, alert, tasks, notice, quiet>>

Ages == 0..Cap
MaybeAge == Ages \union {None}

\* The youngest of some ages; those that are None do not count.
Youngest(ages) == IF ages \subseteq {None} THEN None ELSE Min(ages \ {None})

Older(age) == IF age = None THEN None ELSE Min({age + 1, Cap})

\* default_staleness()
Default == [enabled |-> FALSE, muted |-> FALSE, threshold |-> None, repeat |-> None]
NoStreak == [active |-> FALSE, sent |-> None]

StalenessTypeOK ==
    /\ {list, mark, best, quiet} \subseteq MaybeAge
    /\ cfg \in [enabled : BOOLEAN, muted : BOOLEAN, threshold : Thresholds \union {None},
                repeat : Repeats \union {None}]
    /\ alert \in [active : BOOLEAN, sent : MaybeAge]
    /\ endpoints \in {"unsaved", "none", "polled"}
    /\ poll \in {"off", "asleep", "locating"} /\ (poll # "off" <=> endpoints = "polled")
    /\ sweepIn \in 0..SweepInterval
    /\ notice \in {"none", "alert", "recovered"}

Init ==
    /\ list \in MaybeAge /\ mark = None /\ best = list
    /\ cfg = Default /\ alert = NoStreak
    /\ endpoints \in {"unsaved", "none", "polled"}
    /\ poll = IF endpoints = "polled" THEN "asleep" ELSE "off"
    /\ sweepIn = 0
    /\ notice = "none" /\ quiet = None

(***************************************************************************)
(* Readings.                                                               *)
(***************************************************************************)
\* get_newest_fix_time()
Newest(stored, high) == Youngest({stored, high})

\* A plausible slip: the mark only knows the response at hand.
MarkOfResponse(stored, high, age) == age

\* set_last_location() never lets newest_fix_time go back.
MarkWith(stored, high, age) == Youngest({stored, high, age})

\* A response whose newest reading has this age, or that has none with a time; it
\* replaces the stored ones.
Received(age) ==
    /\ list' = age
    /\ mark' = MarkWith(list, mark, age)
    /\ best' = Youngest({best, age})

(***************************************************************************)
(* check_device(), with the newest reading as it now is.                   *)
(***************************************************************************)
IsStale(age) == cfg.enabled /\ cfg.threshold # None /\ age # None /\ age > cfg.threshold

MayRepeat(streak) == cfg.repeat # None /\ (streak.sent = None \/ streak.sent >= cfg.repeat)

ShouldFire(streak) == ~streak.active \/ MayRepeat(streak)

\* A plausible slip: a repeated alert does not count as sent.
AlertsAgain ==
    /\ alert' = [active |-> TRUE, sent |-> IF alert.active THEN alert.sent ELSE 0]
    /\ notice' = "alert" /\ quiet' = 0

Sends ==
    /\ alert' = [active |-> TRUE, sent |-> 0]
    /\ notice' = "alert" /\ quiet' = 0

Recovers ==
    /\ alert' = NoStreak
    /\ notice' = "recovered" /\ quiet' = None

SaysNothing == notice' = "none" /\ UNCHANGED <<alert, quiet>>

CheckDevice(age) ==
    IF ~cfg.enabled \/ cfg.muted THEN SaysNothing
    ELSE IF IsStale(age) THEN IF ShouldFire(alert) THEN Sends ELSE SaysNothing
    ELSE IF alert.active THEN Recovers ELSE SaysNothing

(***************************************************************************)
(* The sweep, the poll and the pages.                                      *)
(***************************************************************************)
\* A plausible slip: devices with endpoints are the ones that are swept.
IsSweptIfPolled == endpoints = "polled"

\* all_devices() has the devices with settings; those with endpoints are left to polls.
IsSwept == endpoints = "none"

SweepOnce ==
    /\ sweepIn = 0
    /\ sweepIn' = SweepInterval
    /\ IF IsSwept THEN CheckDevice(Newest(list, mark)) ELSE SaysNothing
    /\ UNCHANGED <<readings, cfg, endpoints, poll>>

\* The next time of a schedule has come.
PollWakes ==
    /\ poll = "asleep"
    /\ poll' = "locating"
    /\ SaysNothing
    /\ UNCHANGED <<readings, cfg, endpoints, sweepIn>>

\* The poll has an answer, or none, and ends its tick with check_device().
PollChecks ==
    /\ poll = "locating"
    /\ poll' = "asleep"
    /\ \/ /\ UNCHANGED readings
          /\ CheckDevice(Newest(list, mark))
       \/ \E age \in MaybeAge :
            /\ Received(age)
            /\ CheckDevice(Newest(age, MarkWith(list, mark, age)))
    /\ UNCHANGED <<cfg, endpoints, sweepIn>>

\* A locate from the page, or one that a poll shares with it.
Locate ==
    /\ \E age \in MaybeAge : Received(age)
    /\ SaysNothing
    /\ UNCHANGED <<cfg, tasks>>

\* update_device_staleness(): what is disabled or muted has no streak.
SaveAlerts(new) ==
    /\ cfg' = new
    /\ alert' = IF ~new.enabled \/ new.muted THEN NoStreak ELSE alert
    /\ notice' = "none" /\ quiet' = None
    /\ UNCHANGED <<readings, tasks>>

\* update_device_settings() and its YAML twin, and restart_device() after them.
SaveSettings(saved) ==
    /\ endpoints' = saved
    /\ poll' = IF saved = "polled" THEN "asleep" ELSE "off"
    /\ SaysNothing
    /\ UNCHANGED <<readings, cfg, sweepIn>>

\* The streak is on file; the sweep and the polls begin anew.
Restart ==
    /\ sweepIn' = 0
    /\ poll' = IF endpoints = "polled" THEN "asleep" ELSE "off"
    /\ SaysNothing
    /\ UNCHANGED <<readings, cfg, endpoints>>

Tick ==
    /\ list' = Older(list) /\ mark' = Older(mark) /\ best' = Older(best)
    /\ alert' = [alert EXCEPT !.sent = Older(@)]
    /\ quiet' = Older(quiet)
    /\ sweepIn' = Max({0, sweepIn - 1})
    /\ notice' = "none"
    /\ UNCHANGED <<cfg, endpoints, poll>>

AnySave ==
    \/ \E new \in [enabled : BOOLEAN, muted : BOOLEAN, threshold : Thresholds \union {None},
                   repeat : Repeats \union {None}] : SaveAlerts(new)
    \/ \E saved \in {"none", "polled"} : SaveSettings(saved)

Next == SweepOnce \/ PollWakes \/ PollChecks \/ Locate \/ AnySave \/ Restart \/ Tick

Spec == Init /\ [][Next]_vars

\* Both loops go on for ever: asyncio resumes a task whose sleep or request is over.
FairSpec ==
    /\ Spec
    /\ WF_vars(SweepOnce) /\ WF_vars(PollWakes) /\ WF_vars(PollChecks) /\ WF_vars(Tick)

(***************************************************************************)
(* Properties.                                                             *)
(***************************************************************************)
\* An alert is only sent when no reading that was ever received is younger than the
\* threshold, although each response replaces the stored readings and responses come in
\* any order (device_location_store.py: "so one of those responses can't flip a device
\* to stale").
AlertsAreTrue ==
    [][notice' = "alert" => best' > cfg.threshold]_vars

\* While nobody saves anything and the device is not back, alerts are at least the chosen
\* time apart, or not repeated at all, over restarts, and with polls and sweeps taking
\* over from each other.
RepeatsAreSpaced ==
    [][notice' = "alert" /\ quiet # None => cfg.repeat # None /\ quiet >= cfg.repeat]_vars

\* The device is known to be stale, and nobody was told.
Unsaid(saved) ==
    /\ endpoints \in saved
    /\ IsStale(Newest(list, mark)) /\ ~cfg.muted
    /\ ~alert.active

\* A device with settings that stays stale is told about, whether the sweep or a poll
\* watches it, unless its settings are saved over and over or it restarts for ever.
StaleIsAlerted ==
    \/ []<>~Unsaid({"none"}) /\ []<>~Unsaid({"polled"})
    \/ []<><<AnySave \/ Restart>>_vars

\* sweep_once(): "One pass over every device with no forwarding endpoints configured -
\* the only ones left uncovered": any other is polled, so each stale one is told about.
EveryStaleDeviceIsAlerted ==
    \/ []<>~Unsaid({"none", "unsaved"}) /\ []<>~Unsaid({"polled"})
    \/ []<><<AnySave \/ Restart>>_vars
=============================================================================
