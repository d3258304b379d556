----------------------------- MODULE EidUpload -----------------------------
(***************************************************************************)
(* The announcement of advertisement identifiers (EIDs) to Google, without *)
(* which it cannot match what phones see to a tracker:                     *)
(*   - trackers whose EID rotates with a clock of their own that nobody    *)
(*     can read: webui/eid_upload.py estimates when that clock read zero   *)
(*     from old reports, and uploads the EIDs around that estimate;        *)
(*   - microcontrollers with one EID, announced at registration and again  *)
(*     whenever the device list is fetched.                                *)
(* Times are in an unit that divides the rotation period.  An EID is known *)
(* by its beacon counter, which is also its timestamp less the pair date.  *)
(***************************************************************************)
EXTENDS Integers, FiniteSets, FiniteSetsExt

CONSTANTS
    Trackers, Mcus,
    Period,         \* ROTATION_PERIOD
    Back,           \* how far before now an upload begins: three hours
    Duration,       \* max_truncated_eid_seconds_server
    Interval,       \* EID_UPLOAD_INTERVAL_S
    Drift,          \* EID_UPLOAD_DRIFT_SLOTS
    SearchSlots,    \* COUNTER_SEARCH_SLOTS
    ZeroTtl,        \* CLOCK_ZERO_TTL_S
    ListTtl,        \* DEVICE_LIST_CACHE_TTL_S
    Clocks,         \* what a tracker's clock may do: at each time, when it would have read
                    \* zero; later as it loses time or starts anew, sooner as it gains
    Biases,         \* by how much the counter in a report may be wrong
    Delay,          \* bound: how long after a sighting it is reported
    Begin, End,     \* bound: when the server is started, and the last moment
    Nothing

Times == 0..End

\* What the loop knows of a tracker's clock: when it read zero, when that was estimated,
\* whether its identity key opened the report; and, as history, when the clock would
\* have read zero if the report had come at once.
Estimates == [zero : Int, at : Nat, keyed : BOOLEAN, shows : Int]

\* An upload with future EIDs: when, and from what estimate.
Uploads == [at : Nat, keyed : BOOLEAN, shows : Int]

ASSUME EidAssumption ==
    /\ Period \in Nat \ {0} /\ Interval \in Nat \ {0}
    /\ {Back, Duration, Drift, SearchSlots, ZeroTtl, ListTtl, Delay, Begin, End} \subseteq Nat
    /\ Clocks \subseteq [Times -> Int] /\ Biases \subseteq Int
    /\ Trackers \intersect Mcus = {}
    /\ Nothing \notin Int /\ Nothing \notin Estimates /\ Nothing \notin Uploads

\* All trackers were paired at time 0.
ASSUME PairedLongAgo == Begin >= Back + Delay /\ Begin <= End

\* The trackers run while the server does.
ASSUME ClocksRun == \A clock \in Clocks, n \in Begin..End : clock[n] <= n

\* How much later than a report shows it an estimate may be, and how much earlier: the
\* counter is rounded down by less than a period, or wrong by less than one, and half a
\* period is taken off.
MaxLate  == Period - 1 - Period \div 2
MaxEarly == Period - 1 + Period \div 2

\* An upload begins three hours before now: more than a period of 1024 seconds.
ASSUME BackCoversPeriod == Back >= Period

\* By how much an estimate may be off all in all: shift is the delay of its report and
\* what the clock has gained since, less what it has lost.  The slots to either side make
\* up for 25 minutes of the former (two slots of 1024 seconds, less the rounding), the
\* three hours before now for more than two hours of the latter.
IsCovered(shift) ==
    /\ MaxLate + shift <= Drift * Period
    /\ MaxEarly - shift <= Back - (Period - 1)

VARIABLES
    now,
    zero,       \* what each tracker's clock really does
    bias,       \* by how much its counters are wrong in Google's reports
    loop,       \* upload_loop(): where it is, and when it goes on
    due,
    todo,       \* the trackers of this upload that are not calibrated yet
    used,       \* the estimate that this upload uses of each tracker
    saved,      \* the clock_zero sub-key of devices.yaml, with where it came from
    server,     \* the counters Google knows of each tracker and microcontroller
    full,       \* the last upload with future EIDs that Google took, of each tracker
    paired,     \* when each microcontroller was registered
    announced,  \* when its identifiers were last uploaded
    listAt      \* when the cached device list was fetched

clocks == <<zero, bias>>
loopVars == <<loop, due, todo, used>>
listVars == <<paired, announced, listAt>>
uploadVars == <<now, clocks, loopVars, saved, server, full, listVars>>

\* The estimate of a tracker that was never calibrated: its pair date.
Pairing == [zero |-> 0, at |-> 0, keyed |-> FALSE, shows |-> 0]

Floor(t) == t - (t % Period)

\* A beacon's counter: full periods since its clock read zero.
Counter(clockZero, t) == Floor(t - clockZero)

(***************************************************************************)
(* Pure parts.                                                             *)
(***************************************************************************)
\* get_rotating_eids(): full periods of the estimated clock from start to the end,
\* and Drift slots to either side of each.
RotatingFromTo(clockZero, start, end) ==
    LET first == Max({0, (start - clockZero + Period - 1) \div Period})
        last  == (end - clockZero) \div Period
    IN  {c \in {(k + s) * Period : k \in first..last, s \in -Drift..Drift} : c >= 0}

\* A plausible slip: only the periods that the estimate itself gives.
RotatingWithoutDrift(clockZero, start, end) ==
    {c \in RotatingFromTo(clockZero, start, end) : c \in start - clockZero .. end - clockZero}

RotatingEids(clockZero, start, end) ==
    RotatingFromTo(clockZero, start, end)

\* A plausible slip: not aligned to the pair date.
NextEidsUnaligned(pairDate, start) ==
    {start + k * Period : k \in 0 .. Duration \div Period}

\* get_next_eids(): one entry each period, aligned to the pair date.
NextEids(pairDate, start) ==
    {pairDate + c : c \in {k \in Floor(start - pairDate) .. start - pairDate + Duration : k % Period = 0}}

\* decrypt_with_counter_search(): the report opens under any counter of its period;
\* Nothing if no neighbouring period has it.
CounterSearch(reported, true) ==
    LET base == Floor(reported)
        near == {c \in {base + s * Period : s \in -SearchSlots..SearchSlots} : c >= 0}
    IN  IF Floor(reported) = Floor(true) THEN reported
        ELSE IF true \in near THEN true ELSE Nothing

\* A plausible slip: the bound itself, which is always too late.
UpperBoundFrom(timestamp, counter) == timestamp - counter

\* estimate_clock_zero() of one report: the tightest bound is one of them.
EstimateFrom(timestamp, counter) == timestamp - counter - Period \div 2

\* What register_esp32() announces: a number of periods from the pair date on.
FirstEids(pairDate) == {pairDate + k * Period : k \in 0 .. Duration \div Period - 1}

(***************************************************************************)
(* State.                                                                  *)
(***************************************************************************)
EidTypeOK ==
    /\ now \in Begin..End
    /\ zero \in [Trackers -> Clocks] /\ bias \in [Trackers -> Biases]
    /\ loop \in {"sleep", "calibrate", "send", "past"}
    /\ due \in Nat
    /\ todo \subseteq Trackers
    /\ saved \in [Trackers -> Estimates \union {Nothing}]
    /\ used \in [Trackers -> Estimates \union {Nothing}]
    /\ \A t \in Trackers : used[t] # Nothing => used[t] \in {Pairing, saved[t]}
    /\ full \in [Trackers -> Uploads \union {Nothing}]
    /\ server \in [Trackers \union Mcus -> SUBSET Int]
    /\ paired \in [Mcus -> Nat \union {Nothing}] /\ announced \in [Mcus -> Nat \union {Nothing}]
    /\ \A m \in Mcus : announced[m] # Nothing => paired[m] # Nothing /\ paired[m] <= announced[m]
    /\ listAt \in Times \union {Nothing}

\* A microcontroller may have been registered long ago.
UploadInit ==
    /\ now = Begin
    /\ zero \in [Trackers -> Clocks]
    /\ bias \in [Trackers -> Biases]
    /\ loop = "sleep" /\ due = Begin /\ todo = {}
    /\ used = [t \in Trackers |-> Nothing]
    /\ saved = [t \in Trackers |-> Nothing]
    /\ full = [t \in Trackers |-> Nothing]
    /\ paired \in [Mcus -> {Nothing, 0}]
    /\ announced = paired
    /\ server = [d \in Trackers \union Mcus |->
           IF d \in Mcus /\ paired[d] = 0 THEN FirstEids(0) ELSE {}]
    /\ listAt = Nothing

(***************************************************************************)
(* upload_loop() and upload_once(), which are over before time goes on.    *)
(***************************************************************************)
Sleeps ==
    /\ loop' = "sleep" /\ due' = now + Interval
    /\ used' = [t \in Trackers |-> Nothing]

\* No account is signed in, or the device list cannot be had.
SkipUpload ==
    /\ loop = "sleep" /\ due <= now
    /\ Sleeps
    /\ UNCHANGED <<now, clocks, todo, saved, server, full, listVars>>

BeginUpload ==
    /\ loop = "sleep" /\ due <= now
    /\ loop' = "calibrate"
    /\ todo' = Trackers
    /\ used' = [t \in Trackers |-> Nothing]
    /\ UNCHANGED <<now, clocks, due, saved, server, full, listVars>>

\* _clock_zero(): a calibration of less than a day is used as it is.
IsFresh(t) == saved[t] # Nothing /\ now - saved[t].at < ZeroTtl

UseSaved(t) ==
    /\ loop = "calibrate" /\ t \in todo
    /\ IsFresh(t)
    /\ used' = [used EXCEPT ![t] = saved[t]]
    /\ todo' = todo \ {t}
    /\ UNCHANGED <<now, clocks, loop, due, saved, server, full, listVars>>

\* No answer, no report or none that opens: an old calibration is better than the pair
\* date, and stays as old as it is.
NotCalibrated(t) ==
    /\ loop = "calibrate" /\ t \in todo
    /\ ~IsFresh(t)
    /\ used' = [used EXCEPT ![t] = IF saved[t] = Nothing THEN Pairing ELSE saved[t]]
    /\ todo' = todo \ {t}
    /\ UNCHANGED <<now, clocks, loop, due, saved, server, full, listVars>>

\* A sighting at s, reported after d; keyed: the identity key was to be had, and the
\* counter is the one the report opens under.
Calibrated(t) ==
    /\ loop = "calibrate" /\ t \in todo
    /\ ~IsFresh(t)
    /\ \E s \in now - Back .. now, d \in 0..Delay, keyed \in BOOLEAN :
         LET real     == zero[t][s]
             true     == Counter(real, s)
             reported == true + bias[t]
             counter  == IF keyed THEN CounterSearch(reported, true) ELSE reported
         IN  /\ s + d <= now
             /\ true >= 0 /\ reported > 0
             /\ counter # Nothing
             /\ saved' = [saved EXCEPT ![t] =
                    [zero |-> EstimateFrom(s + d, counter), at |-> now, keyed |-> keyed,
                     shows |-> real + d]]
    /\ used' = [used EXCEPT ![t] = saved'[t]]
    /\ todo' = todo \ {t}
    /\ UNCHANGED <<now, clocks, loop, due, server, full, listVars>>

CalibratedAll ==
    /\ loop = "calibrate" /\ todo = {}
    /\ loop' = "send"
    /\ UNCHANGED <<now, clocks, due, todo, used, saved, server, full, listVars>>

\* _owned_trackers_request() up to the given time, for the trackers with a key at hand.
Uploaded(keyed, end) ==
    [d \in DOMAIN server |->
        IF d \in keyed
          THEN server[d] \union RotatingEids(used[d].zero, now - Back, end)
          ELSE server[d]]

Send ==
    /\ loop = "send"
    /\ \E keyed \in SUBSET Trackers :
         /\ server' = Uploaded(keyed, now - Back + Duration)
         /\ full' = [t \in Trackers |->
                IF t \in keyed
                  THEN [at |-> now, keyed |-> used[t].keyed, shows |-> used[t].shows]
                  ELSE full[t]]
    /\ Sleeps
    /\ UNCHANGED <<now, clocks, todo, saved, listVars>>

\* Google refuses the upload: it is tried again without future EIDs.
Refused ==
    /\ loop = "send"
    /\ loop' = "past"
    /\ UNCHANGED <<now, clocks, due, todo, used, saved, server, full, listVars>>

SendPast ==
    /\ loop = "past"
    /\ \E keyed \in SUBSET Trackers :
         server' = Uploaded(keyed, Min({now - Back + Duration, now}))
    /\ Sleeps
    /\ UNCHANGED <<now, clocks, todo, saved, full, listVars>>

\* Anything else that a request raises ends this upload.
UploadFails ==
    /\ loop \in {"send", "past"}
    /\ Sleeps
    /\ UNCHANGED <<now, clocks, todo, saved, server, full, listVars>>

(***************************************************************************)
(* Microcontrollers.                                                       *)
(***************************************************************************)
\* DeviceListCache.invalidate()
Invalidate == listAt' = Nothing

\* register_tracker(): register_esp32() pairs and announces in one request, and the list
\* is dropped.  A request that raises is taken to have done nothing.
Register(m) ==
    /\ paired[m] = Nothing
    /\ paired' = [paired EXCEPT ![m] = now]
    /\ announced' = [announced EXCEPT ![m] = now]
    /\ server' = [server EXCEPT ![m] = FirstEids(now)]
    /\ Invalidate
    /\ UNCHANGED <<now, clocks, loopVars, saved, full>>

HasFreshList == listAt # Nothing /\ now - listAt < ListTtl

\* refresh_custom_trackers() announces all microcontrollers in one request.
RefreshCustomTrackers ==
    LET ours == {m \in Mcus : paired[m] # Nothing}
    IN  /\ server' = [d \in DOMAIN server |->
               IF d \in ours THEN server[d] \union NextEids(paired[d], now - Back) ELSE server[d]]
        /\ announced' = [m \in Mcus |-> IF m \in ours THEN now ELSE announced[m]]

\* A page fetches the list when there is none that is fresh.  The Devices page announces
\* what is in it on the way, unless that request fails; the Settings page does not.  A
\* fetch that fails, also for want of one identity key, changes nothing.
FetchList ==
    /\ ~HasFreshList
    /\ listAt' = now
    /\ RefreshCustomTrackers \/ UNCHANGED <<server, announced>>
    /\ UNCHANGED <<now, clocks, loopVars, saved, full, paired>>

\* The Refresh button drops the list before it is shown again.
DropList ==
    /\ listAt # Nothing
    /\ Invalidate
    /\ UNCHANGED <<now, clocks, loopVars, saved, server, full, paired, announced>>

(***************************************************************************)
(* Time and restarts.                                                      *)
(***************************************************************************)
\* What was announced and is never sent again is left out: nothing below reads it.
StillToCome(d) ==
    {c \in server[d] :
        IF d \in Trackers
          THEN \E n \in now + 1 .. End : c >= Counter(zero[d][n], n)
          ELSE c >= now + 1 - Period}

TimePasses ==
    /\ now < End
    /\ loop = "sleep" /\ now < due
    /\ now' = now + 1
    /\ server' = [d \in DOMAIN server |-> StillToCome(d)]
    /\ UNCHANGED <<clocks, loopVars, saved, full, listVars>>

\* devices.yaml keeps the calibrations; the loop begins anew, at once.
RestartUploads ==
    /\ loop' = "sleep" /\ due' = now
    /\ todo' = {} /\ used' = [t \in Trackers |-> Nothing]
    /\ listAt' = Nothing
    /\ UNCHANGED <<now, clocks, saved, server, full, paired, announced>>

UploadNext ==
    \/ SkipUpload \/ BeginUpload \/ CalibratedAll \/ Send \/ Refused \/ SendPast \/ UploadFails
    \/ \E t \in Trackers : UseSaved(t) \/ NotCalibrated(t) \/ Calibrated(t)
    \/ \E m \in Mcus : Register(m)
    \/ FetchList \/ DropList \/ TimePasses \/ RestartUploads

UploadSpec == UploadInit /\ [][UploadNext]_uploadVars

(***************************************************************************)
(* Properties.                                                             *)
(***************************************************************************)
\* The estimate from a report that its key opened is off by less than a period, half a
\* period towards the past, from what the report shows, however wrong its counter was
\* (estimate_clock_zero(): "at most one rotation period plus the reporting delay too
\* late").
EstimatesAreClose ==
    \A t \in Trackers : saved[t] # Nothing /\ saved[t].keyed =>
        /\ saved[t].zero - saved[t].shows <= MaxLate
        /\ saved[t].shows - saved[t].zero <= MaxEarly
        /\ saved[t].zero <= now

\* For Duration less Back after an upload that Google took, and whenever the server was
\* restarted, Google knows the EID that a tracker sends right now, if its clock had been
\* estimated from a report that its key opened, and as long as the delay of that report
\* and what the clock did since then, however long ago, by itself or by starting anew,
\* are covered: the slots around the estimate and the hours before now make up for that,
\* for the rounding of the counter and for the edges of the uploaded range.
KnownWhileAnnounced ==
    \A t \in Trackers :
        /\ full[t] # Nothing /\ full[t].keyed
        /\ now <= full[t].at + Duration - Back
        /\ IsCovered(full[t].shows - zero[t][now])
        => Counter(zero[t][now], now) \in server[t]

\* A microcontroller's identifier is announced for the present period from its
\* registration on, and for Duration less Back after every announcement.
McuKnown ==
    \A m \in Mcus :
        announced[m] # Nothing /\ now <= announced[m] + Duration - Back
            => paired[m] + Floor(now - paired[m]) \in server[m]
=============================================================================
