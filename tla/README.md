# GoogleFindMyTools web UI: a verification project

GoogleFindMyTools locates Find My Device trackers. Its web UI (`webui/`) is one
Python process: an asyncio event loop that serves pages and polls devices, a
pool of worker threads that do everything that blocks (HTTP requests to Google,
Selenium), and a thread with an event loop of its own for the push connection
over which Google sends locations. This project models the parts of that
process where the order of events decides whether it works, checks them with
TLC on small instances, and proves the most important properties with TLAPS for
every number of threads, devices, retries and so on.

`PROJECT.json` lists the components, runs, mutants, hazards, findings and
theorems, and maps each definition to the lines it models.

## 1. The system

| Component | State | Operations | Talks to | What is hard |
|---|---|---|---|---|
| Rate limiter `NovaApi/query_throttle.py` | recent slots, last slot, `waiting` | `wait_turn()` | every backend request, on any thread; settings on file | the lock is released while a caller sleeps; settings are edited meanwhile and read again |
| Backend requests `nova_request.py`, `spot_request.py` | attempt counter | request, retry, back off | rate limiter, Google | each retry takes a slot; two kinds of failure share one budget |
| Locate coalescer `webui/locate_coalescer.py`, `webui/deps.py` | tasks in flight by device, semaphore | `get_or_fetch()`, locate, locate with capture | polls, pages, thread pool | callers are cancelled while others share their fetch; callbacks are scheduled, not called |
| Locate request `LocateTracker/location_request.py`, `Auth/fcm_receiver.py` | callbacks, one event and result per request | register, post, wait, unregister | push listener thread, backend | the answer comes by push: early, twice, late or never, and every callback is shown every push |
| Scheduler and forwarding `webui/scheduler.py`, `webui/forwarders/policy.py` | poll task, endpoint state, results | poll tick, send now, save, restart | locate, locations, destinations | state is read before awaits and written after them; tasks are cancelled while their requests go on |
| Device locations `webui/device_location_store.py` | last list, newest time | `set_last_location()` | polls, manual locates | what is new depends on the list before |
| Push client and receiver `firebase_messaging/fcmpushclient.py`, `Auth/fcm_receiver.py` | run state, connection, error counters, two tasks, start lock | listen, monitor, reset, terminate, start | threads that need the listener, Google | two tasks reset one connection; either can end the client under the other |
| Sign-in `webui/browser_provisioning.py`, `Auth/*`, `KeyBackup/shared_key_flow.py` | phase, browsers, locks | attempt, token flow, key flow, teardown, clear | receiver, credentials file, Chrome, polls | threads go on after `wait_for()` gave them up; `create_driver()` kills every Chrome |
| Credentials file `Auth/token_cache.py` | `auth.yaml` | read, store, clear | all of the above | load, truncate and write without a lock |
| Push registration `firebase_messaging/fcmregister.py` | credentials | check in, register, tries | receiver's start lock, Google | five requests, each tried on its own terms, in a loop that never gives up |
| Staleness alerts `webui/staleness.py` | alert streak by device | check, sweep, save of the form | poll, Devices page | the streak lives through saves, restarts, responses in any order and a change of who checks |
| Device store `webui/device_store.py` | `devices.yaml`, cached copy | load, `mutate_device()` | locations, settings, endpoint states, staleness | each writes the whole file back; it is edited by hand; an unparsable file reads as empty |
| Device list cache `webui/device_list_cache.py` | one slot | get or fetch, invalidate | pages, registration | kept for a day; a fetch announces identifiers on the way |
| Firmware builds `webui/firmware_build.py`, `esp_idf_provisioning.py` | phase, toolchain and sandboxes on disk | start, provision, build, prune, migrate | tools, Firmware page | what an interrupted step leaves on disk; timeouts that leave child processes |
| Key uploads and tracker registration `webui/eid_upload.py`, `UploadPrecomputedPublicKeyIds`, `CreateBleDevice` | clock estimates, what Google knows | upload loop, calibration, register | backend, device list | a clock nobody can read, estimated from late and wrong reports |

Everything else (encoding, cryptography, forms, templates, logs, C firmware,
command line) is listed in `PROJECT.json` with the reason it is left out.

What makes each correct:

* *Rate limiter.* No window of the configured length holds more than the
  configured number of slots; consecutive slots are spread; `waiting` counts the
  callers inside; nobody sleeps in vain. A caller gets its slot unless others
  overtake it for ever: there is no order among them, and the code does not exclude it.
* *Locate.* One fetch per device; permits are conserved and bound what is with the
  backend; no answer that came in time is lost; every caller that is not cancelled
  returns, unless a push registration never ends.
* *Forwarding.* What is recorded as sent was accepted by the destination; a
  reading that stays on file is not sent again; the poller runs exactly for the
  saved configuration; every tick ends.
* *Push.* A dead client has no task left; a reset hits only the connection that
  failed; the listener is only started on a client without tasks; silence is
  noticed; a dead listener is restarted for whoever needs it, if it is recognised as
  dead (it is not always: see section 5) and registrations do not fail for ever.
* *Push registration.* A listener that runs has a token; to the receiver
  the conversation is a registration that failed or succeeded; one that failed
  succeeds when the servers answer again (it does not: `half_registered`).
* *Key uploads.* Google knows the identifier that a tracker sends right now, for as
  long as an upload is meant to cover and its clock is near enough to what was
  estimated.
* *Device store.* It is an atomic map of which each module changes its own part; what a
  broken file cost is reported; no save loses what only the account knows.
* *Staleness.* Alerts are true, spaced as chosen, and sent.
* *Firmware builds.* One at a time, on a complete toolchain (or what a migration that
  was cut short left: `torn_install`); each ends; a download gets
  the image that was asked for; the disk does not fill up.
* *Sign-in.* One attempt at a time to the end of its teardown; no account browser
  is killed by another; no token without push credentials; "done" means complete;
  every attempt ends.

## 2. The modules

| Module | Models | Variables and actions |
|---|---|---|
| `QueryThrottle` | the rate limiter | `pc` per thread; one action per lock section, sleep, edit of the settings, and tick of the clock; history of all slots for the properties |
| `BackendRequests` | Nova and Spot requests, EXTENDS `QueryThrottle` | `phase`, `attempt`, `posts` per thread; taking a slot is the limiter's own action |
| `LocateCoalescer` | event loop side of a locate | jobs, their places, callbacks still to run, permits; a step is one run of a coroutine or callback |
| `LocateRequest` | thread side of a locate | request, callback list, pushes under way, the listener's copy of the list; a registration that raises, or never ends, before the callback is added, a token lookup that raises after it |
| `Locate` | the two composed | a fetch with a permit is a request; it ends when its thread does |
| `DeviceLocations` | what a response holds once decrypted, the list on file and the newest time | `Opened`, `SetLastLocation` |
| `Forwarding` | poller, send-now, manual locate, save, restart | `tick` (a poll from await to await), `wire` (requests on threads), endpoint state |
| `FcmPushClient` | the client's two tasks | operators from a client record to the possible next ones, one per stretch between awaits |
| `FcmReceiver` | threads and the start lock around it | `pc` (the client), `lock`, place of each thread; every step of the tasks is an action |
| `PushRegistration` | the conversation that ends in credentials, EXTENDS `FcmReceiver` | `creds`, `talk`; an action per outcome of a request; credentials are kept in one step, their token is looked up, and the client stopped, in another (`LooksUp`); implements `FcmReceiver!Spec` |
| `BuildJob` | what the Firmware page promises: abstract | `status`, `request`, `served` |
| `EspIdf` | the toolchain on disk: clone, install, marker, sweep, migration | trees as none, bare, torn or whole; `at` is the place of the one task that works on it; `cut` is history: a migration was cut short |
| `FirmwareBuild` | the build task, its commands and sandboxes, EXTENDS `EspIdf` | `boxes`, `orphans` (what children of killed commands still write to); implements `BuildJob` |
| `EidUpload` | upload loop, calibration, registration, device list | `zero` is what a tracker's clock does over time (it may gain, lose or start anew), `bias` what is wrong in reports, `saved` what is estimated, `server` what Google knows |
| `AtomicStore` | what `devices.yaml` promises the modules that share it: abstract | `content`, `reply` |
| `DeviceStore` | the file, the cached copy, the older files and every writer | operators from a disk to the disk after them; implements `AtomicStore` |
| `Staleness` | the check, the sweep, the poll's check, the form | times are ages; `best` is what is true, `list` and `mark` what is on file |
| `TokenCache` | the credentials file | `file`, `torn`, a store in progress per writer |
| `SignIn` | attempts, worker threads, polls, clear | `flow` per attempt, `at` per thread, `chrome`, `flowLock`, the receiver's instance |
| `*Proofs` | theorems about the module they are named after and those it extends | none |
| `MC*` | instances for TLC | none |

A step is what runs without interruption in the code: on the event loop, up to
the next `await`; on a thread, a lock section or one access to shared state.
Cancellation removes a coroutine at any of its awaits and runs its `finally`
blocks; it never stops a thread.

## 3. The runs

| Run | Shows |
|---|---|
| `throttle` | Two threads, three configurations, one edit: limit and spread hold for the slots of retried requests, nobody sleeps in vain, each request stays in its budget and ends if it is not overtaken for ever. |
| `locate` | Two callers, two devices, three fetches, two permits, an answer and its duplicate for one of the fetches: single flight, permits, load, no lost push, everybody returns unless a registration hangs. |
| `forwarding` | One device, two endpoints with different gates, two interruptions: records are grounded, no repeats, poller follows configuration, ticks end. |
| `push` | Two threads, abort after three errors, two tries to connect and of each request, credentials of any kind on file at the start: see "Push" and "Push registration" above. |
| `half_registered` | *violated*: after the last request failed twice, credentials without a token are kept and no later attempt gets past them. |
| `sign_in` | Two attempts, one poll, one clear: see "Sign-in" above. |
| `firmware` | Two keys, two boards, three sandboxes and one restart at any step, on a fresh server and on two upgraded ones: see "Firmware builds" above. |
| `torn_install` | *violated*: a restart in the middle of the migration leaves half an install, and a build runs on it. |
| `uploads` | A tracker with a clock of its own (right, gaining, losing, starting anew) or a microcontroller, failures of every request, reports that are late and wrong, cached device lists: estimates stay close, see "Key uploads" above. |
| `store` | Two devices, two URLs, older shapes and older files, hand edits, a broken and a removed file, restarts: see "Device store" above. |
| `alerts` | One device, every order of responses, sweeps, polls, saves and restarts: see "Staleness" above. |
| `never_swept` | *violated*: a device with alerts on but no saved settings is neither polled nor swept. |

The violated runs are disagreements between the code and what its own comments
say of it; `PROJECT.json` quotes both ("findings").

### Bounds

* `throttle`: `MaxTime` 3 is longer than either window's remainder, so slots
  leave a window during a run; `MaxCalls` bounds the requests, one edit swaps to a
  tighter or an unlimited configuration, or to one that raises.
* `locate`: three jobs, so that one device is fetched twice, in sequence or with
  a capture; two permits and three jobs make one wait. Two pushes come for one of the
  requests (`MaxPushes`), an answer and its duplicate, while the others register and
  unregister; for the others none comes, and they end by an error or the timeout.
* `forwarding`: a response of two fixes of which one does not open, and a reading
  that comes twice, in this response and the next; a response that holds nothing. `MaxActs` 2 lets
  two interruptions meet in one poll; `MaxWire` 1 request may outlive its task.
* `push`: `Abort` 3 is the code's own; two tries to connect stand for the code's five,
  and two of the first three requests for its 100, since tries differ only in being the
  last or not; the other two requests have the code's own numbers. `half_registered`
  needs one thread, one try, and two errors to the abort.
* `firmware`: one sandbox is kept (`Keep`), three are made and two are found in the
  old place, so that pruning has something to do in a build, at the start and after
  a migration. One restart, at any step. `torn_install` is the same instance.
* `uploads`: a rotation period of two units lets an event fall on
  either side of a slot's edge, and time goes on to the end of what the first upload
  covers; the other times keep their order in the code (upload interval below the
  covered range, validity of an estimate above the interval, an upload with its one
  successor inside the covered range). The run is longer than the interval and than
  the validity of an estimate. Of the clocks, some stay within what is covered
  (`IsCovered`) and some go beyond it; with either half of `IsCovered` dropped, TLC
  finds a tracker that is not known. Trackers and microcontrollers share the time and the
  server's restarts only, so the run looks at either (`OneAtATime`): as long as no
  microcontroller is registered, or until a tracker is first calibrated.
* `store`: one device is operated on, the other is only in the file, which is all that
  an operation knows of it. Two account names make one change.
* `alerts`: ages are not told apart above twice the longest threshold.
* `sign_in`: two attempts give one that is torn down and one that follows it; one
  poll is one thread that nobody waits for; one clear. Each act happens once.

### Fairness

* Event loop: weak fairness of each runnable coroutine and callback, since the
  loop runs what is ready in turn. `PushFairSpec` states strong fairness twice: a
  thread that waits for the start lock gets it in the end although others take it
  in between, and the start of the listener, which is due at once, is not for ever
  overtaken by teardowns, each of which first takes a thread through the lock.
* Time passes; a sleeping thread wakes. HTTP requests end, because every one is
  posted with a timeout, and so does the wait of a locate for its push. The push
  registration inside a locate has no limit (`fcm_receiver.py:205`): in `locate`
  nothing is assumed of it, and `EveryCallerReturns` names the callers that it
  keeps. `throttle` assumes nothing of the order in which threads get their slots:
  `EveryRequestEnds` speaks of calls that are not overtaken for ever (`NotOvertaken`).
* `push` assumes that each request of a registration ends, not how: `DeadIsRestarted`
  leaves out behaviours in which registrations fail for ever (`RegistrationsStopFailing`),
  as they do for credentials without a token. `half_registered` assumes in addition that
  each request succeeds in the end if it is made again and again (`AnsweringSpec`), and
  the run is violated still.
* `forwarding` and `alerts` assume that each locate ends, by its result or an
  exception, and with it the registration in it: `TickEnds` and `StaleIsAlerted` do not
  hold of a device whose locate waits for a registration that hangs. `alerts` further
  assumes valid cron expressions.
* Otherwise nothing is assumed of Google or of users: pushes may never come, connections
  may stay silent, a sign-in may never be completed. In `sign_in` only the loop's
  steps are fair; worker threads may hang for ever, and `SignInEnds` holds still.
* `firmware`: a command of a build ends, at the latest at its timeout, and the task
  goes on. `get_env()` has no timeout (`esp_idf_provisioning.py:275`): that its script
  ends is an assumption, on which the liveness in `ImplementsBuildJob` rests. `alerts`: both loops go on for ever, and time passes; `StaleIsAlerted`
  leaves out behaviours that save or restart for ever.
* Deadlock is not checked where a run bounds what may be started: having done all
  of it, the system rightly stops.

### Assumptions made in modelling

* `waiting += 1` outside the lock is one step: under CPython 3.11, which the image
  ships, the interpreter does not switch threads inside it.
* Saved cron expressions are valid (the form refuses others), and endpoints of
  one device have distinct URLs where the state is kept by URL.
* `FcmReceiver` models one instance; that the clear drops it is in `SignIn`.
* `firmware`: deleting a tree deletes it (but what orphaned children write to it);
  git's children end with git; all processes end with the container; the idle time
  to live is the same after a restart; a rename on one device is never seen half done;
  a full disk is noticed by the steps that make files, before they end.
* `uploads`: a tracker's clock may do anything while the server runs, but read less than
  zero (`ClocksRun`), and it was not announced for before it was paired; an upload takes less than a unit of time; the server keeps what it was
  given; a request of a registration that raises did nothing.
* `store`: nobody edits the file by hand within the milliseconds of one locked
  operation, and an edit changes its mtime; a file that does not parse counts as
  empty. `config_store.load()`, `save()` and `mutate_devices()` have no caller.
* `alerts`: a poll task does not die, and cron expressions are valid.
* Opening a file for writing truncates it at once and the dump reaches it at the
  close: a dump of `auth.yaml` fits one buffer, or is taken as one.

## 4. The proofs

All are of the unbounded specifications, from the named assumptions on the
constants only (types, that the bounds are natural numbers, that a value that
stands for nothing is none of the others; `OpenedAssumption`: what a
response opens to is a sequence of readings; `FirmwareAssumption`: the sandboxes of
earlier servers fit below the bound; `StoreAssumption`: hand edits and older files
are stores; `ClocksRun`: clocks do not read less than zero; `BackCoversPeriod`: three
hours are longer than a period). TLC evaluates each on the run of its module.

* `BackendRequestsProofs`. *WindowLimitHolds*, *SpreadAlwaysHolds*,
  *WaitingIsExact*. The limit speaks of every rolling window of the past, while
  the code keeps a pruned deque; the inductive invariant relates the two: the deque
  is the recent end of the history, what was pruned is too old for any window that
  ends now, and the slots are in order. The composition implements the limiter
  (*RequestsImplementThrottle*), which carries the window limit over to retried
  requests. *NoSleepIsVain* compares two looks at the limiter: with no slot taken and no
  edit between them, the pruned deque is the end of what it was, so that the second asks
  for no longer wait than the first, which is over; *RequestsSleepNotInVain* carries it
  over. *RetryBudgetHolds* from an invariant that ties posts to attempts.
* `LocateProofs`. *SingleFlightHolds* and *PermitsConservedHolds* need to know that
  a slot is empty, or holds a job that is running or whose clearing callback is
  still queued (`SlotInv`, `RunningInv`, `QueueInv`). *LocateImplementsParts* shows
  each step of the composition to be one of both parts or a stutter, so the loop's
  and the threads' theorems hold of the whole. *LoadIsBounded* needs both: a thread
  only runs for a fetch that holds a permit. *NoLostPushHolds* rests on the order of
  the code: the callback is on the list before the request is posted, and no push comes
  before its post (`PushesFollowPost`). *OneWayOutLeaks*: what is on the list is of
  requests that still run, and of those whose token lookup raised.
* `FcmReceiverProofs`. *DeadMeansOverHolds* and *StartsAreAlone*: every operator on
  the client record keeps "a dead client has no task left", and the thread that
  holds the start lock has seen it dead or never started. *ResetsWhatFailedHolds*
  follows the connection that a reset was asked for until it is gone. Then the
  registration: *ImplementsReceiverHolds* maps each step of `PushRegistration` to one
  of the receiver or a stutter, so that *RegisteredClientIsSafe* carries the client's
  theorems over; *TriesAreBounded*; and *ListenerHasTokenHolds*, that no
  client listens before its credentials have a token, and that one whose credentials
  have none is only taken for listening while the thread that registers is about to
  look the token up and stop it.
* `SignInProofs`. *OneRunAtATimeHolds*: whoever has an attempt under way keeps the
  phase active, so the one check in `start()` suffices. *SignInTypesHold* carries
  who holds what: locks and browsers are with threads inside the code that frees
  them. *AccountBrowsersAreAlone*: whoever is in the account flow has the lock,
  also when an attempt has given its thread up. All steps of a thread are shown
  to be instances of one `ThreadMoves`, all of an attempt of one `RunMoves`.
  *TokenComesWithCredentialsHolds* and *DoneIsCompleteHolds* are about the file that
  nobody locks: what was read there is there or in every store that is under way
  (`Carries`), for as long as no two threads are in the store at once, which is what
  the two properties assume; a clear and an attempt exclude each other
  (`ClearsAreAlone`), and a thread that a clear has overtaken is out of the store
  before there is a receiver again (`TornIsQuiet`), so that a receiver with
  credentials has them on file (`ReadyCarries`).
* `ForwardingProofs`. *PollerFollowsConfigHolds*; *RecordIsGroundedHolds*, which needs
  that everything on its way to the record is of an accepted reading: the results a
  poll still has to record, and the state it or a click captured before its await
  (`ResultsGrounded`). *NoRepeatWhileListedHolds* from `SentInOrder`: what polls have
  sent is still on file, and of the readings that a poll found to be new each
  endpoint was sent those of earlier turns only.
* `FirmwareBuildProofs`. *SandboxesBoundedHolds*: pruning goes before the sandbox is
  made (`RoomForBox`), and the running build's is its own (`BoxShape`).
  *WholeUnlessCutHolds*: what counts as provisioned is whole, unless a sweep of
  it was cut short, and then it is idle still and swept at the next start, or a
  migration was (`MarkedIsWhole`); and a step of the provisioning leaves to the next
  what that relies on. The process may end at any step; that the exception is needed
  is what `torn_install` shows.
  *BuildsImplementJob*: each step of a build is one of `BuildJob` or a stutter. Its
  fairness is left to TLC.
* `DeviceStoreProofs`. A copy that is taken for the file's is the file's (`Coherent`),
  and an operation that starts from such a copy leaves one (`Follows`). Each
  operation reads what is in the file, or what stands for it, and changes one part
  of one entry: *ImplementsAtomicStoreHolds* and *MetaKeptHolds*, one lemma per
  operation. *LossIsReportedHolds* is about what does not happen: after a broken
  file was written over, the fresh copy keeps `_load()` from calling the file good
  for as long as nobody edits it.
* `BackgroundLoopsProofs` (of `Staleness` and `EidUpload`). *AlertsAreTrueHolds*: the check looks at the readings on file
  and at the mark, which a response replaces each in its own way; the inductive
  invariant is that together they have the newest reading ever received
  (`BestIsNewest`). *RepeatsAreSpacedHolds* needs that the streak on file remembers
  the last alert for as long as it stands (`StreakIsKept`).
  *EstimatesStayClose*: between the counter of a report and the half period that is
  taken off, an estimate is at most `MaxLate` too late and `MaxEarly` too early, measured
  from what the report shows; *KnownWhileAnnouncedHolds* and *McuKnownHolds*. Both
  properties speak of now only, so the inductive invariant speaks of every moment from
  now to the end of the covered range (`RotatingAhead`, `McuAhead`), for the tracker
  with the hypothesis that its clock is then within `IsCovered`: a tick drops what
  is never sent again, and rounding down to a period never goes back (`FloorGrows`).
  The products, quotients and remainders of a variable period are led through in lemmas
  of their own (`FloorIs`, `RotatingEidsCover`, `FirstEidsCover`). `IsCovered` says what
  an announcement makes up for. With the code's 1024 seconds and two slots, the delay of
  a report and what the clock has gained since may come to 1537 seconds (the slots, less
  the rounding of the estimate), what it has lost to more than two hours (the
  three hours before now). No clock and no report is excluded by an assumption.

Only model-checked: everything with fairness (`EveryRequestEnds`,
`EveryCallerReturns`, `TickEnds`, `SilenceIsNoticed`, `DeadIsRestarted`,
`SignInEnds`, `StaleIsAlerted`, the liveness in `ImplementsBuildJob`), which is out of
the prover's reach. What a recursive definition computes for every input is out of
reach too; no property here says it.

## 5. Where the code and its words differ

Three runs show a disagreement (`half_registered`, `torn_install`, `never_swept`). The
models have the following behaviours too; no run is spent on them.

* A caller that comes after a fetch has finished but before its callback ran is given
  the finished result (`locate_coalescer.py:44`; its docstring, line 14, says a result
  is only shared with callers that asked for it before it existed).
* The gates of a poll measure against the state from before the poll, so two close
  readings of one response are both sent past `skip_if_close` (`scheduler.py:206`;
  `policy.py:74`: "from the last position actually sent").
* A reading that drops out of one response and comes back in a later one counts as
  new (`device_location_store.py:157`; line 137: "the first time this exact reading's
  key has ever been seen").
* A poll opens a browser when only the shared key is missing (`scheduler.py:147`).
* A push client whose first connection fails for good is gone and still taken for alive:
  its listen task ends without a run state that the receiver knows as dead
  (`fcmpushclient.py:751`; `fcm_receiver.py:92`), and nothing starts it again.
* A thread that `wait_for()` gave up stores its token after the clear that had waited
  for the attempt to end (`routers/auth.py:271`, "split-brain").
* If the token lookup in `register_for_location_updates()` raises, the callback that was
  added just before stays in the list for good (`fcm_receiver.py:124-126`); the caller's
  `finally` that would remove it is not entered (`TokenFails`).
* Credentials without a token are stored before the client is stopped
  (`fcm_receiver.py:189`, `209`). Another thread that finds the client's state in
  between passes the unlocked check (111), and its lookup (126) raises.
* A caller of the rate limiter may be overtaken for ever (`query_throttle.py:125`).
* A check-in that is refused is tried again as a new device (`fcmregister.py:196`).
* An announcement covers 21 hours from its upload (a day, less the three hours before
  it), and an upload every 12 hours is followed by one other within that: when that one
  fails, a tracker is unknown for three hours before the next. A microcontroller's identifiers are announced
  by fetches of the device list, which is cached for 24 hours, so that even with a page
  that is always open it is unknown for up to three hours of a day; and the Settings page's
  fetch announces nothing and keeps the Devices page from doing so for a day. The ESP32
  README (line 28) asks for a run every four days.
* The slots to either side are said "to absorb the remaining error" of an estimate
  (`upload_precomputed_public_key_ids.py:96`), which includes the delay of a report and
  what the clock gained since, and nothing limits either. What they absorb is the first
  half of `IsCovered`: 1537 seconds with the default of two slots, 513 with one, and with
  `EID_UPLOAD_DRIFT_SLOTS=0` not even the rounding of a report that comes at once.

## 6. Plan

Done, in this order: rate limiter and requests; locate; forwarding; push; sign-in;
firmware builds; key uploads; device store; staleness; push registration.

Every invariant and action property that a run checks is proved. Next:

1. *Browser stack*: packages, download and processes that outlive a failed start.
2. *Registrations on file*: the last fifty, and which of them are found again.

## 7. Not modelled

* Pure computation: cryptography, protobuf encoding, templates, the fields of forms.
* Output nothing reads back: logs, notifications, websocket broadcasts.
* Single-shot requests without state: play sound, DULT, list devices.
* The C firmware, packaging and the browser's side (JavaScript).
* The browser stack's packages, download and processes; the file of registered
  trackers and the matching of tracked ones by name (both in the plan).
* The demo: fixed data in place of all the above.
* Inside modelled components: see the notes in `PROJECT.json`.
