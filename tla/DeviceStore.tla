---------------------------- MODULE DeviceStore ----------------------------
(***************************************************************************)
(* devices.yaml, the one file behind the settings, locations, endpoint     *)
(* states and alert bookkeeping of all devices: webui/device_store.py with *)
(* its cached copy, the migration of the three files that it replaced, and *)
(* the modules that own a sub-key each.                                    *)
(*                                                                         *)
(* All users run on the event loop and none awaits between its reads and   *)
(* its write, so an operation is one step; the file is edited, removed or  *)
(* broken from outside between them.                                       *)
(***************************************************************************)
CONSTANTS
    Devices, Urls,
    Busy,           \* bound: the devices that are operated on; others are only in the file
    Metas,          \* the names and models that the account has had for a device
    Lists,          \* bound: what the account's device list may say of each device
    Legacies,       \* what the files from before devices.yaml may hold together
    Edits,          \* what someone may write into devices.yaml
    Bare, Blank,    \* an endpoint with no url, and one with an empty one
    Broken,         \* a file that does not parse, or is no mapping
    None

VARIABLES
    file,           \* devices.yaml: None, Broken or a store
    legacy,         \* the older files: None or a store
    cache,          \* _cached_data, and whether _cached_mtime_ns is the file's
    lastOk,         \* _last_load_ok
    reply, hand,    \* as in AtomicStore
    lost            \* what a broken file held was overwritten, in this process

vars == <<file, legacy, cache, lastOk, reply, hand, lost>>

Parts == {"config", "location", "states", "staleness"}
NoEntry == [config |-> None, location |-> None, states |-> {}, staleness |-> None]
Empty == [d \in Devices |-> NoEntry]

Endpoints == Urls \union {Bare, Blank}
Configs == [urls : SUBSET Endpoints, meta : Metas \union {None}, old : BOOLEAN]
Locations == {None, "unlinked", "linked"}
Entries ==
    [config : Configs \union {None}, location : Locations, states : SUBSET Urls, staleness : {None, "kept"}]
Stores == [Devices -> Entries]
Copies == [data : Stores, fresh : BOOLEAN]

ASSUME StoreAssumption ==
    /\ Busy \subseteq Devices
    /\ Bare \notin Urls /\ Blank \notin Urls /\ Bare # Blank
    /\ Lists \subseteq [Devices -> Metas \union {None}]
    /\ Edits \union Legacies \subseteq Stores
    /\ Broken \notin Stores \union {None}
    /\ None \notin Metas \union Configs \union Stores \union Copies

(***************************************************************************)
(* Shapes from older versions are brought up to date whenever they are     *)
(* read, and go to disk with whatever is written next.                     *)
(***************************************************************************)
\* An endpoint without a url becomes the custom preset, whose url is empty.
Current(config) ==
    IF config = None THEN None
    ELSE [config EXCEPT !.urls = (@ \ {Bare}) \union (IF Bare \in @ THEN {Blank} ELSE {}),
                        !.old = FALSE]

Linked(location) == IF location = None THEN None ELSE "linked"

Normalized(store) ==
    [d \in Devices |-> [store[d] EXCEPT !.config = Current(@), !.location = Linked(@)]]

(***************************************************************************)
(* The file.  st stands for the file, the cached copy and _last_load_ok.   *)
(***************************************************************************)
Disk == [file |-> file, cache |-> cache, ok |-> lastOk]

Saved(st, data) == [st EXCEPT !.file = data, !.cache = [data |-> data, fresh |-> TRUE]]

\* A plausible slip: the time of the file is not compared.
IsCached(st) == st.file # None /\ st.cache # None

IsHit(st) == st.file # None /\ st.cache # None /\ st.cache.fresh

\* A plausible slip of the next: a hit counts as a good read.
HitIsOk(st) == [st |-> [st EXCEPT !.ok = TRUE], data |-> st.cache.data]

Hit(st) == [st |-> st, data |-> st.cache.data]

Missing(st) ==
    LET gone == [st EXCEPT !.cache = None, !.ok = TRUE]
    IN  IF legacy = None THEN [st |-> gone, data |-> Empty]
                         ELSE [st |-> Saved(gone, legacy), data |-> legacy]

Unreadable(st) == [st |-> [st EXCEPT !.cache = None, !.ok = FALSE], data |-> Empty]

ReadFile(st) ==
    [st |-> [st EXCEPT !.cache = [data |-> st.file, fresh |-> TRUE], !.ok = TRUE], data |-> st.file]

Load(st) ==
    IF IsHit(st) THEN Hit(st)
    ELSE IF st.file = None THEN Missing(st)
    ELSE IF st.file = Broken THEN Unreadable(st)
    ELSE ReadFile(st)

\* mutate_device(): saves only what has changed.
MutateDevice(st, d, entry) ==
    LET loaded == Load(st)
        data   == [loaded.data EXCEPT ![d] = entry]
    IN  IF data = loaded.data THEN loaded.st ELSE Saved(loaded.st, data)

Entry(st, d) == Load(st).data[d]

\* get_device_config()
Config(st, d) == Current(Entry(st, d).config)

SetConfig(st, d, config) == MutateDevice(st, d, [Entry(st, d) EXCEPT !.config = config])

PruneToUrls(st, d, urls) == MutateDevice(st, d, [Entry(st, d) EXCEPT !.states = @ \intersect urls])

(***************************************************************************)
(* Actions.                                                                *)
(***************************************************************************)
TypeOK ==
    /\ file \in Stores \union {None, Broken}
    /\ legacy \in Stores \union {None}
    /\ cache \in Copies \union {None}
    /\ reply \in Stores
    /\ {lastOk, hand, lost} \subseteq BOOLEAN

ContentOf(f) ==
    IF f = None THEN IF legacy = None THEN Empty ELSE legacy
    ELSE IF f = Broken THEN Empty ELSE f

Init ==
    /\ file \in Edits \union {None}
    /\ legacy \in Legacies \union {None}
    /\ cache = None /\ lastOk = TRUE
    /\ reply = Normalized(ContentOf(file))
    /\ hand = FALSE /\ lost = FALSE

\* An operation leaves the disk as st.
Done(st) ==
    /\ file' = st.file /\ cache' = st.cache /\ lastOk' = st.ok
    /\ reply' = Normalized(Load(st).data)
    /\ lost' = (lost \/ (file = Broken /\ st.file # Broken))
    /\ UNCHANGED <<legacy, hand>>

\* load(), all_devices(), get_device_config(), get_device_staleness(), ...
Read == Done(Load(Disk).st)

\* rows(): a device that has settings gets the account's name and model for it, if it is
\* in the device list, which may be a day old.
Synced(config, meta) ==
    IF config = None \/ meta = None \/ config.meta = meta THEN config
    ELSE [Current(config) EXCEPT !.meta = meta]

Rows(listed) ==
    LET loaded == Load(Disk)
        data   == [d \in Devices |-> [loaded.data[d] EXCEPT !.config = Synced(@, listed[d])]]
    IN  Done(IF data = loaded.data THEN loaded.st ELSE Saved(loaded.st, data))

\* A plausible slip: a save from the form is all there is.
CarriedNothing(config) == None

\* What both editors carry forward of the settings on file.
Carried(config) == IF config = None THEN None ELSE config.meta

\* parse_endpoints_form(): a block whose url was not filled in is dropped.
Posted(blocks) == blocks \ {Blank}

\* update_device_settings(); a form with a cron expression that is not valid is shown
\* again and not saved, as in the other editor.
SaveForm(d, blocks) ==
    LET urls   == Posted(blocks)
        config == [urls |-> urls, meta |-> Carried(Config(Disk, d)), old |-> FALSE]
    IN  Done(PruneToUrls(SetConfig(Disk, d, config), d, urls))

\* save_device_yaml_route(): an endpoint without a url is saved, and ends the request
\* before states are pruned.  An empty url is not tried here: it is what such an endpoint
\* has once it is read.
SaveYaml(d, urls) ==
    LET config == [urls |-> urls, meta |-> Carried(Config(Disk, d)), old |-> FALSE]
        saved  == SetConfig(Disk, d, config)
    IN  Done(IF Bare \in urls THEN saved ELSE PruneToUrls(saved, d, urls))

\* set_endpoint_state(): a request that is over is put down, also for an endpoint that is
\* gone by now; an empty url has no state.
SetEndpointState(d, url) ==
    Done(MutateDevice(Disk, d, [Entry(Disk, d) EXCEPT !.states = @ \union {url}]))

\* set_last_location()
SetLastLocation(d) ==
    Done(MutateDevice(Disk, d, [Entry(Disk, d) EXCEPT !.location = "linked"]))

\* get_last_location(): brings what it finds up to date.
GetLastLocation(d) ==
    Done(MutateDevice(Disk, d, [Entry(Disk, d) EXCEPT !.location = Linked(@)]))

\* set_device_staleness()
SetDeviceStaleness(d) ==
    Done(MutateDevice(Disk, d, [Entry(Disk, d) EXCEPT !.staleness = "kept"]))

\* The file is written, removed or broken by hand, and gets a new time.
Outside ==
    /\ file' \in (Edits \union {None, Broken}) \ {file}
    /\ cache' = IF cache = None THEN None ELSE [cache EXCEPT !.fresh = FALSE]
    /\ hand' = ~hand
    /\ lost' = FALSE
    /\ UNCHANGED <<legacy, lastOk, reply>>

Restart ==
    /\ cache' = None /\ lastOk' = TRUE /\ lost' = FALSE
    /\ UNCHANGED <<file, legacy, reply, hand>>

Next ==
    \/ Read \/ Outside \/ Restart
    \/ \E listed \in Lists : Rows(listed)
    \/ \E d \in Busy :
         \/ \E blocks \in SUBSET (Urls \union {Blank}) : SaveForm(d, blocks)
         \/ \E urls \in SUBSET (Urls \union {Bare}) : SaveYaml(d, urls)
         \/ \E url \in Urls : SetEndpointState(d, url)
         \/ SetLastLocation(d) \/ GetLastLocation(d) \/ SetDeviceStaleness(d)

Spec == Init /\ [][Next]_vars

(***************************************************************************)
(* Properties.                                                             *)
(***************************************************************************)
Store == INSTANCE AtomicStore WITH content <- Normalized(ContentOf(file))

\* The file, its cached copy, the migrations on reading and the migration of the older
\* files are an atomic store: every operation sees what is in the file, whoever wrote
\* it, and changes the part of the one device that it is about.  A file that does not
\* parse counts as empty.
ImplementsAtomicStore == Store!Spec

\* What health() has to say of the store.
Unhealthy == ~lastOk

\* When the devices of a file that does not parse have been overwritten, /health says so
\* until the process ends or somebody writes the file.
LossIsReported == lost => Unhealthy

\* No save loses the name and model that polls send along, which only the account's
\* device list can tell.
MetaKept ==
    [][\A d \in Devices :
         LET before == Normalized(ContentOf(file))[d].config
             after  == Normalized(ContentOf(file'))[d].config
         IN  hand' = hand /\ before # None /\ before.meta # None
               => after # None /\ after.meta # None]_vars
=============================================================================
