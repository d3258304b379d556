------------------------- MODULE DeviceStoreProofs -------------------------
(***************************************************************************)
(* Theorems about devices.yaml, for any number of devices, endpoints and   *)
(* edits from outside: it is the atomic store it promises to be, a loss is *)
(* reported, and no save loses what only the account knows.                *)
(***************************************************************************)
EXTENDS DeviceStore, TLAPS

Disks == [file : Stores \union {None, Broken}, cache : Copies \union {None}, ok : BOOLEAN]

\* The cached copy is of the file as it is.
Hot(st) == st.cache \in [data : Stores, fresh : {TRUE}]

\* A copy that is taken for that of the file is that of the file.
Coherent(st) == st \in Disks /\ (Hot(st) => st.file = st.cache.data)

\* What one operation may make of the disk: a copy that is of the file stays so,
\* with what is said of its health; a broken file is still there, or has been
\* replaced by a process that says that it was broken.
Follows(st, next) ==
    /\ Coherent(next)
    /\ Hot(st) => Hot(next) /\ next.ok = st.ok
    /\ st.file = Broken => next.file = Broken \/ (Hot(next) /\ next.ok = FALSE)

\* As long as what was lost is not reported by anything else, the copy that was
\* written over it is used.
StoreInv ==
    /\ TypeOK
    /\ Coherent(Disk)
    /\ lost => Hot(Disk) /\ lastOk = FALSE

-----------------------------------------------------------------------------
(* The values.                                                             *)

LEMMA CurrentTyped ==
    ASSUME NEW config \in Configs \union {None}
    PROVE  /\ Current(config) \in Configs \union {None}
           /\ config = None <=> Current(config) = None
           /\ config # None => /\ Current(config).meta = config.meta
                               /\ Current(Current(config)).urls = Current(config).urls
<1>1. CASE config = None
  BY <1>1 DEF Current
<1>2. CASE config # None
  <2> DEFINE urls == (config.urls \ {Bare}) \union (IF Bare \in config.urls THEN {Blank} ELSE {})
             now == [config EXCEPT !.urls = urls, !.old = FALSE]
  <2>1. config \in Configs /\ urls \subseteq Endpoints /\ Bare \notin urls
    BY <1>2, StoreAssumption DEF Configs, Endpoints
  <2>2. Current(config) = now
    BY <1>2 DEF Current
  <2> HIDE DEF urls
  <2>3. now \in Configs /\ now.urls = urls /\ now.meta = config.meta
    BY <2>1 DEF Configs
  <2>4. now # None
    BY <2>3, StoreAssumption
  <2> HIDE DEF now
  <2>5. Current(now).urls = urls
    BY <2>1, <2>3, <2>4 DEF Current, Configs
  <2> QED
    BY <1>2, <2>2, <2>3, <2>4, <2>5
<1> QED
  BY <1>1, <1>2

\* Each part of an entry is brought up to date by itself.
LEMMA NormalizedParts ==
    ASSUME NEW store \in Stores
    PROVE  /\ Normalized(store) \in Stores
           /\ \A d \in Devices :
                 /\ Normalized(store)[d].config = Current(store[d].config)
                 /\ Normalized(store)[d].location = Linked(store[d].location)
                 /\ Normalized(store)[d].states = store[d].states
                 /\ Normalized(store)[d].staleness = store[d].staleness
<1> DEFINE up(e) == [e EXCEPT !.config = Current(@), !.location = Linked(@)]
<1>1. ASSUME NEW e \in Entries
      PROVE  /\ up(e) \in Entries
             /\ up(e).config = Current(e.config) /\ up(e).location = Linked(e.location)
             /\ up(e).states = e.states /\ up(e).staleness = e.staleness
  <2>1. Current(e.config) \in Configs \union {None}
    BY CurrentTyped DEF Entries
  <2>2. Linked(e.location) \in Locations
    BY DEF Linked, Locations
  <2> QED
    BY <2>1, <2>2 DEF Entries
<1> HIDE DEF up
<1>2. Normalized(store) = [d \in Devices |-> up(store[d])]
  BY DEF Normalized, up
<1> QED
  BY <1>1, <1>2 DEF Stores

LEMMA EmptyTyped == Empty \in Stores
<1>1. NoEntry \in Entries
  BY DEF NoEntry, Entries, Locations
<1> QED
  BY <1>1 DEF Empty, Stores

LEMMA ContentTyped ==
    ASSUME TypeOK, NEW f \in Stores \union {None, Broken}
    PROVE  ContentOf(f) \in Stores
BY EmptyTyped DEF ContentOf, TypeOK

-----------------------------------------------------------------------------
(* Reading and writing.                                                    *)

LEMMA SavedFollows ==
    ASSUME NEW st \in Disks, NEW data \in Stores
    PROVE  /\ Saved(st, data) \in Disks /\ Coherent(Saved(st, data)) /\ Hot(Saved(st, data))
           /\ Saved(st, data).file = data /\ Saved(st, data).ok = st.ok
<1> DEFINE copy == [data |-> data, fresh |-> TRUE]
<1>1. copy \in Copies /\ copy \in [data : Stores, fresh : {TRUE}] /\ copy.data = data
  BY DEF Copies
<1>2. Saved(st, data) = [st EXCEPT !.file = data, !.cache = copy]
  BY DEF Saved
<1> HIDE DEF copy
<1>3. /\ Saved(st, data) \in Disks /\ Saved(st, data).cache = copy
      /\ Saved(st, data).file = data /\ Saved(st, data).ok = st.ok
  BY <1>1, <1>2 DEF Disks
<1> QED
  BY <1>1, <1>3 DEF Coherent, Hot

\* A hit is of the file as it is.
LEMMA HitsAreHot ==
    ASSUME NEW st \in Disks
    PROVE  IsHit(st) <=> (Hot(st) /\ st.file # None)
<1>1. CASE st.cache = None
  <2>1. None \notin [data : Stores, fresh : {TRUE}]
    BY StoreAssumption DEF Copies
  <2> QED
    BY <1>1, <2>1 DEF IsHit, Hot
<1>2. CASE st.cache \in Copies
  <2>1. st.cache # None
    BY <1>2, StoreAssumption
  <2>2. st.cache.fresh \in BOOLEAN /\ st.cache = [data |-> st.cache.data, fresh |-> st.cache.fresh]
        /\ st.cache.data \in Stores
    BY <1>2 DEF Copies
  <2>3. Hot(st) <=> st.cache.fresh
    BY <2>2, Zenon DEF Hot
  <2> QED
    BY <2>1, <2>3 DEF IsHit
<1> QED
  BY <1>1, <1>2 DEF Disks

\* Reading gives what is in the file, or what stands for it.
LEMMA LoadFollows ==
    ASSUME TypeOK, NEW st, Coherent(st)
    PROVE  /\ Follows(st, Load(st).st)
           /\ Load(st).data \in Stores
           /\ Load(st).data = ContentOf(st.file)
           /\ ContentOf(Load(st).st.file) = ContentOf(st.file)
           /\ Hot(st) => Load(st).st = st
           /\ st.file = Broken => Load(st).st.file = Broken /\ Load(st).st.ok = FALSE
<1>0. st \in Disks /\ (IsHit(st) <=> (Hot(st) /\ st.file # None))
  BY HitsAreHot DEF Coherent
<1>1. CASE IsHit(st)
  <2>1. Load(st).st = st /\ Load(st).data = st.cache.data
    BY <1>1 DEF Load, Hit
  <2>2. Hot(st) /\ st.file = st.cache.data /\ st.cache.data \in Stores
    BY <1>0, <1>1 DEF Coherent, Hot
  <2>3. st.file # Broken /\ st.file # None /\ ContentOf(st.file) = st.file
    BY <2>2, StoreAssumption DEF ContentOf
  <2> QED
    BY <2>1, <2>2, <2>3 DEF Follows
<1>2. CASE ~IsHit(st) /\ st.file = None
  <2> DEFINE gone == [st EXCEPT !.cache = None, !.ok = TRUE]
  <2>1. gone \in Disks /\ gone.file = None /\ gone.cache = None
    BY <1>0, <1>2 DEF Disks
  <2>2. ~Hot(st) /\ ~Hot(gone) /\ Coherent(gone)
    <3>1. None \notin [data : Stores, fresh : {TRUE}]
      BY StoreAssumption DEF Copies
    <3>2. ~Hot(gone)
      BY <2>1, <3>1 DEF Hot
    <3>3. ~Hot(st)
      BY <1>0, <1>2, StoreAssumption DEF Coherent, Hot
    <3> QED
      BY <2>1, <3>2, <3>3 DEF Coherent
  <2>3. Load(st) = IF legacy = None THEN [st |-> gone, data |-> Empty]
                   ELSE [st |-> Saved(gone, legacy), data |-> legacy]
    BY <1>2 DEF Load, Missing
  <2> HIDE DEF gone
  <2>4. CASE legacy = None
    <3>1. Load(st).st = gone /\ Load(st).data = Empty
      BY <2>3, <2>4
    <3> QED
      BY <1>2, <2>1, <2>2, <2>4, <3>1, EmptyTyped, StoreAssumption DEF Follows, ContentOf
  <2>5. CASE legacy # None
    <3>1. Load(st).st = Saved(gone, legacy) /\ Load(st).data = legacy /\ legacy \in Stores
      BY <2>3, <2>5 DEF TypeOK
    <3>2. Coherent(Saved(gone, legacy)) /\ Saved(gone, legacy).file = legacy
      BY <2>1, <3>1, SavedFollows
    <3> QED
      BY <1>2, <2>2, <2>5, <3>1, <3>2, StoreAssumption DEF Follows, ContentOf
  <2> QED
    BY <2>4, <2>5
<1>3. CASE ~IsHit(st) /\ st.file = Broken
  <2> DEFINE blind == [st EXCEPT !.cache = None, !.ok = FALSE]
  <2>1. Load(st).st = blind /\ Load(st).data = Empty
    BY <1>3, StoreAssumption DEF Load, Unreadable
  <2>2. blind \in Disks /\ blind.file = Broken /\ blind.cache = None /\ blind.ok = FALSE
    BY <1>0, <1>3, Zenon DEF Disks
  <2>3. ~Hot(st) /\ ~Hot(blind)
    BY <1>0, <1>3, <2>2, StoreAssumption DEF Hot, Copies
  <2> HIDE DEF blind
  <2> QED
    BY <1>3, <2>1, <2>2, <2>3, EmptyTyped, StoreAssumption DEF Follows, Coherent, ContentOf
<1>4. CASE ~IsHit(st) /\ st.file \in Stores
  <2> DEFINE copy == [data |-> st.file, fresh |-> TRUE]
             read == [st EXCEPT !.cache = copy, !.ok = TRUE]
  <2>1. st.file # None /\ st.file # Broken /\ ContentOf(st.file) = st.file
    BY <1>4, StoreAssumption DEF ContentOf
  <2>2. Load(st).st = read /\ Load(st).data = st.file
    BY <1>4, <2>1 DEF Load, ReadFile
  <2>3. copy \in Copies /\ copy.data = st.file
    BY <1>4 DEF Copies
  <2>4. read \in Disks /\ read.file = st.file /\ read.cache = copy
    <3> HIDE DEF copy
    <3> QED
      BY <1>0, <2>3 DEF Disks
  <2>5. ~Hot(st)
    BY <1>0, <1>4, <2>1
  <2> HIDE DEF copy, read
  <2> QED
    BY <1>4, <2>1, <2>2, <2>3, <2>4, <2>5 DEF Follows, Coherent
<1> QED
  BY <1>0, <1>1, <1>2, <1>3, <1>4 DEF Disks

LEMMA FollowsIsTransitive ==
    ASSUME NEW a, NEW b, NEW c, Follows(a, b), Follows(b, c)
    PROVE  Follows(a, c)
BY DEF Follows

\* An operation changes one entry: reading first, and writing what has changed.
LEMMA MutateFollows ==
    ASSUME TypeOK, NEW st, Coherent(st), NEW d \in Devices, NEW entry \in Entries
    PROVE  /\ Follows(st, MutateDevice(st, d, entry))
           /\ ContentOf(MutateDevice(st, d, entry).file) = [ContentOf(st.file) EXCEPT ![d] = entry]
<1> DEFINE loaded == Load(st)
           data == [loaded.data EXCEPT ![d] = entry]
<1>1. /\ Follows(st, loaded.st) /\ loaded.data \in Stores
      /\ loaded.data = ContentOf(st.file) /\ ContentOf(loaded.st.file) = ContentOf(st.file)
      /\ Hot(st) => loaded.st = st
      /\ st.file = Broken => loaded.st.file = Broken /\ loaded.st.ok = FALSE
  BY LoadFollows
<1>2. MutateDevice(st, d, entry) = IF data = loaded.data THEN loaded.st ELSE Saved(loaded.st, data)
  BY DEF MutateDevice
<1>3. data \in Stores /\ data = [ContentOf(st.file) EXCEPT ![d] = entry]
  BY <1>1 DEF Stores
<1> HIDE DEF loaded, data
<1>4. CASE data = loaded.data
  BY <1>1, <1>2, <1>3, <1>4
<1>5. CASE data # loaded.data
  <2>1. loaded.st \in Disks
    BY <1>1 DEF Follows, Coherent
  <2>2. /\ Coherent(Saved(loaded.st, data)) /\ Hot(Saved(loaded.st, data))
        /\ Saved(loaded.st, data).file = data /\ Saved(loaded.st, data).ok = loaded.st.ok
    BY <1>3, <2>1, SavedFollows
  <2>3. ContentOf(data) = data
    BY <1>3, StoreAssumption DEF ContentOf
  <2>4. Follows(st, Saved(loaded.st, data))
    BY <1>1, <2>2 DEF Follows
  <2> QED
    BY <1>2, <1>3, <1>5, <2>2, <2>3, <2>4
<1> QED
  BY <1>4, <1>5

LEMMA EntryIsContent ==
    ASSUME TypeOK, NEW st, Coherent(st), NEW d \in Devices
    PROVE  Entry(st, d) = ContentOf(st.file)[d] /\ Entry(st, d) \in Entries
BY LoadFollows DEF Entry, Stores

-----------------------------------------------------------------------------
(* What an operation leaves behind.                                        *)

LEMMA DiskIsCoherent ==
    ASSUME StoreInv
    PROVE  /\ TypeOK /\ Coherent(Disk)
           /\ Disk.file = file /\ Disk.cache = cache /\ Disk.ok = lastOk
           /\ file \in Stores \union {None, Broken} /\ ContentOf(file) \in Stores
BY ContentTyped DEF StoreInv, Disk, TypeOK

\* An operation that makes st of the disk keeps what is known, and everybody sees
\* what is in the file now.
LEMMA DoneKeeps ==
    ASSUME StoreInv, NEW st, Follows(Disk, st), Done(st)
    PROVE  /\ StoreInv'
           /\ ContentOf(file)' = ContentOf(st.file)
           /\ Normalized(ContentOf(file))' = Normalized(ContentOf(st.file))
           /\ reply' = Normalized(ContentOf(file))'
           /\ hand' = hand
<1>1. /\ file' = st.file /\ cache' = st.cache /\ lastOk' = st.ok
      /\ reply' = Normalized(Load(st).data)
      /\ lost' = (lost \/ (file = Broken /\ st.file # Broken))
      /\ legacy' = legacy /\ hand' = hand
  BY DEF Done
<1>2. /\ TypeOK /\ Coherent(Disk)
      /\ Disk.file = file /\ Disk.cache = cache /\ Disk.ok = lastOk
  BY DiskIsCoherent
<1>3. /\ Coherent(st) /\ st \in Disks
      /\ Hot(Disk) => Hot(st) /\ st.ok = lastOk
      /\ file = Broken => st.file = Broken \/ (Hot(st) /\ st.ok = FALSE)
  BY <1>2 DEF Follows, Coherent
<1>4. Load(st).data \in Stores /\ Load(st).data = ContentOf(st.file)
  BY <1>2, <1>3, LoadFollows
<1>5. Disk' = st
  BY <1>1, <1>3 DEF Disk, Disks
<1>6. ContentOf(file)' = ContentOf(st.file)
  BY <1>1 DEF ContentOf
<1>7. TypeOK'
  <2>1. reply' \in Stores
    BY <1>1, <1>4, NormalizedParts
  <2>2. file' \in Stores \union {None, Broken} /\ cache' \in Copies \union {None} /\ lastOk' \in BOOLEAN
    BY <1>1, <1>3 DEF Disks
  <2>3. lost' \in BOOLEAN /\ hand' \in BOOLEAN
    BY <1>1, <1>2 DEF TypeOK
  <2> QED
    BY <1>1, <1>2, <2>1, <2>2, <2>3 DEF TypeOK
<1>8. lost' => Hot(Disk)' /\ lastOk' = FALSE
  <2>1. Hot(Disk)' <=> Hot(st)
    BY <1>5 DEF Hot
  <2>2. lost => Hot(Disk) /\ lastOk = FALSE
    BY DEF StoreInv
  <2> QED
    BY <1>1, <1>3, <2>1, <2>2
<1>9. Coherent(Disk)'
  BY <1>3, <1>5 DEF Coherent, Disks, Hot
<1>10. Normalized(ContentOf(file))' = Normalized(ContentOf(st.file))
  BY <1>6 DEF Normalized, Current, Linked
<1> QED
  BY <1>1, <1>4, <1>6, <1>7, <1>8, <1>9, <1>10 DEF StoreInv

\* What the program shows of the file.
Shown == Normalized(ContentOf(file))

\* One entry is replaced: the others are seen as they were.
LEMMA OneEntryIsSeen ==
    ASSUME StoreInv, NEW d \in Devices, NEW entry \in Entries,
           Shown' = Normalized([ContentOf(file) EXCEPT ![d] = entry])
    PROVE  /\ \A e \in Devices \ {d}, p \in Parts : Shown'[e][p] = Shown[e][p]
           /\ Shown'[d].config = Current(entry.config)
           /\ Shown'[d].location = Linked(entry.location)
           /\ Shown'[d].states = entry.states /\ Shown'[d].staleness = entry.staleness
           /\ Shown[d].config = Current(ContentOf(file)[d].config)
           /\ Shown[d].location = Linked(ContentOf(file)[d].location)
           /\ Shown[d].states = ContentOf(file)[d].states
           /\ Shown[d].staleness = ContentOf(file)[d].staleness
<1> DEFINE old == ContentOf(file)
           new == [old EXCEPT ![d] = entry]
<1>1. old \in Stores /\ new \in Stores
  BY DiskIsCoherent DEF Stores
<1>2. new[d] = entry /\ \A e \in Devices \ {d} : new[e] = old[e]
  BY <1>1 DEF Stores
<1> HIDE DEF old, new
<1>3. \A e \in Devices :
         /\ Normalized(old)[e].config = Current(old[e].config)
         /\ Normalized(old)[e].location = Linked(old[e].location)
         /\ Normalized(old)[e].states = old[e].states
         /\ Normalized(old)[e].staleness = old[e].staleness
  BY <1>1, NormalizedParts
<1>4. \A e \in Devices :
         /\ Normalized(new)[e].config = Current(new[e].config)
         /\ Normalized(new)[e].location = Linked(new[e].location)
         /\ Normalized(new)[e].states = new[e].states
         /\ Normalized(new)[e].staleness = new[e].staleness
  BY <1>1, NormalizedParts
<1>5. Shown = Normalized(old) /\ Shown' = Normalized(new)
  BY DEF Shown, old, new
<1>6. \A e \in Devices \ {d}, p \in Parts : Normalized(new)[e][p] = Normalized(old)[e][p]
  BY <1>2, <1>3, <1>4 DEF Parts
<1> QED
  BY <1>2, <1>3, <1>4, <1>5, <1>6 DEF old

\* What no operation of the program does: lose a name and model.
KeepsMeta ==
    \A d \in Devices :
        Shown[d].config # None /\ Shown[d].config.meta # None
            => Shown'[d].config # None /\ Shown'[d].config.meta # None

-----------------------------------------------------------------------------
(* The operations.                                                         *)

LEMMA ReadKeeps ==
    ASSUME StoreInv, Read
    PROVE  StoreInv' /\ Store!Read /\ KeepsMeta
<1>1. /\ TypeOK /\ Coherent(Disk) /\ Disk.file = file
  BY DiskIsCoherent
<1>2. Follows(Disk, Load(Disk).st) /\ ContentOf(Load(Disk).st.file) = ContentOf(file)
  BY <1>1, LoadFollows
<1>3. /\ StoreInv' /\ reply' = Shown' /\ hand' = hand
      /\ Shown' = Shown
  BY <1>2, DoneKeeps DEF Read, Shown
<1> QED
  BY <1>3 DEF Store!Read, Store!Seen, KeepsMeta, Shown

\* One module changes its part.
LEMMA PutKeeps ==
    ASSUME StoreInv, NEW d \in Devices, NEW entry \in Entries, NEW part \in Parts \ {"config"},
           \A p \in Parts \ {part} : entry[p] = ContentOf(file)[d][p],
           Done(MutateDevice(Disk, d, entry))
    PROVE  StoreInv' /\ Store!Put(d, part) /\ KeepsMeta
<1> DEFINE st == MutateDevice(Disk, d, entry)
<1>1. /\ TypeOK /\ Coherent(Disk) /\ Disk.file = file
  BY DiskIsCoherent
<1>2. Follows(Disk, st) /\ ContentOf(st.file) = [ContentOf(file) EXCEPT ![d] = entry]
  BY <1>1, MutateFollows
<1> HIDE DEF st
<1>3. /\ StoreInv' /\ reply' = Shown' /\ hand' = hand
      /\ Shown' = Normalized([ContentOf(file) EXCEPT ![d] = entry])
  BY <1>2, DoneKeeps DEF Shown, st
<1>4. /\ \A e \in Devices \ {d}, p \in Parts : Shown'[e][p] = Shown[e][p]
      /\ Shown'[d].config = Current(entry.config)
      /\ Shown'[d].location = Linked(entry.location)
      /\ Shown'[d].states = entry.states /\ Shown'[d].staleness = entry.staleness
      /\ Shown[d].config = Current(ContentOf(file)[d].config)
      /\ Shown[d].location = Linked(ContentOf(file)[d].location)
      /\ Shown[d].states = ContentOf(file)[d].states
      /\ Shown[d].staleness = ContentOf(file)[d].staleness
  BY <1>3, OneEntryIsSeen
<1>5. \A p \in Parts \ {part} : Shown'[d][p] = Shown[d][p]
  BY <1>4 DEF Parts
<1>6. Store!Put(d, part)
  <2>1. \A e \in Devices \ {d}, p \in Parts : Shown'[e][p] = Shown[e][p]
    BY <1>4
  <2> QED
    BY <1>3, <1>5, <2>1 DEF Store!Put, Store!Same, Store!Others, Store!Seen, Shown
<1>7. \A e \in Devices : Shown'[e].config = Shown[e].config
  BY <1>4, <1>5 DEF Parts
<1> QED
  BY <1>3, <1>6, <1>7 DEF KeepsMeta

\* The settings of a device are saved, and then the states of the endpoints that are
\* gone are taken out, or not.
LEMMA SaveKeeps ==
    ASSUME StoreInv, NEW d \in Devices, NEW config \in Configs, NEW urls,
           config.meta = Carried(Config(Disk, d)),
           \/ Done(SetConfig(Disk, d, config))
           \/ Done(PruneToUrls(SetConfig(Disk, d, config), d, urls))
    PROVE  StoreInv' /\ Store!Save(d) /\ KeepsMeta
<1> DEFINE old == ContentOf(file)
           saved == [old[d] EXCEPT !.config = config]
           pruned == [saved EXCEPT !.states = @ \intersect urls]
           first == SetConfig(Disk, d, config)
           second == PruneToUrls(first, d, urls)
<1>1. /\ TypeOK /\ Coherent(Disk) /\ Disk.file = file /\ old \in Stores
  BY DiskIsCoherent
<1>2. old[d] \in Entries /\ Entry(Disk, d) = old[d]
  BY <1>1, EntryIsContent
<1>3. /\ saved \in Entries /\ saved.config = config /\ saved.location = old[d].location
      /\ saved.states = old[d].states /\ saved.staleness = old[d].staleness
  BY <1>2 DEF Entries
<1> HIDE DEF old, saved
<1>4. /\ pruned \in Entries /\ pruned.config = config /\ pruned.location = saved.location
      /\ pruned.states \subseteq saved.states /\ pruned.staleness = saved.staleness
  BY <1>3 DEF Entries
<1> HIDE DEF pruned
<1>5. Follows(Disk, first) /\ ContentOf(first.file) = [old EXCEPT ![d] = saved]
  <2>1. first = MutateDevice(Disk, d, saved)
    BY <1>2 DEF SetConfig, saved
  <2> QED
    BY <1>1, <1>3, <2>1, MutateFollows DEF old
<1> HIDE DEF first
<1>6. Follows(Disk, second) /\ ContentOf(second.file) = [old EXCEPT ![d] = pruned]
  <2>1. Coherent(first)
    BY <1>5 DEF Follows
  <2>2. Entry(first, d) = saved
    BY <1>1, <1>5, <2>1, EntryIsContent DEF Stores
  <2>3. second = MutateDevice(first, d, pruned)
    BY <2>2 DEF PruneToUrls, pruned
  <2>4. Follows(first, second) /\ ContentOf(second.file) = [ContentOf(first.file) EXCEPT ![d] = pruned]
    BY <1>1, <1>4, <2>1, <2>3, MutateFollows
  <2>5. [[old EXCEPT ![d] = saved] EXCEPT ![d] = pruned] = [old EXCEPT ![d] = pruned]
    BY <1>1 DEF Stores
  <2> QED
    BY <1>5, <2>4, <2>5, FollowsIsTransitive
<1> HIDE DEF second
<1>7. PICK entry \in {saved, pruned} :
         /\ StoreInv' /\ reply' = Shown' /\ hand' = hand
         /\ Shown' = Normalized([ContentOf(file) EXCEPT ![d] = entry])
  <2>1. CASE Done(first)
    BY <1>5, <2>1, DoneKeeps DEF Shown, old
  <2>2. CASE Done(second)
    BY <1>6, <2>2, DoneKeeps DEF Shown, old
  <2> QED
    BY <2>1, <2>2 DEF first, second
<1>8. /\ entry \in Entries /\ entry.config = config /\ entry.location = old[d].location
      /\ entry.states \subseteq old[d].states /\ entry.staleness = old[d].staleness
  BY <1>3, <1>4
<1>9. /\ \A e \in Devices \ {d}, p \in Parts : Shown'[e][p] = Shown[e][p]
      /\ Shown'[d].config = Current(entry.config)
      /\ Shown'[d].location = Linked(entry.location)
      /\ Shown'[d].states = entry.states /\ Shown'[d].staleness = entry.staleness
      /\ Shown[d].config = Current(ContentOf(file)[d].config)
      /\ Shown[d].location = Linked(ContentOf(file)[d].location)
      /\ Shown[d].states = ContentOf(file)[d].states
      /\ Shown[d].staleness = ContentOf(file)[d].staleness
  BY <1>7, <1>8, OneEntryIsSeen
<1>10. Current(config) # None /\ Current(config).meta = config.meta
  <2>1. config # None
    BY StoreAssumption
  <2> QED
    BY <2>1, CurrentTyped
<1>11. \A p \in Parts \ {"config", "states"} : Shown'[d][p] = Shown[d][p]
  BY <1>8, <1>9 DEF Parts, old
<1>12. Store!Save(d)
  <2>1. Shown'[d].config # None /\ Shown'[d].states \subseteq Shown[d].states
    BY <1>8, <1>9, <1>10 DEF old
  <2> QED
    BY <1>7, <1>9, <1>11, <2>1 DEF Store!Save, Store!Same, Store!Others, Store!Seen, Shown
<1>13. Shown[d].config # None => Shown'[d].config.meta = Shown[d].config.meta
  <2>1. Config(Disk, d) = Shown[d].config
    BY <1>2, <1>9 DEF Config, old
  <2> QED
    BY <1>8, <1>9, <1>10, <2>1 DEF Carried
<1>14. \A e \in Devices \ {d} : Shown'[e].config = Shown[e].config
  BY <1>9 DEF Parts
<1>15. Shown'[d].config # None
  BY <1>8, <1>9, <1>10
<1> QED
  BY <1>7, <1>12, <1>13, <1>14, <1>15 DEF KeepsMeta

\* The account's names and models are copied to the devices that have settings.
LEMMA RowsKeeps ==
    ASSUME StoreInv, NEW listed \in Lists, Rows(listed)
    PROVE  StoreInv' /\ Store!Sync /\ KeepsMeta
<1> DEFINE old == ContentOf(file)
           loaded == Load(Disk)
           synced(d) == [old[d] EXCEPT !.config = Synced(@, listed[d])]
           data == [d \in Devices |-> synced(d)]
           st == IF data = old THEN loaded.st ELSE Saved(loaded.st, data)
<1>1. /\ TypeOK /\ Coherent(Disk) /\ Disk.file = file /\ old \in Stores
  BY DiskIsCoherent
<1>2. /\ Follows(Disk, loaded.st) /\ loaded.data = old
      /\ ContentOf(loaded.st.file) = old
      /\ Hot(Disk) => loaded.st = Disk
      /\ file = Broken => loaded.st.file = Broken /\ loaded.st.ok = FALSE
  BY <1>1, LoadFollows
<1>3. Done(st)
  BY <1>2 DEF Rows
<1>4. ASSUME NEW d \in Devices
      PROVE  /\ synced(d) \in Entries
             /\ synced(d).config = Synced(old[d].config, listed[d])
             /\ synced(d).location = old[d].location /\ synced(d).states = old[d].states
             /\ synced(d).staleness = old[d].staleness
             /\ old[d].config = None => synced(d).config = None
             /\ old[d].config # None =>
                  /\ Current(synced(d).config) # None
                  /\ Current(synced(d).config).urls = Current(old[d].config).urls
                  /\ Current(old[d].config).meta # None => Current(synced(d).config).meta # None
  <2>1. old[d] \in Entries /\ old[d].config \in Configs \union {None}
        /\ listed[d] \in Metas \union {None}
    BY <1>1, StoreAssumption DEF Stores, Entries
  <2> DEFINE was == old[d].config
             now == Synced(was, listed[d])
  <2>2. CASE was = None \/ listed[d] = None \/ was.meta = listed[d]
    <3>1. now = was
      BY <2>2 DEF Synced
    <3>2. synced(d) = old[d]
      BY <2>1, <3>1 DEF Entries
    <3> QED
      BY <2>1, <3>1, <3>2, CurrentTyped
  <2>3. CASE was # None /\ listed[d] # None /\ was.meta # listed[d]
    <3>1. now = [Current(was) EXCEPT !.meta = listed[d]]
      BY <2>3 DEF Synced
    <3>2. Current(was) \in Configs /\ Current(was) # None
          /\ Current(Current(was)).urls = Current(was).urls
      BY <2>1, <2>3, CurrentTyped
    <3>3. now \in Configs /\ now.meta = listed[d] /\ now.urls = Current(was).urls
      BY <2>1, <3>1, <3>2 DEF Configs
    <3>4. now # None
      BY <3>3, StoreAssumption
    <3>5. Current(now).urls = Current(Current(was)).urls
      <4> HIDE DEF now
      <4>1. Current(now) = [now EXCEPT !.urls = (now.urls \ {Bare}) \union (IF Bare \in now.urls THEN {Blank} ELSE {}),
                                       !.old = FALSE]
        BY <3>4 DEF Current
      <4>2. Current(Current(was)) = [Current(was) EXCEPT
               !.urls = (Current(was).urls \ {Bare}) \union (IF Bare \in Current(was).urls THEN {Blank} ELSE {}),
               !.old = FALSE]
        BY <3>2 DEF Current
      <4> QED
        BY <3>2, <3>3, <4>1, <4>2 DEF Configs
    <3>6. Current(now) # None /\ Current(now).meta = listed[d]
      BY <3>3, <3>4, CurrentTyped
    <3> HIDE DEF now
    <3>7. /\ synced(d) \in Entries /\ synced(d).config = now
          /\ synced(d).location = old[d].location /\ synced(d).states = old[d].states
          /\ synced(d).staleness = old[d].staleness
      BY <2>1, <3>3 DEF Entries, now
    <3> QED
      BY <2>3, <3>2, <3>5, <3>6, <3>7 DEF now
  <2> QED
    BY <2>2, <2>3
<1> HIDE DEF synced
<1>5. data \in Stores /\ \A d \in Devices : data[d] = synced(d)
  BY <1>4 DEF Stores
<1> HIDE DEF old, loaded, data
<1>6. Follows(Disk, st) /\ ContentOf(st.file) = data
  <2>1. CASE data = old
    BY <1>2, <2>1
  <2>2. CASE data # old
    <3>1. loaded.st \in Disks
      BY <1>2 DEF Follows, Coherent
    <3>2. /\ Coherent(Saved(loaded.st, data)) /\ Hot(Saved(loaded.st, data))
          /\ Saved(loaded.st, data).file = data /\ Saved(loaded.st, data).ok = loaded.st.ok
      BY <1>5, <3>1, SavedFollows
    <3> QED
      BY <1>1, <1>2, <1>5, <2>2, <3>2, StoreAssumption DEF Follows, ContentOf
  <2> QED
    BY <2>1, <2>2
<1> HIDE DEF st
<1>7. /\ StoreInv' /\ reply' = Shown' /\ hand' = hand /\ Shown' = Normalized(data)
  BY <1>3, <1>6, DoneKeeps DEF Shown
<1>8. \A d \in Devices :
         /\ Shown[d].config = Current(old[d].config)
         /\ Shown[d].location = Linked(old[d].location)
         /\ Shown[d].states = old[d].states
         /\ Shown[d].staleness = old[d].staleness
  BY <1>1, NormalizedParts DEF Shown, old
<1>9. \A d \in Devices :
         /\ Shown'[d].config = Current(synced(d).config)
         /\ Shown'[d].location = Linked(synced(d).location)
         /\ Shown'[d].states = synced(d).states
         /\ Shown'[d].staleness = synced(d).staleness
  BY <1>5, <1>7, NormalizedParts
<1>10. \A d \in Devices : Shown[d].config = None => old[d].config = None
  <2>1. \A d \in Devices : old[d].config \in Configs \union {None}
    BY <1>1 DEF old, Stores, Entries
  <2> QED
    BY <1>8, <2>1, CurrentTyped
<1>11. \A d \in Devices : Shown[d].config # None => old[d].config # None
  BY <1>8 DEF Current
<1>12. Store!Sync
  <2>1. \A d \in Devices, p \in Parts \ {"config"} : Shown'[d][p] = Shown[d][p]
    BY <1>4, <1>8, <1>9 DEF Parts
  <2>2. \A d \in Devices : Shown[d].config = None => Shown'[d].config = None
    BY <1>4, <1>9, <1>10 DEF Current
  <2>3. \A d \in Devices :
            Shown[d].config # None =>
               Shown'[d].config # None /\ Shown'[d].config.urls = Shown[d].config.urls
    BY <1>4, <1>8, <1>9, <1>11
  <2> QED
    BY <1>7, <2>1, <2>2, <2>3 DEF Store!Sync, Store!Same, Store!Seen, Shown
<1>13. KeepsMeta
  BY <1>4, <1>8, <1>9, <1>11 DEF KeepsMeta
<1> QED
  BY <1>7, <1>12, <1>13

\* What an editor saves is typed, and carries the name and model on file.
LEMMA FormTyped ==
    ASSUME StoreInv, NEW d \in Devices, NEW urls, urls \subseteq Endpoints
    PROVE  [urls |-> urls, meta |-> Carried(Config(Disk, d)), old |-> FALSE] \in Configs
<1>1. Entry(Disk, d) \in Entries
  BY DiskIsCoherent, EntryIsContent
<1>2. Config(Disk, d) \in Configs \union {None}
  BY <1>1, CurrentTyped DEF Config, Entries
<1>3. Carried(Config(Disk, d)) \in Metas \union {None}
  BY <1>2 DEF Carried, Configs
<1> QED
  BY <1>3 DEF Configs

LEMMA SaveFormKeeps ==
    ASSUME StoreInv, NEW d \in Devices, NEW blocks \in SUBSET (Urls \union {Blank}),
           SaveForm(d, blocks)
    PROVE  StoreInv' /\ Store!Save(d) /\ KeepsMeta
<1> DEFINE config == [urls |-> Posted(blocks), meta |-> Carried(Config(Disk, d)), old |-> FALSE]
<1>1. config \in Configs
  BY FormTyped DEF Posted, Endpoints
<1>2. config.meta = Carried(Config(Disk, d))
  OBVIOUS
<1>3. Done(PruneToUrls(SetConfig(Disk, d, config), d, Posted(blocks)))
  BY DEF SaveForm
<1> HIDE DEF config
<1> QED
  BY <1>1, <1>2, <1>3, SaveKeeps

LEMMA SaveYamlKeeps ==
    ASSUME StoreInv, NEW d \in Devices, NEW urls \in SUBSET (Urls \union {Bare}),
           SaveYaml(d, urls)
    PROVE  StoreInv' /\ Store!Save(d) /\ KeepsMeta
<1> DEFINE config == [urls |-> urls, meta |-> Carried(Config(Disk, d)), old |-> FALSE]
<1>1. config \in Configs
  BY FormTyped DEF Endpoints
<1>2. config.meta = Carried(Config(Disk, d))
  OBVIOUS
<1>3. Done(IF Bare \in urls THEN SetConfig(Disk, d, config)
           ELSE PruneToUrls(SetConfig(Disk, d, config), d, urls))
  BY DEF SaveYaml
<1> HIDE DEF config
<1>4. CASE Bare \in urls
  <2>1. Done(SetConfig(Disk, d, config))
    BY <1>3, <1>4
  <2> QED
    BY <1>1, <1>2, <2>1, SaveKeeps
<1>5. CASE Bare \notin urls
  <2>1. Done(PruneToUrls(SetConfig(Disk, d, config), d, urls))
    BY <1>3, <1>5
  <2> QED
    BY <1>1, <1>2, <2>1, SaveKeeps
<1> QED
  BY <1>4, <1>5

LEMMA SetEndpointStateKeeps ==
    ASSUME StoreInv, NEW d \in Devices, NEW url \in Urls, SetEndpointState(d, url)
    PROVE  StoreInv' /\ Store!Put(d, "states") /\ KeepsMeta
<1> DEFINE old == ContentOf(file)[d]
           entry == [old EXCEPT !.states = @ \union {url}]
<1>1. old \in Entries /\ Entry(Disk, d) = old
  BY DiskIsCoherent, EntryIsContent
<1>2. Done(MutateDevice(Disk, d, entry))
  BY <1>1 DEF SetEndpointState
<1>3. entry \in Entries /\ entry.config = old.config /\ entry.location = old.location
      /\ entry.staleness = old.staleness
  BY <1>1 DEF Entries
<1> HIDE DEF entry
<1>4. \A p \in Parts \ {"states"} : entry[p] = old[p]
  BY <1>3 DEF Parts
<1> QED
  BY <1>2, <1>3, <1>4, PutKeeps DEF Parts

LEMMA SetLastLocationKeeps ==
    ASSUME StoreInv, NEW d \in Devices, SetLastLocation(d)
    PROVE  StoreInv' /\ Store!Put(d, "location") /\ KeepsMeta
<1> DEFINE old == ContentOf(file)[d]
           entry == [old EXCEPT !.location = "linked"]
<1>1. old \in Entries /\ Entry(Disk, d) = old
  BY DiskIsCoherent, EntryIsContent
<1>2. Done(MutateDevice(Disk, d, entry))
  BY <1>1 DEF SetLastLocation
<1>3. entry \in Entries /\ entry.config = old.config /\ entry.states = old.states
      /\ entry.staleness = old.staleness
  BY <1>1 DEF Entries, Locations
<1> HIDE DEF entry
<1>4. \A p \in Parts \ {"location"} : entry[p] = old[p]
  BY <1>3 DEF Parts
<1> QED
  BY <1>2, <1>3, <1>4, PutKeeps DEF Parts

LEMMA GetLastLocationKeeps ==
    ASSUME StoreInv, NEW d \in Devices, GetLastLocation(d)
    PROVE  StoreInv' /\ Store!Put(d, "location") /\ KeepsMeta
<1> DEFINE old == ContentOf(file)[d]
           entry == [old EXCEPT !.location = Linked(@)]
<1>1. old \in Entries /\ Entry(Disk, d) = old
  BY DiskIsCoherent, EntryIsContent
<1>2. Done(MutateDevice(Disk, d, entry))
  BY <1>1 DEF GetLastLocation
<1>3. entry \in Entries /\ entry.config = old.config /\ entry.states = old.states
      /\ entry.staleness = old.staleness
  BY <1>1 DEF Entries, Locations, Linked
<1> HIDE DEF entry
<1>4. \A p \in Parts \ {"location"} : entry[p] = old[p]
  BY <1>3 DEF Parts
<1> QED
  BY <1>2, <1>3, <1>4, PutKeeps DEF Parts

LEMMA SetDeviceStalenessKeeps ==
    ASSUME StoreInv, NEW d \in Devices, SetDeviceStaleness(d)
    PROVE  StoreInv' /\ Store!Put(d, "staleness") /\ KeepsMeta
<1> DEFINE old == ContentOf(file)[d]
           entry == [old EXCEPT !.staleness = "kept"]
<1>1. old \in Entries /\ Entry(Disk, d) = old
  BY DiskIsCoherent, EntryIsContent
<1>2. Done(MutateDevice(Disk, d, entry))
  BY <1>1 DEF SetDeviceStaleness
<1>3. entry \in Entries /\ entry.config = old.config /\ entry.states = old.states
      /\ entry.location = old.location
  BY <1>1 DEF Entries
<1> HIDE DEF entry
<1>4. \A p \in Parts \ {"staleness"} : entry[p] = old[p]
  BY <1>3 DEF Parts
<1> QED
  BY <1>2, <1>3, <1>4, PutKeeps DEF Parts

\* An edit from outside makes the copy one of a file that is gone, so that it is not
\* taken for the file's again.
LEMMA OutsideKeeps ==
    ASSUME StoreInv, Outside
    PROVE  StoreInv' /\ Store!Outside /\ hand' # hand
<1>1. file' \in Stores \union {None, Broken}
  BY StoreAssumption DEF Outside
<1>2. cache' \in Copies \union {None} /\ cache' \notin [data : Stores, fresh : {TRUE}]
  <2>1. CASE cache = None
    BY <2>1, StoreAssumption DEF Outside, Copies
  <2>2. CASE cache # None
    <3>1. cache \in Copies
      BY <2>2 DEF StoreInv, TypeOK
    <3>2. cache' = [data |-> cache.data, fresh |-> FALSE] /\ cache.data \in Stores
      BY <2>2, <3>1 DEF Outside, Copies
    <3> DEFINE stale == [data |-> cache.data, fresh |-> FALSE]
    <3>3. stale \in Copies
      BY <3>2, Zenon DEF Copies
    <3>4. stale \notin [data : Stores, fresh : {TRUE}]
      <4>1. stale.fresh = FALSE
        OBVIOUS
      <4> HIDE DEF stale
      <4> QED
        BY <4>1
    <3> QED
      BY <3>2, <3>3, <3>4
  <2> QED
    BY <2>1, <2>2
<1>3. TypeOK'
  BY <1>1, <1>2 DEF StoreInv, TypeOK, Outside
<1>4. Disk' \in Disks /\ ~Hot(Disk)'
  BY <1>2, <1>3, Zenon DEF Hot, Disk, Disks, TypeOK
<1>5. hand \in BOOLEAN /\ hand' = ~hand /\ reply' = reply /\ lost' = FALSE
  BY DEF Outside, StoreInv, TypeOK
<1> QED
  BY <1>3, <1>4, <1>5 DEF StoreInv, Coherent, Hot, Store!Outside

\* A process that starts knows nothing, and shows the file as it is.
LEMMA RestartKeeps ==
    ASSUME StoreInv, Restart
    PROVE  StoreInv' /\ UNCHANGED <<Shown, reply, hand>> /\ KeepsMeta
<1>1. TypeOK'
  BY DEF StoreInv, TypeOK, Restart
<1>2. Disk' \in Disks /\ ~Hot(Disk)'
  BY <1>1, StoreAssumption DEF Restart, Hot, Disk, Disks, TypeOK, Copies
<1>3. Shown' = Shown
  BY DEF Restart, Shown, ContentOf, Normalized, Current, Linked
<1> QED
  BY <1>1, <1>2, <1>3 DEF StoreInv, Coherent, Hot, Restart, KeepsMeta

-----------------------------------------------------------------------------
(* The invariant, and every step as one of the atomic store.               *)

LEMMA InitStoreInv ==
    ASSUME Init
    PROVE  StoreInv /\ Store!Init
<1>1. file \in Stores \union {None, Broken} /\ legacy \in Stores \union {None}
  BY StoreAssumption DEF Init
<1>2. ContentOf(file) \in Stores
  BY <1>1, EmptyTyped DEF ContentOf
<1>3. reply \in Stores
  BY <1>2, NormalizedParts DEF Init
<1>4. TypeOK
  BY <1>1, <1>3 DEF Init, TypeOK
<1>5. Disk \in Disks /\ ~Hot(Disk)
  BY <1>4, StoreAssumption DEF Init, Hot, Disk, Disks, TypeOK, Copies
<1> QED
  BY <1>4, <1>5 DEF StoreInv, Coherent, Init, Store!Init

LEMMA StepKeeps ==
    ASSUME StoreInv, [Next]_vars
    PROVE  /\ StoreInv'
           /\ [Store!Next]_(Store!vars)
           /\ hand' = hand => KeepsMeta
<1>1. CASE Read
  BY <1>1, ReadKeeps DEF Store!Next
<1>2. CASE Outside
  BY <1>2, OutsideKeeps DEF Store!Next
<1>3. CASE Restart
  BY <1>3, RestartKeeps DEF Store!vars, Shown
<1>4. ASSUME NEW listed \in Lists, Rows(listed)
      PROVE  StoreInv' /\ Store!Sync /\ KeepsMeta
  BY <1>4, RowsKeeps
<1>5. ASSUME NEW d \in Devices,
             \/ \E blocks \in SUBSET (Urls \union {Blank}) : SaveForm(d, blocks)
             \/ \E urls \in SUBSET (Urls \union {Bare}) : SaveYaml(d, urls)
      PROVE  StoreInv' /\ Store!Save(d) /\ KeepsMeta
  BY <1>5, SaveFormKeeps, SaveYamlKeeps
<1>6. ASSUME NEW d \in Devices,
             \/ \E url \in Urls : SetEndpointState(d, url)
             \/ SetLastLocation(d) \/ GetLastLocation(d) \/ SetDeviceStaleness(d)
      PROVE  StoreInv' /\ (\E part \in Parts : Store!Put(d, part)) /\ KeepsMeta
  <2>1. \A part \in {"states", "location", "staleness"} : part \in Parts
    BY DEF Parts
  <2>2. CASE \E url \in Urls : SetEndpointState(d, url)
    BY <2>1, <2>2, SetEndpointStateKeeps
  <2>3. CASE SetLastLocation(d)
    BY <2>1, <2>3, SetLastLocationKeeps
  <2>4. CASE GetLastLocation(d)
    BY <2>1, <2>4, GetLastLocationKeeps
  <2>5. CASE SetDeviceStaleness(d)
    BY <2>1, <2>5, SetDeviceStalenessKeeps
  <2> QED
    BY <1>6, <2>2, <2>3, <2>4, <2>5
<1>7. CASE \E listed \in Lists : Rows(listed)
  BY <1>4, <1>7 DEF Store!Next
<1>8. CASE \E d \in Busy :
             \/ \E blocks \in SUBSET (Urls \union {Blank}) : SaveForm(d, blocks)
             \/ \E urls \in SUBSET (Urls \union {Bare}) : SaveYaml(d, urls)
             \/ \E url \in Urls : SetEndpointState(d, url)
             \/ SetLastLocation(d) \/ GetLastLocation(d) \/ SetDeviceStaleness(d)
  <2>1. PICK d \in Devices :
             \/ (\/ \E blocks \in SUBSET (Urls \union {Blank}) : SaveForm(d, blocks)
                 \/ \E urls \in SUBSET (Urls \union {Bare}) : SaveYaml(d, urls))
             \/ (\/ \E url \in Urls : SetEndpointState(d, url)
                 \/ SetLastLocation(d) \/ GetLastLocation(d) \/ SetDeviceStaleness(d))
    BY <1>8, StoreAssumption
  <2>2. /\ StoreInv' /\ KeepsMeta
        /\ Store!Save(d) \/ \E part \in Parts : Store!Put(d, part)
    BY <1>5, <1>6, <2>1
  <2> QED
    BY <2>2 DEF Store!Next
<1>9. CASE UNCHANGED vars
  <2>1. Shown' = Shown
    BY <1>9 DEF vars, Shown, ContentOf, Normalized, Current, Linked
  <2>2. StoreInv'
    BY <1>9 DEF vars, StoreInv, TypeOK, Coherent, Hot, Disk
  <2> QED
    BY <1>9, <2>1, <2>2 DEF vars, Store!vars, KeepsMeta, Shown
<1> QED
  BY <1>1, <1>2, <1>3, <1>7, <1>8, <1>9 DEF Next

LEMMA StoreInvHolds == Spec => []StoreInv
<1>1. Init => StoreInv
  BY InitStoreInv
<1>2. StoreInv /\ [Next]_vars => StoreInv'
  BY StepKeeps
<1> QED
  BY <1>1, <1>2, PTL DEF Spec

-----------------------------------------------------------------------------
\* Whatever the file holds when it is read, the store and its copy keep their shape:
\* what load() gives is a store, and the copy is of one.
THEOREM StoreTypesHold == Spec => []TypeOK
<1>1. StoreInv => TypeOK
  BY DEF StoreInv
<1> QED
  BY <1>1, StoreInvHolds, PTL

\* Whatever is written into devices.yaml from outside, and whenever the process ends,
\* the devices of a file that does not parse are not overwritten without /health
\* saying so: a read that would say otherwise does not take place, as the copy that
\* replaced them is used (_load(), save()).
THEOREM LossIsReportedHolds == Spec => []LossIsReported
<1>1. StoreInv => LossIsReported
  BY DEF StoreInv, LossIsReported, Unhealthy
<1> QED
  BY <1>1, StoreInvHolds, PTL

\* devices.yaml with its cached copy and its migrations is one mapping that every
\* operation reads as it is and changes in the one part of the one device that it is
\* about: each step of device_store.py and of its users is a step of AtomicStore.
THEOREM ImplementsAtomicStoreHolds == Spec => ImplementsAtomicStore
<1>1. Init => Store!Init
  BY InitStoreInv
<1>2. StoreInv /\ [Next]_vars => [Store!Next]_(Store!vars)
  BY StepKeeps
<1> QED
  BY <1>1, <1>2, StoreInvHolds, PTL DEF Spec, ImplementsAtomicStore, Store!Spec

\* No save from the form, the YAML editor or the device list loses the name and model
\* that only the account's device list can tell, whatever the shapes on file.
THEOREM MetaKeptHolds == Spec => MetaKept
<1> DEFINE Kept ==
             \A d \in Devices :
               LET before == Normalized(ContentOf(file))[d].config
                   after  == Normalized(ContentOf(file'))[d].config
               IN  hand' = hand /\ before # None /\ before.meta # None
                     => after # None /\ after.meta # None
<1>1. StoreInv /\ [Next]_vars => [Kept]_vars
  <2> SUFFICES ASSUME StoreInv, [Next]_vars, ~UNCHANGED vars
               PROVE  Kept
    OBVIOUS
  <2>1. hand' = hand => KeepsMeta
    BY StepKeeps
  <2>2. legacy' = legacy
    BY DEF Next, Read, Rows, SaveForm, SaveYaml, SetEndpointState, SetLastLocation,
           GetLastLocation, SetDeviceStaleness, Outside, Restart, Done
  <2>3. Shown' = Normalized(ContentOf(file'))
    BY <2>2 DEF Shown, ContentOf, Normalized, Current, Linked
  <2> QED
    BY <2>1, <2>3 DEF KeepsMeta, Shown
<1> QED
  BY <1>1, StoreInvHolds, PTL DEF Spec, MetaKept
=============================================================================
