---------------------- MODULE BackgroundLoopsProofs ----------------------
(***************************************************************************)
(* What the two loops that the server runs beside its pages guarantee:     *)
(* the staleness alerts for every choice of thresholds, repeats and sweep  *)
(* interval, and the upload of advertisement identifiers for every         *)
(* rotation period, covered range and number of slots.                     *)
(*                                                                         *)
(* Alerts.  The check looks at the stored readings and the mark, which     *)
(* each response replaces in its own way; the inductive invariant says     *)
(* that together they have the newest reading ever received, and that the  *)
(* streak on file remembers the last alert for as long as it stands.       *)
(*                                                                         *)
(* Uploads.  An estimate that a tracker's key opened is off by no more     *)
(* than rounding and delay explain; what was announced reaches from now to *)
(* the end of the covered range without a gap.                             *)
(***************************************************************************)
EXTENDS Staleness, EidUpload, TLAPS

\* The least member is the minimum.
LEMMA MinIs ==
    ASSUME NEW S \in SUBSET Int, NEW m \in S, \A y \in S : m <= y
    PROVE  Min(S) = m
<1>1. \E x \in S : \A y \in S : x <= y
    OBVIOUS
<1>2. Min(S) \in S /\ \A y \in S : Min(S) <= y
    BY <1>1 DEF Min
<1>3. Min(S) \in Int /\ m \in Int /\ Min(S) <= m /\ m <= Min(S)
    BY <1>2
<1> QED
    BY <1>3

\* Of two ages the youngest is the smaller one, if both count.
LEMMA YoungestOfTwo ==
    ASSUME NEW a \in MaybeAge, NEW b \in MaybeAge
    PROVE  Youngest({a, b}) = IF a = None THEN b ELSE IF b = None THEN a
                              ELSE IF a <= b THEN a ELSE b
<1> USE StalenessAssumption DEF Ages, MaybeAge
<1>1. CASE a = None /\ b = None
    BY <1>1 DEF Youngest
<1>2. CASE a = None /\ b # None
    <2>1. {a, b} \ {None} = {b}
        BY <1>2
    <2>2. Min({b}) = b
        BY <1>2, MinIs
    <2> QED
        BY <1>2, <2>1, <2>2 DEF Youngest
<1>3. CASE a # None /\ b = None
    <2>1. {a, b} \ {None} = {a}
        BY <1>3
    <2>2. Min({a}) = a
        BY <1>3, MinIs
    <2> QED
        BY <1>3, <2>1, <2>2 DEF Youngest
<1>4. CASE a # None /\ b # None
    <2>1. {a, b} \ {None} = {a, b}
        BY <1>4
    <2>2. Min({a, b}) = IF a <= b THEN a ELSE b
        <3>1. CASE a <= b
            BY <1>4, <3>1, MinIs
        <3>2. CASE ~(a <= b)
            BY <1>4, <3>2, MinIs
        <3> QED
            BY <3>1, <3>2
    <2> QED
        BY <1>4, <2>1, <2>2 DEF Youngest
<1> QED
    BY <1>1, <1>2, <1>3, <1>4

\* Three ages are compared two at a time.
LEMMA YoungestOfThree ==
    ASSUME NEW a \in MaybeAge, NEW b \in MaybeAge, NEW c \in MaybeAge
    PROVE  Youngest({a, b, c}) = Youngest({Youngest({a, b}), c})
<1> USE StalenessAssumption DEF Ages, MaybeAge
<1>1. CASE c = None
    <2>1. CASE a = None
        <3>1. {a, b, c} = {a, b}
            BY <1>1, <2>1
        <3>2. Youngest({a, b}) \in MaybeAge
            BY YoungestOfTwo
        <3> QED
            BY <1>1, <3>1, <3>2, YoungestOfTwo
    <2>2. CASE b = None
        <3>1. {a, b, c} = {a, b}
            BY <1>1, <2>2
        <3>2. Youngest({a, b}) \in MaybeAge
            BY YoungestOfTwo
        <3> QED
            BY <1>1, <3>1, <3>2, YoungestOfTwo
    <2>3. CASE a # None /\ b # None
        <3>1. {a, b, c} \ {None} = {a, b} \ {None}
            BY <1>1
        <3>2. Youngest({a, b, c}) = Youngest({a, b})
            BY <2>3, <3>1 DEF Youngest
        <3>3. Youngest({a, b}) \in MaybeAge
            BY YoungestOfTwo
        <3> QED
            BY <1>1, <3>2, <3>3, YoungestOfTwo
    <2> QED
        BY <2>1, <2>2, <2>3
<1>2. CASE c # None /\ a = None
    <2>1. {a, b, c} \ {None} = {b, c} \ {None}
        BY <1>2
    <2>2. Youngest({a, b, c}) = Youngest({b, c})
        BY <1>2, <2>1 DEF Youngest
    <2>3. Youngest({a, b}) = b
        BY <1>2, YoungestOfTwo
    <2> QED
        BY <2>2, <2>3
<1>3. CASE c # None /\ b = None
    <2>1. {a, b, c} \ {None} = {a, c} \ {None}
        BY <1>3
    <2>2. Youngest({a, b, c}) = Youngest({a, c})
        BY <1>3, <2>1 DEF Youngest
    <2>3. Youngest({a, b}) = a
        BY <1>3, YoungestOfTwo
    <2> QED
        BY <2>2, <2>3
<1>4. CASE a # None /\ b # None /\ c # None
    <2> DEFINE two == IF a <= b THEN a ELSE b
               three == IF two <= c THEN two ELSE c
    <2>1. {a, b, c} \ {None} = {a, b, c}
        BY <1>4
    <2>2. Min({a, b, c}) = three
        <3>1. three \in {a, b, c} /\ \A y \in {a, b, c} : three <= y
            BY <1>4
        <3>2. {a, b, c} \in SUBSET Int
            BY <1>4
        <3> HIDE DEF three
        <3> QED
            BY <3>1, <3>2, MinIs
    <2>3. Youngest({a, b}) = two /\ two \in MaybeAge /\ two # None
        BY <1>4, YoungestOfTwo
    <2>4. Youngest({two, c}) = three
        BY <1>4, <2>3, YoungestOfTwo
    <2>5. Youngest({a, b, c}) = Min({a, b, c})
        BY <1>4, <2>1 DEF Youngest
    <2> QED
        BY <2>2, <2>3, <2>4, <2>5
<1> QED
    BY <1>1, <1>2, <1>3, <1>4

\* The youngest of some ages is an age.
LEMMA YoungestAge ==
    /\ \A a, b \in MaybeAge : Youngest({a, b}) \in MaybeAge
    /\ \A a, b, c \in MaybeAge : Youngest({a, b, c}) \in MaybeAge
<1>1. \A a, b \in MaybeAge : Youngest({a, b}) \in MaybeAge
    BY YoungestOfTwo
<1>2. ASSUME NEW a \in MaybeAge, NEW b \in MaybeAge, NEW c \in MaybeAge
      PROVE  Youngest({a, b, c}) \in MaybeAge
    <2>1. Youngest({a, b}) \in MaybeAge
        BY <1>1
    <2>2. Youngest({Youngest({a, b}), c}) \in MaybeAge
        BY <1>1, <2>1
    <2> QED
        BY <2>2, YoungestOfThree
<1> QED
    BY <1>1, <1>2

\* Time passes up to Cap.
LEMMA OlderAge ==
    ASSUME NEW a \in MaybeAge
    PROVE  Older(a) = IF a = None THEN None ELSE IF a < Cap THEN a + 1 ELSE Cap
<1>1. CASE a = None
    BY <1>1 DEF Older
<1> SUFFICES ASSUME a # None
             PROVE  Min({a + 1, Cap}) = IF a < Cap THEN a + 1 ELSE Cap
    BY <1>1 DEF Older
<1> USE StalenessAssumption DEF Ages, MaybeAge
<1>2. CASE a < Cap
    <2>1. {a + 1, Cap} \in SUBSET Int /\ \A y \in {a + 1, Cap} : a + 1 <= y
        BY <1>2
    <2> QED
        BY <1>2, <2>1, MinIs
<1>3. CASE ~(a < Cap)
    <2>1. {a + 1, Cap} \in SUBSET Int /\ \A y \in {a + 1, Cap} : Cap <= y
        BY <1>3
    <2> QED
        BY <1>3, <2>1, MinIs
<1> QED
    BY <1>2, <1>3

\* The stored readings and the mark together have the newest reading received.
BestIsNewest == best = Newest(list, mark)

\* The streak on file remembers the alert that stands.
StreakIsKept == quiet # None => alert.active /\ alert.sent = quiet

StalenessInv == StalenessTypeOK /\ BestIsNewest /\ StreakIsKept

\* What a check of a device may do to the streak; it alerts only when the newest reading is
\* too old, and again only after the time that was chosen.
LEMMA CheckDeviceIsSound ==
    ASSUME StalenessTypeOK, StreakIsKept, NEW age \in MaybeAge, CheckDevice(age)
    PROVE  /\ alert' \in [active : BOOLEAN, sent : MaybeAge]
           /\ notice' \in {"none", "alert", "recovered"}
           /\ quiet' \in MaybeAge
           /\ StreakIsKept'
           /\ notice' = "alert" => age > cfg.threshold
           /\ notice' = "alert" /\ quiet # None => cfg.repeat # None /\ quiet >= cfg.repeat
<1>1. 0 \in MaybeAge /\ None \in MaybeAge /\ 0 # None
    BY StalenessAssumption DEF MaybeAge, Ages
<1>2. CASE Sends /\ IsStale(age) /\ ShouldFire(alert)
    <2>1. alert' = [active |-> TRUE, sent |-> 0] /\ notice' = "alert" /\ quiet' = 0
        BY <1>2 DEF Sends
    <2>2. age > cfg.threshold
        BY <1>2 DEF IsStale
    <2>3. quiet # None => cfg.repeat # None /\ quiet >= cfg.repeat
        BY <1>2 DEF StreakIsKept, ShouldFire, MayRepeat
    <2> QED
        BY <1>1, <2>1, <2>2, <2>3 DEF StreakIsKept
<1>3. CASE SaysNothing
    BY <1>3 DEF SaysNothing, StreakIsKept, StalenessTypeOK
<1>4. CASE Recovers
    BY <1>1, <1>4 DEF Recovers, NoStreak, StreakIsKept
<1> QED
    BY <1>2, <1>3, <1>4 DEF CheckDevice

\* A response moves the mark so that nothing that it leaves out is forgotten.
LEMMA ReceivedIsKept ==
    ASSUME StalenessTypeOK, BestIsNewest, NEW age \in MaybeAge, Received(age)
    PROVE  /\ {list', mark', best'} \subseteq MaybeAge
           /\ BestIsNewest'
           /\ best' = Newest(age, MarkWith(list, mark, age))
<1> DEFINE old == Youngest({list, mark})
<1>1. {list, mark, best, age} \subseteq MaybeAge /\ old \in MaybeAge /\ best = old
    BY YoungestAge DEF StalenessTypeOK, MaybeAge, BestIsNewest, Newest
<1>2. list' = age /\ mark' = Youngest({list, mark, age}) /\ best' = Youngest({best, age})
    BY DEF Received, MarkWith
<1>3. mark' = Youngest({old, age}) /\ best' = Youngest({old, age})
    BY <1>1, <1>2, YoungestOfThree
<1> HIDE DEF old
<1>4. Youngest({age, Youngest({old, age})}) = Youngest({old, age}) /\ Youngest({old, age}) \in MaybeAge
    <2>1. Youngest({old, age}) \in MaybeAge
        BY <1>1, YoungestAge
    <2> QED
        BY <1>1, <2>1, YoungestOfTwo, StalenessAssumption DEF Ages, MaybeAge
<1> QED
    BY <1>1, <1>2, <1>3, <1>4 DEF BestIsNewest, Newest, MarkWith

Told == notice' = "alert" => best' > cfg.threshold

Spaced == notice' = "alert" /\ quiet # None => cfg.repeat # None /\ quiet >= cfg.repeat

LEMMA StalenessInit == Init => StalenessInv
<1> SUFFICES ASSUME Init PROVE StalenessInv
    OBVIOUS
<1>1. None \in MaybeAge /\ list \in MaybeAge /\ 0 \in 0..SweepInterval
    BY StalenessAssumption DEF Init, MaybeAge
<1>2. StalenessTypeOK
    BY <1>1 DEF Init, StalenessTypeOK, Default, NoStreak
<1>3. Youngest({list, None}) = list
    BY <1>1, YoungestOfTwo
<1>4. BestIsNewest
    BY <1>3 DEF Init, BestIsNewest, Newest
<1> QED
    BY <1>2, <1>4 DEF StalenessInv, StreakIsKept, Init

\* Time passes for the readings, the mark and what is true alike.
LEMMA TickKeeps ==
    ASSUME StalenessInv, Tick
    PROVE  StalenessInv'
<1>1. {list, mark, best, quiet, alert.sent} \subseteq MaybeAge
    BY DEF StalenessInv, StalenessTypeOK
<1>2. \A a \in MaybeAge : Older(a) \in MaybeAge
    BY OlderAge, StalenessAssumption DEF MaybeAge, Ages
<1>3. Max({0, sweepIn - 1}) \in 0..SweepInterval
    <2>1. sweepIn \in 0..SweepInterval /\ SweepInterval \in Nat
        BY StalenessAssumption DEF StalenessInv, StalenessTypeOK
    <2>2. \A m \in {0, sweepIn - 1} : (\A y \in {0, sweepIn - 1} : y <= m) => m \in 0..SweepInterval
        BY <2>1
    <2>3. \E m \in {0, sweepIn - 1} : \A y \in {0, sweepIn - 1} : y <= m
        BY <2>1
    <2>4. \E m \in {0, sweepIn - 1} : \A y \in {0, sweepIn - 1} : m >= y
        BY <2>1, <2>3
    <2>5. Max({0, sweepIn - 1}) \in {0, sweepIn - 1}
          /\ \A y \in {0, sweepIn - 1} : Max({0, sweepIn - 1}) >= y
        BY <2>4 DEF Max
    <2> QED
        BY <2>1, <2>5
<1>4. StalenessTypeOK'
    <2>1. alert' \in [active : BOOLEAN, sent : MaybeAge]
        BY <1>1, <1>2 DEF Tick, StalenessInv, StalenessTypeOK
    <2> QED
        BY <1>1, <1>2, <1>3, <2>1 DEF Tick, StalenessInv, StalenessTypeOK
<1>5. BestIsNewest'
    <2>1. Youngest({Older(list), Older(mark)}) = Older(Youngest({list, mark}))
        <3>1. Older(list) \in MaybeAge /\ Older(mark) \in MaybeAge /\ Youngest({list, mark}) \in MaybeAge
            BY <1>1, <1>2, YoungestAge
        <3> DEFINE young(a, b) == IF a = None THEN b ELSE IF b = None THEN a ELSE IF a <= b THEN a ELSE b
                   aged(a) == IF a = None THEN None ELSE IF a < Cap THEN a + 1 ELSE Cap
        <3>2. Youngest({list, mark}) = young(list, mark)
            BY <1>1, YoungestOfTwo
        <3>3. Youngest({Older(list), Older(mark)}) = young(Older(list), Older(mark))
            BY <3>1, YoungestOfTwo
        <3>4. Older(list) = aged(list) /\ Older(mark) = aged(mark)
            BY <1>1, OlderAge
        <3>5. Older(Youngest({list, mark})) = aged(Youngest({list, mark}))
            BY <3>1, OlderAge
        <3>6. young(aged(list), aged(mark)) = aged(young(list, mark))
            BY <1>1, StalenessAssumption DEF MaybeAge, Ages
        <3> QED
            BY <3>2, <3>3, <3>4, <3>5, <3>6
    <2> QED
        BY <2>1 DEF Tick, StalenessInv, BestIsNewest, Newest
<1>6. StreakIsKept'
    <2>1. quiet = None => Older(quiet) = None
        BY DEF Older
    <2>2. alert'.active = alert.active /\ alert'.sent = Older(alert.sent)
        BY DEF Tick, StalenessInv, StalenessTypeOK
    <2> QED
        BY <2>1, <2>2 DEF Tick, StalenessInv, StreakIsKept
<1> QED
    BY <1>4, <1>5, <1>6 DEF StalenessInv

LEMMA StalenessStep ==
    ASSUME StalenessInv, Next
    PROVE  StalenessInv' /\ Told /\ Spaced
<1> USE DEF StalenessInv
<1>0. 0 \in 0..SweepInterval /\ SweepInterval \in 0..SweepInterval
    BY StalenessAssumption
<1>1. CASE SweepOnce
    <2>1. Newest(list, mark) \in MaybeAge /\ Newest(list, mark) = best
        BY YoungestAge DEF StalenessTypeOK, BestIsNewest, Newest
    <2>2. UNCHANGED <<list, mark, best, cfg, endpoints, poll>> /\ sweepIn' \in 0..SweepInterval
        BY <1>0, <1>1 DEF SweepOnce, readings
    <2>3. CASE IsSwept
        <3>1. CheckDevice(best)
            BY <1>1, <2>1, <2>3 DEF SweepOnce
        <3> QED
            BY <2>1, <2>2, <3>1, CheckDeviceIsSound
               DEF Told, Spaced, StalenessTypeOK, BestIsNewest, Newest
    <2>4. CASE ~IsSwept
        BY <1>1, <2>2, <2>4 DEF SweepOnce, SaysNothing, Told, Spaced, StalenessTypeOK,
               BestIsNewest, Newest, StreakIsKept
    <2> QED
        BY <2>3, <2>4
<1>2. CASE PollWakes
    BY <1>2 DEF PollWakes, readings, SaysNothing, Told, Spaced, StalenessTypeOK, BestIsNewest,
                Newest, StreakIsKept
<1>3. CASE PollChecks
    <2>1. UNCHANGED <<cfg, endpoints, sweepIn>> /\ poll' \in {"off", "asleep", "locating"}
          /\ (poll' # "off" <=> endpoints' = "polled")
        BY <1>3 DEF PollChecks, StalenessTypeOK
    <2>2. CASE UNCHANGED readings /\ CheckDevice(Newest(list, mark))
        <3>1. best \in MaybeAge /\ CheckDevice(best) /\ UNCHANGED <<list, mark, best>>
            BY <2>2 DEF readings, BestIsNewest, StalenessTypeOK
        <3> QED
            BY <2>1, <3>1, CheckDeviceIsSound DEF Told, Spaced, StalenessTypeOK, BestIsNewest, Newest
    <2>3. ASSUME NEW age \in MaybeAge, Received(age), CheckDevice(Newest(age, MarkWith(list, mark, age)))
          PROVE  StalenessInv' /\ Told /\ Spaced
        <3>1. {list', mark', best'} \subseteq MaybeAge /\ BestIsNewest' /\ CheckDevice(best')
            BY <2>3, ReceivedIsKept
        <3> QED
            BY <2>1, <3>1, CheckDeviceIsSound DEF Told, Spaced, StalenessTypeOK
    <2> QED
        BY <1>3, <2>2, <2>3 DEF PollChecks
<1>4. CASE Locate
    <2>1. PICK age \in MaybeAge : Received(age)
        BY <1>4 DEF Locate
    <2>2. {list', mark', best'} \subseteq MaybeAge /\ BestIsNewest'
        BY <2>1, ReceivedIsKept
    <2> QED
        BY <1>4, <2>2 DEF Locate, SaysNothing, tasks, Told, Spaced, StalenessTypeOK, StreakIsKept
<1>5. CASE AnySave
    <2>1. ASSUME NEW new \in [enabled : BOOLEAN, muted : BOOLEAN, threshold : Thresholds \union {None},
                              repeat : Repeats \union {None}], SaveAlerts(new)
          PROVE  StalenessInv' /\ Told /\ Spaced
        <3>1. None \in MaybeAge /\ NoStreak \in [active : BOOLEAN, sent : MaybeAge]
            BY DEF MaybeAge, NoStreak
        <3> QED
            BY <2>1, <3>1 DEF SaveAlerts, readings, tasks, Told, Spaced, StalenessTypeOK, BestIsNewest,
                              Newest, StreakIsKept
    <2>2. ASSUME NEW new \in {"none", "polled"}, SaveSettings(new)
          PROVE  StalenessInv' /\ Told /\ Spaced
        BY <2>2 DEF SaveSettings, readings, SaysNothing, Told, Spaced, StalenessTypeOK, BestIsNewest,
                    Newest, StreakIsKept
    <2> QED
        BY <1>5, <2>1, <2>2 DEF AnySave
<1>6. CASE Restart
    BY <1>0, <1>6 DEF Restart, readings, SaysNothing, Told, Spaced, StalenessTypeOK, BestIsNewest,
                      Newest, StreakIsKept
<1>7. CASE Tick
    BY <1>7, TickKeeps DEF Tick, Told, Spaced
<1> QED
    BY <1>1, <1>2, <1>3, <1>4, <1>5, <1>6, <1>7 DEF Next

LEMMA StalenessStutter ==
    ASSUME StalenessInv, UNCHANGED vars
    PROVE  StalenessInv'
BY DEF vars, readings, tasks, StalenessInv, StalenessTypeOK, BestIsNewest, Newest, StreakIsKept

LEMMA StalenessInvariant == Spec => []StalenessInv
<1>1. StalenessInv /\ [Next]_vars => StalenessInv'
    BY StalenessStep, StalenessStutter
<1> QED
    BY StalenessInit, <1>1, PTL DEF Spec

\* Every age, streak and task is of its type, whatever the durations.
THEOREM StalenessTypesHold == Spec => []StalenessTypeOK
<1>1. StalenessInv => StalenessTypeOK
    BY DEF StalenessInv
<1> QED
    BY <1>1, StalenessInvariant, PTL

\* No alert is sent while a younger reading than the threshold was ever received
\* (check_device() on what set_last_location() keeps).
THEOREM AlertsAreTrueHolds == Spec => AlertsAreTrue
<1>1. StalenessInv /\ [Next]_vars => [notice' = "alert" => best' > cfg.threshold]_vars
    BY StalenessStep DEF Told
<1> QED
    BY <1>1, StalenessInvariant, PTL DEF Spec, AlertsAreTrue

\* Alerts of one streak are the chosen time apart, or only one is sent (check_device()
\* on the streak on file).
THEOREM RepeatsAreSpacedHolds == Spec => RepeatsAreSpaced
<1>1. StalenessInv /\ [Next]_vars =>
        [notice' = "alert" /\ quiet # None => cfg.repeat # None /\ quiet >= cfg.repeat]_vars
    BY StalenessStep DEF Spaced
<1> QED
    BY <1>1, StalenessInvariant, PTL DEF Spec, RepeatsAreSpaced

(***************************************************************************)
(* The upload of advertisement identifiers.                                *)
(***************************************************************************)
\* An event of period q is known by r, the time since that period began.
LEMMA QuotientIs ==
    ASSUME NEW x \in Int, NEW q \in Int, Period * q <= x, x < Period * q + Period
    PROVE  x % Period = x - Period * q
<1> DEFINE r == x - Period * q
<1>1. r \in 0 .. Period - 1
    BY EidAssumption
<1>2. \A p \in 0 .. Period - 1 : (Period * q + p) % Period = p
    BY EidAssumption
<1>3. (Period * q + r) % Period = r
    BY <1>1, <1>2
<1>4. Period * q + r = x
    BY EidAssumption
<1> QED
    BY <1>3, <1>4

\* Floor(x) is the start of the period of x.
LEMMA FloorIs ==
    ASSUME NEW x \in Int
    PROVE  /\ x \div Period \in Int /\ Floor(x) \in Int
           /\ Floor(x) = Period * (x \div Period)
           /\ Floor(x) <= x /\ x < Floor(x) + Period
           /\ Floor(x) % Period = 0
<1>1. x \div Period \in Int /\ Period * (x \div Period) \in Int
    BY EidAssumption
<1>2. Period * (x \div Period) <= x
    BY EidAssumption
<1>3. x < Period * (x \div Period) + Period
    BY EidAssumption
<1>4. Floor(x) = Period * (x \div Period)
    BY <1>1, <1>2, <1>3, QuotientIs DEF Floor
<1>5. \A q \in Int : (Period * q) % Period = 0
    BY EidAssumption
<1> QED
    BY <1>1, <1>2, <1>3, <1>4, <1>5

\* Numbers of periods are in the order of the times they make up.
LEMMA FewerPeriods ==
    ASSUME NEW a \in Int, NEW b \in Int, Period * a < Period * b
    PROVE  a < b
BY EidAssumption

LEMMA Periods ==
    ASSUME NEW a \in Int, NEW b \in Int
    PROVE  /\ Period * a \in Int /\ a * Period = Period * a
           /\ Period * (a + b) = Period * a + Period * b
           /\ Period * (a - b) = Period * a - Period * b
           /\ Period * (a + 1) = Period * a + Period
           /\ a <= b => Period * a <= Period * b
BY EidAssumption

\* A counter never goes back.
LEMMA FloorGrows ==
    ASSUME NEW x \in Int, NEW y \in Int, x <= y
    PROVE  Floor(x) <= Floor(y)
<1> DEFINE p == x \div Period
           q == y \div Period
<1>1. p \in Int /\ q \in Int /\ Floor(x) = Period * p /\ Floor(y) = Period * q
      /\ Period * p <= x /\ y < Period * q + Period
    BY FloorIs
<1> HIDE DEF p, q
<1>2. Period \in Int /\ Period * p \in Int /\ Period * q \in Int /\ Period * (q + 1) = Period * q + Period
    BY <1>1, Periods, EidAssumption
<1>3. p < q + 1
    BY <1>1, <1>2, FewerPeriods
<1>4. p <= q
    BY <1>1, <1>3
<1> QED
    BY <1>1, <1>4, Periods

\* Errors are durations.
LEMMA ErrorsAreInts == MaxLate \in Int /\ MaxEarly \in Int
<1>1. Period \in Int /\ Period \div 2 \in Int
    BY EidAssumption
<1> QED
    BY <1>1 DEF MaxLate, MaxEarly

\* An estimate that is too late by no more than the slots to either side, and too early
\* by less than the range begins before now, finds the counter of every later moment.
LEMMA RotatingEidsCover ==
    ASSUME NEW real \in Int, NEW estimate \in Int, NEW start \in Int, NEW end \in Int, NEW n \in Int,
           real <= n, estimate <= n, start + Back <= n, n <= end,
           estimate - real <= Drift * Period, real - estimate <= Back - (Period - 1)
    PROVE  Counter(real, n) \in RotatingEids(estimate, start, end)
<1> DEFINE q == (n - real) \div Period
           k == (n - estimate) \div Period
           c == (start - estimate + Period - 1) \div Period
           last == (end - estimate) \div Period
           first == Max({0, c})
<1>0. /\ Period \in Int /\ Period > 0 /\ Drift \in Nat
      /\ start + Period <= n /\ real - estimate <= (n - start) - Period + 1
    <2>1. /\ Period \in Int /\ Period > 0 /\ Drift \in Nat /\ Back \in Int
        BY EidAssumption
    <2>2. Back >= Period
        BY BackCoversPeriod
    <2> QED
        BY <2>1, <2>2
<1>1. /\ {q, k, c, last} \subseteq Int
      /\ Counter(real, n) = Period * q
      /\ Period * q <= n - real /\ n - real < Period * q + Period
      /\ Period * k <= n - estimate /\ n - estimate < Period * k + Period
      /\ Period * c <= start - estimate + Period - 1
      /\ end - estimate < Period * last + Period
    <2>1. n - real \in Int /\ n - estimate \in Int /\ end - estimate \in Int
          /\ start - estimate + Period - 1 \in Int
        BY <1>0
    <2> QED
        BY <2>1, FloorIs DEF Counter
<1>2. first \in {0, c} /\ first >= 0 /\ first >= c
    <2>1. \E m \in {0, c} : \A y \in {0, c} : m >= y
        BY <1>1
    <2>2. first \in {0, c} /\ \A y \in {0, c} : first >= y
        BY <2>1 DEF Max
    <2> QED
        BY <2>2
<1> HIDE DEF q, k, c, last, first
<1>3. {Period * q, Period * k, Period * c, Period * last} \subseteq Int
    BY <1>1, Periods
<1>4. 0 <= k /\ 0 <= q
    <2>1. Period * 0 < Period * (k + 1) /\ Period * 0 < Period * (q + 1)
        BY <1>0, <1>1, <1>3, Periods
    <2> QED
        BY <1>1, <2>1, FewerPeriods
<1>5. c <= k
    <2>1. Period * c < Period * (k + 1)
        BY <1>0, <1>1, <1>3, Periods
    <2> QED
        BY <1>1, <2>1, FewerPeriods
<1>6. k <= last
    <2>1. Period * k < Period * (last + 1)
        BY <1>0, <1>1, <1>3, Periods
    <2> QED
        BY <1>1, <2>1, FewerPeriods
<1>7. c <= q
    <2>1. Period * c < Period * (q + 1)
        <3>1. Period * (q + 1) = Period * q + Period
            BY <1>1, Periods
        <3>2. Period * c <= (start - estimate) + (Period - 1)
            BY <1>0, <1>1, <1>3
        <3>3. n - real >= (start - estimate) + (Period - 1)
            BY <1>0
        <3> QED
            BY <1>0, <1>1, <1>3, <3>1, <3>2, <3>3
    <2> QED
        BY <1>1, <2>1, FewerPeriods
<1>8. q - k <= Drift
    <2>1. Drift * Period = Period * Drift /\ Period * Drift \in Int
          /\ Period * (q - k) = Period * q - Period * k /\ Period * (Drift + 1) = Period * Drift + Period
        BY <1>0, <1>1, Periods
    <2>2. Period * (q - k) < Period * (Drift + 1)
        BY <1>0, <1>1, <1>3, <2>1
    <2>3. q - k \in Int /\ Drift + 1 \in Int
        BY <1>0, <1>1
    <2>4. q - k < Drift + 1
        BY <2>2, <2>3, FewerPeriods
    <2> QED
        BY <1>0, <2>3, <2>4
\* The slot of its own period, or one of those after the last that is not too late.
<1>9. PICK j \in first..last : q - j \in -Drift..Drift
    <2>1. CASE q <= k
        <3>1. q \in first..last /\ q - q \in -Drift..Drift
            BY <1>0, <1>1, <1>2, <1>4, <1>6, <1>7, <2>1
        <3> QED
            BY <3>1
    <2>2. CASE ~(q <= k)
        <3>1. k \in first..last /\ q - k \in -Drift..Drift
            BY <1>0, <1>1, <1>2, <1>4, <1>5, <1>6, <1>8, <2>2
        <3> QED
            BY <3>1
    <2> QED
        BY <2>1, <2>2
<1>10. (j + (q - j)) * Period = Period * q /\ Period * q >= 0
    <2>1. j + (q - j) = q
        BY <1>1
    <2>2. Period * q >= 0
        BY <1>0, <1>1, <1>4
    <2> QED
        BY <1>0, <1>1, <1>3, <2>1, <2>2, Periods
<1>11. Counter(real, n) \in {(i + s) * Period : i \in first..last, s \in -Drift..Drift}
    BY <1>1, <1>9, <1>10
<1> QED
    BY <1>1, <1>10, <1>11 DEF RotatingEids, RotatingFromTo, first, last, c

\* A microcontroller has one identifier, with a timestamp for each of its periods.
LEMMA NextEidsCover ==
    ASSUME NEW pairDate \in Int, NEW start \in Int, NEW n \in Int,
           start <= n, n <= start + Duration
    PROVE  pairDate + Floor(n - pairDate) \in NextEids(pairDate, start)
<1> DEFINE c == Floor(n - pairDate)
           first == Floor(start - pairDate)
<1>0. Duration \in Int
    BY EidAssumption
<1>1. n - pairDate \in Int /\ start - pairDate \in Int /\ start - pairDate <= n - pairDate
    OBVIOUS
<1>2. c \in Int /\ first \in Int /\ first <= c /\ c <= n - pairDate /\ c % Period = 0
    BY <1>1, FloorIs, FloorGrows
<1> HIDE DEF c, first
<1>3. c \in first .. start - pairDate + Duration
    BY <1>0, <1>2
<1>4. c \in {k \in first .. start - pairDate + Duration : k % Period = 0}
    BY <1>2, <1>3
<1> QED
    BY <1>4 DEF NextEids, c, first

\* A registration announces whole periods, and at least as many as it is meant to cover.
LEMMA FirstEidsCover ==
    ASSUME NEW pairDate \in Int, NEW n \in Int, pairDate <= n, n <= pairDate + Duration - Back
    PROVE  pairDate + Floor(n - pairDate) \in FirstEids(pairDate)
<1> DEFINE q == (n - pairDate) \div Period
           all == Duration \div Period
<1>0. Period \in Int /\ Period > 0 /\ Duration \in Int /\ Back \in Int /\ Back >= Period
    BY EidAssumption, BackCoversPeriod
<1>1. /\ q \in Int /\ all \in Int
      /\ Floor(n - pairDate) = Period * q
      /\ Period * q <= n - pairDate /\ n - pairDate < Period * q + Period
      /\ Duration < Period * all + Period
    <2>1. n - pairDate \in Int
        OBVIOUS
    <2> QED
        BY <1>0, <2>1, FloorIs
<1> HIDE DEF q, all
<1>2. Period * q \in Int /\ Period * all \in Int /\ Period * (q + 1) = Period * q + Period
      /\ q * Period = Period * q /\ Period * (all + 1) = Period * all + Period
    BY <1>1, Periods
<1>3. 0 <= q
    <2>1. Period * 0 < Period * (q + 1)
        BY <1>0, <1>1, <1>2
    <2> QED
        BY <1>1, <2>1, FewerPeriods
<1>4. q <= all - 1
    <2>1. Period * (q + 1) < Period * (all + 1)
        BY <1>0, <1>1, <1>2
    <2> QED
        BY <1>1, <2>1, FewerPeriods
<1>5. q \in 0 .. all - 1
    BY <1>1, <1>3, <1>4
<1> QED
    BY <1>1, <1>2, <1>5 DEF FirstEids, all

\* What a search finds is the reported counter, if it opens the report, or the real one.
LEMMA CounterSearchFinds ==
    ASSUME NEW reported \in Int, NEW real \in Int, real % Period = 0,
           CounterSearch(reported, real) # Nothing
    PROVE  /\ CounterSearch(reported, real) \in Int
           /\ real <= CounterSearch(reported, real) /\ CounterSearch(reported, real) < real + Period
<1>0. Period \in Int /\ Period > 0
    BY EidAssumption
<1>1. Floor(real) = real
    BY DEF Floor
<1>2. CASE Floor(reported) = real
    <2>1. real <= reported /\ reported < real + Period
        BY <1>2, FloorIs
    <2>2. CounterSearch(reported, real) = reported
        BY <1>1, <1>2 DEF CounterSearch
    <2> QED
        BY <2>1, <2>2
<1>3. CASE Floor(reported) # real
    <2>1. CounterSearch(reported, real) \in {real, Nothing}
        BY <1>1, <1>3 DEF CounterSearch
    <2> QED
        BY <1>0, <2>1
<1> QED
    BY <1>2, <1>3

\* An estimate from a report that the key opens is off by no more than MaxLate or MaxEarly
\* from what the report shows, and lies in the past.
LEMMA EstimateIsClose ==
    ASSUME NEW real \in Int, NEW seen \in Int, NEW delay \in 0..Delay, NEW reported \in Int,
           Counter(real, seen) >= 0, reported > 0,
           CounterSearch(reported, Counter(real, seen)) # Nothing
    PROVE  LET counter  == CounterSearch(reported, Counter(real, seen))
               estimate == EstimateFrom(seen + delay, counter)
           IN  /\ estimate \in Int
               /\ estimate - (real + delay) <= MaxLate /\ (real + delay) - estimate <= MaxEarly
               /\ estimate <= seen + delay
<1> DEFINE true == Counter(real, seen)
           found == CounterSearch(reported, true)
           half == Period \div 2
<1>0. Period \in Int /\ Period > 0 /\ Delay \in Int /\ half \in Int /\ half >= 0
    BY EidAssumption
<1>1. seen - real \in Int
    OBVIOUS
<1>2. true \in Int /\ true % Period = 0 /\ true <= seen - real /\ seen - real < true + Period
    BY <1>1, FloorIs DEF Counter
<1> HIDE DEF true
<1>3. true >= 0
    BY DEF true
<1>4. found # Nothing
    BY DEF true
<1>5. found \in Int /\ true <= found /\ found < true + Period
    BY <1>2, <1>4, CounterSearchFinds
<1> HIDE DEF found, half
<1>6. delay \in Int /\ 0 <= delay /\ delay <= Delay
    BY <1>0
<1>7. EstimateFrom(seen + delay, found) = (seen + delay) - found - half
    BY DEF EstimateFrom, half
<1> DEFINE estimate == (seen + delay) - found - half
<1>8. estimate \in Int /\ estimate <= seen + delay
    BY <1>0, <1>2, <1>3, <1>5, <1>6
<1>9. /\ estimate - (real + delay) <= Period - 1 - half
      /\ (real + delay) - estimate <= Period - 1 + half
    BY <1>0, <1>2, <1>3, <1>5, <1>6
<1>10. MaxLate = Period - 1 - half /\ MaxEarly = Period - 1 + half
    BY DEF MaxLate, MaxEarly, half
<1>11. estimate - (real + delay) <= MaxLate /\ (real + delay) - estimate <= MaxEarly
    BY <1>0, <1>9, <1>10
<1> QED
    BY <1>7, <1>8, <1>11 DEF found, true

\* Identifiers are known by their counters and timestamps.
LEMMA EidsAreInts ==
    /\ \A estimate, start, end \in Int : RotatingEids(estimate, start, end) \subseteq Int
    /\ \A pairDate, start \in Int : NextEids(pairDate, start) \subseteq Int
    /\ \A pairDate \in Int : FirstEids(pairDate) \subseteq Int
<1>0. Period \in Int /\ Drift \in Int
    BY EidAssumption
<1>1. ASSUME NEW estimate \in Int, NEW start \in Int, NEW end \in Int
      PROVE  RotatingEids(estimate, start, end) \subseteq Int
    <2>1. \A i, j : \A k \in i..j, s \in -Drift..Drift : (k + s) * Period \in Int
        BY <1>0
    <2> QED
        BY <2>1 DEF RotatingEids, RotatingFromTo
<1>2. \A pairDate, start \in Int : NextEids(pairDate, start) \subseteq Int
    BY DEF NextEids
<1>3. ASSUME NEW pairDate \in Int
      PROVE  FirstEids(pairDate) \subseteq Int
    <2>1. \A j : \A k \in 0..j : pairDate + k * Period \in Int
        BY <1>0
    <2> QED
        BY <2>1 DEF FirstEids
<1> QED
    BY <1>1, <1>2, <1>3

\* The pair date is an estimate.
LEMMA PairingIsOne == Pairing \in Estimates
<1>1. 0 \in Int /\ 0 \in Nat /\ FALSE \in BOOLEAN
    OBVIOUS
<1> QED
    BY <1>1 DEF Pairing, Estimates

\* A clock has a zero at each time, in the past while the server runs.
LEMMA ClocksAreInts ==
    ASSUME EidTypeOK
    PROVE  /\ now \in Nat /\ now \in Int /\ now \in Times /\ End \in Nat
           /\ \A n \in Int : now <= n /\ n <= End => n \in Times /\ n \in Begin..End
           /\ \A n \in Int : now - Back <= n /\ n <= now => n \in Times
           /\ \A t \in Trackers : \A n \in Times : zero[t][n] \in Int
           /\ \A t \in Trackers : \A n \in Begin..End : zero[t][n] <= n
<1>1. /\ Begin \in Nat /\ End \in Nat /\ Back \in Nat /\ Delay \in Nat /\ Begin >= Back + Delay
      /\ now \in Begin..End
    BY EidAssumption, PairedLongAgo DEF EidTypeOK
<1>2. /\ now \in Nat /\ now \in Int /\ now \in Times
      /\ \A n \in Int : now <= n /\ n <= End => n \in Times /\ n \in Begin..End
      /\ \A n \in Int : now - Back <= n /\ n <= now => n \in Times
    BY <1>1 DEF Times
<1>3. \A t \in Trackers : zero[t] \in Clocks /\ zero[t] \in [Times -> Int]
    BY EidAssumption DEF EidTypeOK
<1> QED
    BY <1>1, <1>2, <1>3, ClocksRun

\* No microcontroller was registered in the future.
PairedBefore == \A m \in Mcus : paired[m] # Nothing => paired[m] <= now

\* An upload has an estimate of each tracker before it is sent.
EstimatesAtHand ==
    \A t \in Trackers :
        loop \in {"send", "past"} \/ (loop = "calibrate" /\ t \notin todo) => used[t] # Nothing

\* The identifier of every moment up to the end of the covered range is known already,
\* if what the clock does by then is covered.
RotatingAhead ==
    \A t \in Trackers, n \in Int :
        /\ full[t] # Nothing /\ full[t].keyed
        /\ now <= n /\ n <= End /\ n <= full[t].at + Duration - Back
        /\ IsCovered(full[t].shows - zero[t][n])
        => Counter(zero[t][n], n) \in server[t]

McuAhead ==
    \A m \in Mcus, n \in Int :
        announced[m] # Nothing /\ now <= n /\ n <= announced[m] + Duration - Back
            => paired[m] + Floor(n - paired[m]) \in server[m]

UploadInv ==
    EidTypeOK /\ PairedBefore /\ EstimatesAreClose /\ EstimatesAtHand /\ RotatingAhead /\ McuAhead

LEMMA UploadInitIsSound == UploadInit => UploadInv
<1> SUFFICES ASSUME UploadInit PROVE UploadInv
    OBVIOUS
<1>0. now \in Begin..End /\ now = Begin /\ Begin \in Nat /\ now >= 0 /\ 0 \in Nat /\ Nothing # 0
    BY EidAssumption, PairedLongAgo DEF UploadInit, Times
<1>1. EidTypeOK
    <2>1. server \in [Trackers \union Mcus -> SUBSET Int]
        <3>1. FirstEids(0) \subseteq Int
            BY EidsAreInts
        <3> QED
            BY <3>1 DEF UploadInit
    <2>2. paired \in [Mcus -> Nat \union {Nothing}] /\ announced = paired
        BY DEF UploadInit
    <2>3. \A m \in Mcus : announced[m] # Nothing => paired[m] # Nothing /\ paired[m] <= announced[m]
        BY <2>2
    <2> QED
        BY <1>0, <2>1, <2>2, <2>3 DEF UploadInit, EidTypeOK
<1>2. PairedBefore
    BY <1>0 DEF UploadInit, PairedBefore
<1>3. EstimatesAreClose /\ EstimatesAtHand /\ RotatingAhead
    BY DEF UploadInit, EstimatesAreClose, EstimatesAtHand, RotatingAhead
<1>4. McuAhead
    <2> SUFFICES ASSUME NEW m \in Mcus, NEW n \in Int, announced[m] # Nothing,
                        now <= n, n <= announced[m] + Duration - Back
                 PROVE  paired[m] + Floor(n - paired[m]) \in server[m]
        BY DEF McuAhead
    <2>1. paired[m] = 0 /\ announced[m] = 0 /\ server[m] = FirstEids(0)
        BY DEF UploadInit
    <2>2. 0 <= n /\ n <= 0 + Duration - Back
        BY <1>0, <2>1
    <2> QED
        BY <2>1, <2>2, FirstEidsCover
<1> QED
    BY <1>1, <1>2, <1>3, <1>4 DEF UploadInv

\* A step that announces nothing keeps what is known.
LEMMA QuietStepKeeps ==
    ASSUME UploadInv, UNCHANGED <<now, zero, server, full, paired, announced>>
    PROVE  PairedBefore' /\ RotatingAhead' /\ McuAhead'
BY DEF UploadInv, PairedBefore, RotatingAhead, McuAhead

\* Whoever sleeps has no estimate at hand, and comes back in time.
LEMMA SleepsKeeps ==
    ASSUME UploadInv, Sleeps
    PROVE  /\ loop' = "sleep" /\ due' \in Nat
           /\ used' = [t \in Trackers |-> Nothing]
           /\ EstimatesAtHand'
<1>1. now + Interval \in Nat
    BY EidAssumption DEF UploadInv, EidTypeOK, Times
<1> QED
    BY <1>1 DEF Sleeps, EstimatesAtHand

\* The steps of the loop that change no estimate and send nothing.
LEMMA LoopStepKeeps ==
    ASSUME UploadInv, SkipUpload \/ BeginUpload \/ CalibratedAll \/ Refused \/ UploadFails
    PROVE  UploadInv'
<1> USE DEF UploadInv
<1>1. UNCHANGED <<now, zero, bias, saved, server, full, paired, announced, listAt>>
    BY DEF SkipUpload, BeginUpload, CalibratedAll, Refused, UploadFails, clocks, listVars
<1>2. PairedBefore' /\ RotatingAhead' /\ McuAhead'
    BY <1>1, QuietStepKeeps
<1>3. EstimatesAreClose'
    BY <1>1 DEF EstimatesAreClose
<1>4. EidTypeOK' /\ EstimatesAtHand'
    <2>1. CASE Sleeps /\ UNCHANGED todo
        <3>1. loop' = "sleep" /\ due' \in Nat /\ used' = [t \in Trackers |-> Nothing] /\ EstimatesAtHand'
            BY <2>1, SleepsKeeps
        <3> QED
            BY <1>1, <2>1, <3>1 DEF EidTypeOK
    <2>2. CASE BeginUpload
        BY <1>1, <2>2 DEF BeginUpload, EidTypeOK, EstimatesAtHand
    <2>3. CASE CalibratedAll
        BY <1>1, <2>3 DEF CalibratedAll, EidTypeOK, EstimatesAtHand
    <2>4. CASE Refused
        BY <1>1, <2>4 DEF Refused, EidTypeOK, EstimatesAtHand
    <2> QED
        BY <2>1, <2>2, <2>3, <2>4 DEF SkipUpload, UploadFails
<1> QED
    BY <1>2, <1>3, <1>4

\* An old estimate is used as it is, or the pair date.
LEMMA UseKeeps ==
    ASSUME UploadInv, NEW t \in Trackers, UseSaved(t) \/ NotCalibrated(t)
    PROVE  UploadInv'
<1> USE DEF UploadInv
<1>1. UNCHANGED <<now, zero, bias, loop, due, saved, server, full, paired, announced, listAt>>
      /\ todo' = todo \ {t} /\ loop = "calibrate"
    BY DEF UseSaved, NotCalibrated, clocks, listVars
<1>2. PairedBefore' /\ RotatingAhead' /\ McuAhead'
    BY <1>1, QuietStepKeeps
<1>3. EstimatesAreClose'
    BY <1>1 DEF EstimatesAreClose
<1>4. PICK e \in {Pairing, saved[t]} : e # Nothing /\ used' = [used EXCEPT ![t] = e]
    <2>1. Pairing # Nothing
        BY PairingIsOne, EidAssumption
    <2> QED
        BY <2>1 DEF UseSaved, NotCalibrated, IsFresh
<1>5. e \in Estimates
    BY <1>4, PairingIsOne DEF EidTypeOK
<1>6. EidTypeOK'
    <2>1. used' \in [Trackers -> Estimates \union {Nothing}]
        BY <1>4, <1>5 DEF EidTypeOK
    <2>2. \A u \in Trackers : used'[u] # Nothing => used'[u] \in {Pairing, saved[u]}
        BY <1>4 DEF EidTypeOK
    <2> QED
        BY <1>1, <2>1, <2>2 DEF EidTypeOK
<1>7. EstimatesAtHand'
    BY <1>1, <1>4 DEF EidTypeOK, EstimatesAtHand
<1> QED
    BY <1>2, <1>3, <1>6, <1>7

\* A new estimate of a report that the key opens is close.
LEMMA CalibratedKeeps ==
    ASSUME UploadInv, NEW t \in Trackers, Calibrated(t)
    PROVE  UploadInv'
<1> USE DEF UploadInv
<1>1. UNCHANGED <<now, zero, bias, loop, due, server, full, paired, announced, listAt>>
      /\ todo' = todo \ {t} /\ loop = "calibrate"
    BY DEF Calibrated, clocks, listVars
<1>2. PairedBefore' /\ RotatingAhead' /\ McuAhead'
    BY <1>1, QuietStepKeeps
<1>3. PICK s \in now - Back .. now, d \in 0..Delay, keyed \in BOOLEAN :
         LET r        == zero[t][s]
             true     == Counter(r, s)
             reported == true + bias[t]
             counter  == IF keyed THEN CounterSearch(reported, true) ELSE reported
         IN  /\ s + d <= now
             /\ true >= 0 /\ reported > 0
             /\ counter # Nothing
             /\ saved' = [saved EXCEPT ![t] =
                    [zero |-> EstimateFrom(s + d, counter), at |-> now, keyed |-> keyed,
                     shows |-> r + d]]
    BY DEF Calibrated
<1> DEFINE z == zero[t][s]
           real == Counter(z, s)
           found == IF keyed THEN CounterSearch(real + bias[t], real) ELSE real + bias[t]
           e == EstimateFrom(s + d, found)
<1>4. /\ s \in Int /\ s <= now /\ now \in Int /\ now \in Nat /\ Delay \in Nat /\ d \in Int
      /\ z \in Int /\ bias[t] \in Int
    <2>1. now \in Int /\ now \in Nat /\ Delay \in Nat /\ Back \in Nat
        BY ClocksAreInts, EidAssumption
    <2>2. s \in Int /\ now - Back <= s /\ s <= now
        BY <2>1
    <2>3. bias[t] \in Int
        BY EidAssumption DEF EidTypeOK
    <2> QED
        BY <2>1, <2>2, <2>3, ClocksAreInts
<1> HIDE DEF z
<1>5. real \in Int
    <2>1. s - z \in Int
        BY <1>4
    <2> QED
        BY <2>1, FloorIs DEF Counter
<1>6. e \in Int
    <2>1. found \in Int
        <3>1. CASE keyed
            <4>1. CounterSearch(real + bias[t], real) # Nothing
                BY <1>3, <3>1 DEF z
            <4>2. real % Period = 0
                <5>1. s - z \in Int
                    BY <1>4
                <5> QED
                    BY <5>1, FloorIs DEF Counter
            <4>3. real + bias[t] \in Int
                BY <1>4, <1>5
            <4> HIDE DEF real
            <4> QED
                BY <1>5, <3>1, <4>1, <4>2, <4>3, CounterSearchFinds
        <3>2. CASE ~keyed
            BY <1>4, <1>5, <3>2
        <3> QED
            BY <3>1, <3>2
    <2> HIDE DEF found
    <2> QED
        BY <1>4, <2>1, EidAssumption DEF EstimateFrom
<1>7. keyed => e - (z + d) <= MaxLate /\ (z + d) - e <= MaxEarly /\ e <= now
    <2> SUFFICES ASSUME keyed
                 PROVE  e - (z + d) <= MaxLate /\ (z + d) - e <= MaxEarly /\ e <= now
        OBVIOUS
    <2>1. /\ Counter(z, s) >= 0 /\ real + bias[t] > 0
          /\ CounterSearch(real + bias[t], Counter(z, s)) # Nothing
          /\ s + d <= now
        BY <1>3 DEF z
    <2>2. real + bias[t] \in Int
        BY <1>4, <1>5
    <2>3. e - (z + d) <= MaxLate /\ (z + d) - e <= MaxEarly /\ e <= s + d
        BY <1>4, <2>1, <2>2, EstimateIsClose
    <2> HIDE DEF e
    <2> QED
        BY <1>4, <1>6, <2>1, <2>3
<1>8. saved' = [saved EXCEPT ![t] = [zero |-> e, at |-> now, keyed |-> keyed, shows |-> z + d]]
      /\ used' = [used EXCEPT ![t] = saved'[t]]
    BY <1>3 DEF Calibrated, z
<1> HIDE DEF e, found, real
<1> DEFINE new == [zero |-> e, at |-> now, keyed |-> keyed, shows |-> z + d]
<1>9. new \in Estimates /\ new # Nothing /\ saved'[t] = new /\ used' = [used EXCEPT ![t] = new]
    BY <1>4, <1>6, <1>8, EidAssumption DEF EidTypeOK, Estimates
<1>10. EidTypeOK'
    <2>1. saved' \in [Trackers -> Estimates \union {Nothing}]
          /\ used' \in [Trackers -> Estimates \union {Nothing}]
        BY <1>8, <1>9 DEF EidTypeOK
    <2>2. \A u \in Trackers : used'[u] # Nothing => used'[u] \in {Pairing, saved'[u]}
        BY <1>8, <1>9 DEF EidTypeOK
    <2> QED
        BY <1>1, <2>1, <2>2 DEF EidTypeOK
<1>11. EstimatesAreClose'
    <2> SUFFICES ASSUME NEW u \in Trackers, saved'[u] # Nothing, saved'[u].keyed
                 PROVE  /\ saved'[u].zero - saved'[u].shows <= MaxLate
                        /\ saved'[u].shows - saved'[u].zero <= MaxEarly
                        /\ saved'[u].zero <= now
        BY <1>1 DEF EstimatesAreClose
    <2>1. CASE u = t
        BY <1>7, <1>9, <2>1
    <2>2. CASE u # t
        BY <1>8, <2>2 DEF EidTypeOK, EstimatesAreClose
    <2> QED
        BY <2>1, <2>2
<1>12. EstimatesAtHand'
    BY <1>1, <1>9 DEF EidTypeOK, EstimatesAtHand
<1> QED
    BY <1>2, <1>10, <1>11, <1>12

\* An upload, whole or of the past, only adds to what Google knows of trackers.
LEMMA UploadedAdds ==
    ASSUME UploadInv, loop \in {"send", "past"}, NEW keyed \in SUBSET Trackers, NEW end \in Int,
           server' = Uploaded(keyed, end)
    PROVE  /\ server' \in [Trackers \union Mcus -> SUBSET Int]
           /\ \A d \in Trackers \union Mcus : server[d] \subseteq server'[d]
           /\ \A t \in keyed : RotatingEids(used[t].zero, now - Back, end) \subseteq server'[t]
<1> USE DEF UploadInv
<1>1. now - Back \in Int
    BY EidAssumption DEF EidTypeOK, Times
<1>2. server \in [Trackers \union Mcus -> SUBSET Int]
    BY DEF EidTypeOK
<1>3. \A t \in Trackers : used[t].zero \in Int
    BY DEF EidTypeOK, EstimatesAtHand, Estimates
<1>4. \A t \in Trackers : RotatingEids(used[t].zero, now - Back, end) \subseteq Int
    BY <1>1, <1>3, EidsAreInts
<1>5. server' = [d \in Trackers \union Mcus |->
                    IF d \in keyed
                      THEN server[d] \union RotatingEids(used[d].zero, now - Back, end)
                      ELSE server[d]]
    BY <1>2 DEF Uploaded
<1> QED
    BY <1>2, <1>4, <1>5

\* Google took an upload: its trackers are known to the end of the covered range.
LEMMA SendKeeps ==
    ASSUME UploadInv, Send
    PROVE  UploadInv'
<1> USE DEF UploadInv
<1> DEFINE end == (now - Back) + Duration
<1>1. PICK keyed \in SUBSET Trackers :
         /\ server' = Uploaded(keyed, end)
         /\ full' = [t \in Trackers |->
                IF t \in keyed
                  THEN [at |-> now, keyed |-> used[t].keyed, shows |-> used[t].shows]
                  ELSE full[t]]
    BY DEF Send
<1>2. /\ loop = "send" /\ Sleeps
      /\ UNCHANGED <<now, zero, bias, todo, saved, paired, announced, listAt>>
    BY DEF Send, clocks, listVars
<1>3. now \in Nat /\ Back \in Nat /\ Duration \in Nat /\ Back >= Period /\ Period \in Nat
    BY EidAssumption, BackCoversPeriod DEF EidTypeOK, Times
<1>4. /\ server' \in [Trackers \union Mcus -> SUBSET Int]
      /\ \A d \in Trackers \union Mcus : server[d] \subseteq server'[d]
      /\ \A t \in keyed : RotatingEids(used[t].zero, now - Back, end) \subseteq server'[t]
    <2>1. end \in Int
        BY <1>3
    <2> HIDE DEF end
    <2> QED
        BY <1>1, <1>2, <2>1, UploadedAdds
<1>5. loop' = "sleep" /\ due' \in Nat /\ used' = [t \in Trackers |-> Nothing] /\ EstimatesAtHand'
    BY <1>2, SleepsKeeps
<1>6. EidTypeOK'
    <2>1. \A t \in Trackers : used[t] \in Estimates
        BY <1>2 DEF EidTypeOK, EstimatesAtHand
    <2>2. \A t \in Trackers : used[t].keyed \in BOOLEAN /\ used[t].shows \in Int
        BY <2>1 DEF Estimates
    <2>3. full' \in [Trackers -> Uploads \union {Nothing}]
        BY <1>1, <1>3, <2>2 DEF EidTypeOK, Uploads
    <2> QED
        BY <1>2, <1>4, <1>5, <2>3 DEF EidTypeOK
<1>7. PairedBefore' /\ EstimatesAreClose'
    BY <1>2 DEF PairedBefore, EstimatesAreClose
<1>8. RotatingAhead'
    <2> SUFFICES ASSUME NEW t \in Trackers, NEW n \in Int, full'[t] # Nothing, full'[t].keyed,
                        now <= n, n <= End, n <= full'[t].at + Duration - Back,
                        IsCovered(full'[t].shows - zero[t][n])
                 PROVE  Counter(zero[t][n], n) \in server'[t]
        BY <1>2 DEF RotatingAhead
    <2>0. zero[t][n] \in Int /\ zero[t][n] <= n
        BY ClocksAreInts
    <2>1. CASE t \in keyed
        <3>1. full'[t].at = now /\ used[t].keyed /\ full'[t].shows = used[t].shows
            BY <1>1, <2>1
        <3>2. used[t] # Nothing /\ used[t] \in {Pairing, saved[t]}
            BY <1>2 DEF EidTypeOK, EstimatesAtHand
        <3>3. used[t] = saved[t]
            BY <3>1, <3>2 DEF Pairing
        <3>4. /\ used[t].zero - used[t].shows <= MaxLate
              /\ used[t].shows - used[t].zero <= MaxEarly
              /\ used[t].zero <= now
            BY <3>1, <3>2, <3>3 DEF EstimatesAreClose
        <3>5. used[t].zero \in Int /\ used[t].shows \in Int
            <4>1. used[t] \in Estimates
                BY <3>2 DEF EidTypeOK
            <4> QED
                BY <4>1 DEF Estimates
        <3>6. /\ now - Back \in Int /\ end \in Int
              /\ used[t].zero <= n /\ (now - Back) + Back <= n /\ n <= end
            BY <1>3, <3>1, <3>4, <3>5
        <3>7. /\ used[t].zero - zero[t][n] <= Drift * Period
              /\ zero[t][n] - used[t].zero <= Back - (Period - 1)
            <4>1. /\ MaxLate \in Int /\ MaxEarly \in Int /\ Drift * Period \in Int
                  /\ Back - (Period - 1) \in Int
                BY ErrorsAreInts, EidAssumption
            <4>2. /\ MaxLate + (used[t].shows - zero[t][n]) <= Drift * Period
                  /\ MaxEarly - (used[t].shows - zero[t][n]) <= Back - (Period - 1)
                BY <3>1 DEF IsCovered
            <4> DEFINE most == Drift * Period
                       least == Back - (Period - 1)
            <4> HIDE DEF most, least
            <4>3. most \in Int /\ least \in Int
                BY <4>1 DEF most, least
            <4>4. /\ MaxLate + (used[t].shows - zero[t][n]) <= most
                  /\ MaxEarly - (used[t].shows - zero[t][n]) <= least
                BY <4>2 DEF most, least
            <4>5. used[t].zero - zero[t][n] <= most /\ zero[t][n] - used[t].zero <= least
                BY <2>0, <3>4, <3>5, <4>1, <4>3, <4>4
            <4> QED
                BY <4>5 DEF most, least
        <3> HIDE DEF end
        <3>8. Counter(zero[t][n], n) \in RotatingEids(used[t].zero, now - Back, end)
            BY <2>0, <3>5, <3>6, <3>7, RotatingEidsCover
        <3> QED
            BY <1>4, <2>1, <3>8
    <2>2. CASE t \notin keyed
        <3>1. full'[t] = full[t]
            BY <1>1, <2>2
        <3>2. Counter(zero[t][n], n) \in server[t]
            BY <3>1 DEF RotatingAhead
        <3> QED
            BY <1>4, <3>2
    <2> QED
        BY <2>1, <2>2
<1>9. McuAhead'
    BY <1>2, <1>4 DEF McuAhead
<1> QED
    BY <1>5, <1>6, <1>7, <1>8, <1>9

\* An upload of the past promises nothing and takes nothing away.
LEMMA SendPastKeeps ==
    ASSUME UploadInv, SendPast
    PROVE  UploadInv'
<1> USE DEF UploadInv
<1> DEFINE end == Min({now - Back + Duration, now})
<1>1. PICK keyed \in SUBSET Trackers : server' = Uploaded(keyed, end)
    BY DEF SendPast
<1>2. /\ loop = "past" /\ Sleeps
      /\ UNCHANGED <<now, zero, bias, todo, saved, full, paired, announced, listAt>>
    BY DEF SendPast, clocks, listVars
<1>3. end \in Int
    <2>1. now - Back + Duration \in Int /\ now \in Int
        BY EidAssumption DEF EidTypeOK, Times
    <2> DEFINE a == now - Back + Duration
    <2>2. \E m \in {a, now} : \A y \in {a, now} : m <= y
        BY <2>1
    <2>3. Min({a, now}) \in {a, now}
        BY <2>2 DEF Min
    <2> QED
        BY <2>1, <2>3
<1> HIDE DEF end
<1>4. /\ server' \in [Trackers \union Mcus -> SUBSET Int]
      /\ \A d \in Trackers \union Mcus : server[d] \subseteq server'[d]
    BY <1>1, <1>2, <1>3, UploadedAdds
<1>5. loop' = "sleep" /\ due' \in Nat /\ used' = [t \in Trackers |-> Nothing] /\ EstimatesAtHand'
    BY <1>2, SleepsKeeps
<1>6. EidTypeOK'
    BY <1>2, <1>4, <1>5 DEF EidTypeOK
<1>7. PairedBefore' /\ EstimatesAreClose' /\ RotatingAhead' /\ McuAhead'
    BY <1>2, <1>4 DEF PairedBefore, EstimatesAreClose, RotatingAhead, McuAhead
<1> QED
    BY <1>5, <1>6, <1>7

\* A registration announces the microcontroller with it.
LEMMA RegisterKeeps ==
    ASSUME UploadInv, NEW m \in Mcus, Register(m)
    PROVE  UploadInv'
<1> USE DEF UploadInv
<1>1. /\ UNCHANGED <<now, zero, bias, loop, due, todo, used, saved, full>> /\ listAt' = Nothing
      /\ paired' = [paired EXCEPT ![m] = now] /\ announced' = [announced EXCEPT ![m] = now]
      /\ server' = [server EXCEPT ![m] = FirstEids(now)]
    BY DEF Register, Invalidate, clocks, loopVars
<1>2. now \in Nat /\ now \in Int /\ now <= now /\ FirstEids(now) \subseteq Int
    <2>1. now \in Nat
        BY EidAssumption DEF EidTypeOK, Times
    <2> QED
        BY <2>1, EidsAreInts
<1>3. EidTypeOK'
    <2>1. server' \in [Trackers \union Mcus -> SUBSET Int]
        BY <1>1, <1>2 DEF EidTypeOK
    <2>2. paired' \in [Mcus -> Nat \union {Nothing}] /\ announced' \in [Mcus -> Nat \union {Nothing}]
        BY <1>1, <1>2 DEF EidTypeOK
    <2>3. \A k \in Mcus : announced'[k] # Nothing => paired'[k] # Nothing /\ paired'[k] <= announced'[k]
        BY <1>1, <1>2, EidAssumption DEF EidTypeOK
    <2> QED
        BY <1>1, <2>1, <2>2, <2>3 DEF EidTypeOK
<1>4. PairedBefore'
    BY <1>1, <1>2 DEF EidTypeOK, PairedBefore
<1>5. EstimatesAreClose' /\ EstimatesAtHand'
    BY <1>1 DEF EstimatesAreClose, EstimatesAtHand
<1>6. RotatingAhead'
    <2>1. \A t \in Trackers : server'[t] = server[t]
        BY <1>1, EidAssumption DEF EidTypeOK
    <2> QED
        BY <1>1, <2>1 DEF RotatingAhead
<1>7. McuAhead'
    <2> SUFFICES ASSUME NEW k \in Mcus, NEW n \in Int, announced'[k] # Nothing,
                        now <= n, n <= announced'[k] + Duration - Back
                 PROVE  paired'[k] + Floor(n - paired'[k]) \in server'[k]
        BY <1>1 DEF McuAhead
    <2>1. CASE k = m
        <3>1. paired'[k] = now /\ announced'[k] = now /\ server'[k] = FirstEids(now)
            BY <1>1, <2>1 DEF EidTypeOK
        <3> QED
            BY <1>2, <3>1, FirstEidsCover
    <2>2. CASE k # m
        <3>1. paired'[k] = paired[k] /\ announced'[k] = announced[k] /\ server'[k] = server[k]
            BY <1>1, <2>2 DEF EidTypeOK
        <3> QED
            BY <3>1 DEF McuAhead
    <2> QED
        BY <2>1, <2>2
<1> QED
    BY <1>3, <1>4, <1>5, <1>6, <1>7

\* A fetch of the list announces every microcontroller anew, or none.
LEMMA FetchListKeeps ==
    ASSUME UploadInv, FetchList
    PROVE  UploadInv'
<1> USE DEF UploadInv
<1>1. UNCHANGED <<now, zero, bias, loop, due, todo, used, saved, full, paired>> /\ listAt' = now
    BY DEF FetchList, clocks, loopVars
<1>2. now \in Nat /\ now \in Times /\ Back \in Nat /\ Duration \in Nat
    BY EidAssumption DEF EidTypeOK, Times
<1>3. EstimatesAreClose' /\ EstimatesAtHand' /\ PairedBefore'
    BY <1>1 DEF EstimatesAreClose, EstimatesAtHand, PairedBefore
<1>4. CASE UNCHANGED <<server, announced>>
    <2>1. EidTypeOK'
        BY <1>1, <1>2, <1>4 DEF EidTypeOK
    <2> QED
        BY <1>1, <1>3, <1>4, <2>1, QuietStepKeeps
<1>5. CASE RefreshCustomTrackers
    <2> DEFINE ours == {m \in Mcus : paired[m] # Nothing}
               start == now - Back
    <2>1. start \in Int
        BY <1>2
    <2>2. server \in [Trackers \union Mcus -> SUBSET Int]
        BY DEF EidTypeOK
    <2>3. /\ server' = [d \in Trackers \union Mcus |->
                  IF d \in ours THEN server[d] \union NextEids(paired[d], start) ELSE server[d]]
          /\ announced' = [m \in Mcus |-> IF m \in ours THEN now ELSE announced[m]]
        BY <1>5, <2>2 DEF RefreshCustomTrackers
    <2>4. \A m \in ours : paired[m] \in Nat /\ paired[m] \in Int /\ NextEids(paired[m], start) \subseteq Int
        <3>1. \A m \in ours : paired[m] \in Nat
            BY DEF EidTypeOK
        <3> QED
            BY <2>1, <3>1, EidsAreInts
    <2> HIDE DEF start
    <2>5. EidTypeOK'
        <3>1. server' \in [Trackers \union Mcus -> SUBSET Int]
            BY <2>2, <2>3, <2>4
        <3>2. announced' \in [Mcus -> Nat \union {Nothing}]
            BY <1>2, <2>3 DEF EidTypeOK
        <3>3. \A m \in Mcus : announced'[m] # Nothing => paired[m] # Nothing /\ paired[m] <= announced'[m]
            BY <2>3 DEF EidTypeOK, PairedBefore
        <3> QED
            BY <1>1, <1>2, <3>1, <3>2, <3>3 DEF EidTypeOK
    <2>6. RotatingAhead'
        <3>1. \A t \in Trackers : server'[t] = server[t]
            BY <2>3, EidAssumption
        <3> QED
            BY <1>1, <3>1 DEF RotatingAhead
    <2>7. McuAhead'
        <3> SUFFICES ASSUME NEW m \in Mcus, NEW n \in Int, announced'[m] # Nothing,
                            now <= n, n <= announced'[m] + Duration - Back
                     PROVE  paired[m] + Floor(n - paired[m]) \in server'[m]
            BY <1>1 DEF McuAhead
        <3>1. CASE m \in ours
            <4>1. announced'[m] = now
                BY <2>3, <3>1
            <4>2. start <= n /\ n <= start + Duration
                BY <1>2, <4>1 DEF start
            <4>3. paired[m] + Floor(n - paired[m]) \in NextEids(paired[m], start)
                BY <2>1, <2>4, <3>1, <4>2, NextEidsCover
            <4> QED
                BY <2>3, <3>1, <4>3
        <3>2. CASE m \notin ours
            <4>1. announced'[m] = announced[m] /\ server'[m] = server[m]
                BY <2>3, <3>2
            <4> QED
                BY <4>1 DEF McuAhead
        <3> QED
            BY <3>1, <3>2
    <2> QED
        BY <1>3, <2>5, <2>6, <2>7
<1> QED
    BY <1>4, <1>5 DEF FetchList

\* As time passes, only what is over is left out.
LEMMA TimePassesKeeps ==
    ASSUME UploadInv, TimePasses
    PROVE  UploadInv'
<1> USE DEF UploadInv
<1>1. /\ UNCHANGED <<zero, bias, loop, due, todo, used, saved, full, paired, announced, listAt>>
      /\ now' = now + 1 /\ now < End
    BY DEF TimePasses, clocks, loopVars, listVars
<1>2. now \in Nat /\ now' \in Nat /\ now' \in Begin..End /\ End \in Nat /\ Period \in Nat
    BY <1>1, EidAssumption DEF EidTypeOK
<1>3. server' = [d \in Trackers \union Mcus |-> StillToCome(d)]
      /\ server \in [Trackers \union Mcus -> SUBSET Int]
    BY DEF TimePasses, EidTypeOK
<1>4. EidTypeOK'
    <2>1. \A d \in Trackers \union Mcus : StillToCome(d) \subseteq server[d]
        BY DEF StillToCome
    <2>2. server' \in [Trackers \union Mcus -> SUBSET Int]
        BY <1>3, <2>1
    <2> QED
        BY <1>1, <1>2, <2>2 DEF EidTypeOK
<1>6. \A m \in Mcus : paired[m] # Nothing => paired[m] \in Nat
    BY DEF EidTypeOK
<1>7. PairedBefore'
    BY <1>1, <1>2, <1>6 DEF PairedBefore
<1>8. EstimatesAreClose'
    <2>1. \A t \in Trackers : saved[t] # Nothing => saved[t].zero \in Int
        BY DEF EidTypeOK, Estimates
    <2>2. \A e \in Int : e <= now => e <= now'
        BY <1>1, <1>2
    <2> QED
        BY <1>1, <2>1, <2>2 DEF EstimatesAreClose
<1>9. EstimatesAtHand'
    BY <1>1 DEF EstimatesAtHand
<1>10. RotatingAhead'
    <2> SUFFICES ASSUME NEW t \in Trackers, NEW n \in Int, full[t] # Nothing, full[t].keyed,
                        now + 1 <= n, n <= End, n <= full[t].at + Duration - Back,
                        IsCovered(full[t].shows - zero[t][n])
                 PROVE  Counter(zero[t][n], n) \in server'[t]
        BY <1>1 DEF RotatingAhead
    <2>1. now <= n /\ n \in now + 1 .. End
        BY <1>2
    <2>2. Counter(zero[t][n], n) \in server[t]
        BY <2>1 DEF RotatingAhead
    <2>3. Counter(zero[t][n], n) \in Int
        <3>1. n - zero[t][n] \in Int
            BY <2>1, ClocksAreInts
        <3> QED
            BY <3>1, FloorIs DEF Counter
    <2>4. Counter(zero[t][n], n) \in StillToCome(t)
        BY <2>1, <2>2, <2>3 DEF StillToCome
    <2> QED
        BY <1>3, <2>4
<1>11. McuAhead'
    <2> SUFFICES ASSUME NEW m \in Mcus, NEW n \in Int, announced[m] # Nothing,
                        now + 1 <= n, n <= announced[m] + Duration - Back
                 PROVE  paired[m] + Floor(n - paired[m]) \in server'[m]
        BY <1>1 DEF McuAhead
    <2>1. now <= n
        BY <1>2
    <2>2. paired[m] + Floor(n - paired[m]) \in server[m]
        BY <2>1 DEF McuAhead
    <2>3. paired[m] \in Nat
        BY <1>6 DEF EidTypeOK
    <2>4. n - paired[m] \in Int
        BY <2>3
    <2>5. Floor(n - paired[m]) \in Int /\ n - paired[m] < Floor(n - paired[m]) + Period
        BY <2>4, FloorIs
    <2>6. paired[m] + Floor(n - paired[m]) >= now + 1 - Period
        BY <1>2, <2>3, <2>5
    <2>7. paired[m] + Floor(n - paired[m]) \in StillToCome(m)
        BY <2>2, <2>6, EidAssumption DEF StillToCome
    <2> QED
        BY <1>3, <2>7
<1> QED
    BY <1>4, <1>7, <1>8, <1>9, <1>10, <1>11

\* A restart loses what the loop was about to upload, and the Refresh button the list.
LEMMA ForgettingKeeps ==
    ASSUME UploadInv, DropList \/ RestartUploads
    PROVE  UploadInv'
<1> USE DEF UploadInv
<1>1. UNCHANGED <<now, zero, bias, saved, server, full, paired, announced>>
    BY DEF DropList, RestartUploads, clocks
<1>2. PairedBefore' /\ RotatingAhead' /\ McuAhead' /\ EstimatesAreClose'
    BY <1>1, QuietStepKeeps DEF EstimatesAreClose
<1>3. CASE DropList
    BY <1>1, <1>2, <1>3 DEF DropList, Invalidate, loopVars, EidTypeOK, EstimatesAtHand
<1>4. CASE RestartUploads
    <2>1. now \in Nat
        BY EidAssumption DEF EidTypeOK, Times
    <2> QED
        BY <1>1, <1>2, <1>4, <2>1 DEF RestartUploads, EidTypeOK, EstimatesAtHand
<1> QED
    BY <1>3, <1>4

LEMMA UploadStep == UploadInv /\ [UploadNext]_uploadVars => UploadInv'
<1> SUFFICES ASSUME UploadInv, [UploadNext]_uploadVars
             PROVE  UploadInv'
    OBVIOUS
<1>1. CASE UNCHANGED uploadVars
    BY <1>1 DEF uploadVars, clocks, loopVars, listVars, UploadInv, EidTypeOK, PairedBefore,
                EstimatesAreClose, EstimatesAtHand, RotatingAhead, McuAhead
<1>2. ASSUME NEW t \in Trackers, UseSaved(t) \/ NotCalibrated(t) \/ Calibrated(t)
      PROVE  UploadInv'
    BY <1>2, UseKeeps, CalibratedKeeps
<1>3. ASSUME NEW m \in Mcus, Register(m)
      PROVE  UploadInv'
    BY <1>3, RegisterKeeps
<1> QED
    BY <1>1, <1>2, <1>3, LoopStepKeeps, SendKeeps, SendPastKeeps, FetchListKeeps, TimePassesKeeps,
       ForgettingKeeps DEF UploadNext

LEMMA UploadInvariant == UploadSpec => []UploadInv
BY UploadInitIsSound, UploadStep, PTL DEF UploadSpec

\* Every estimate, upload and announcement is of its type, whatever the periods.
THEOREM EidTypesHold == UploadSpec => []EidTypeOK
<1>1. UploadInv => EidTypeOK
    BY DEF UploadInv
<1> QED
    BY <1>1, UploadInvariant, PTL

\* The estimate from a report that a tracker's key opens is never further off from what
\* the report shows than its rounding explains, however wrong its counter was
\* (estimate_clock_zero(), decrypt_with_counter_search()).
THEOREM EstimatesStayClose == UploadSpec => []EstimatesAreClose
<1>1. UploadInv => EstimatesAreClose
    BY DEF UploadInv
<1> QED
    BY <1>1, UploadInvariant, PTL

\* Google knows what a tracker sends right now, for as long as an accepted upload covers,
\* whatever its clock does within what the slots and the hours before now make up for
\* (get_rotating_eids() on what estimate_clock_zero() found).
THEOREM KnownWhileAnnouncedHolds == UploadSpec => []KnownWhileAnnounced
<1>1. UploadInv => KnownWhileAnnounced
    <2> SUFFICES ASSUME EidTypeOK, RotatingAhead
                 PROVE  KnownWhileAnnounced
        BY DEF UploadInv
    <2>1. now \in Int /\ now <= now /\ now <= End
        BY EidAssumption DEF EidTypeOK
    <2> QED
        BY <2>1 DEF RotatingAhead, KnownWhileAnnounced
<1> QED
    BY <1>1, UploadInvariant, PTL

\* A microcontroller is known from its registration on, and after each announcement
\* (register_esp32(), get_next_eids()).
THEOREM McuKnownHolds == UploadSpec => []McuKnown
<1>1. UploadInv => McuKnown
    <2> SUFFICES ASSUME EidTypeOK, McuAhead
                 PROVE  McuKnown
        BY DEF UploadInv
    <2>1. now \in Int /\ now <= now
        BY DEF EidTypeOK, Times
    <2> QED
        BY <2>1 DEF McuAhead, McuKnown
<1> QED
    BY <1>1, UploadInvariant, PTL
=============================================================================
