-------------------------- MODULE ForwardingProofs --------------------------
(***************************************************************************)
(* Theorems about forwarding, for any number of endpoints, readings,       *)
(* answers and retries: its type, that what is recorded as sent was        *)
(* accepted, that the poller has the configuration that was saved, and     *)
(* that a poll repeats no reading that stays on file.                      *)
(***************************************************************************)
EXTENDS Forwarding, FiniteSetTheorems, TLAPS

Awake == tick.at \in {"locating", "forwarding", "sending"}
Within == tick.at \in {"forwarding", "sending"}

\* A poll that is awake has endpoints that are due, and while it forwards one of
\* them is left to do for the reading of this turn.
TickShape ==
    /\ Awake => tick.due # {}
    /\ Within => tick.left # {} /\ tick.left \subseteq tick.due /\ tick.turn >= 1
    /\ tick.at = "sending" => tick.turn <= Len(tick.batch)

ClickShape ==
    /\ click.at # "none" => click.on \in Endpoints
    /\ click.at = "sending" => click.batch # <<>>

\* What a poll or a click is going to record was accepted by its destination.
ResultsGrounded ==
    /\ \A e \in Endpoints : tick.results[e] \in taken[e] \union {NoReading, NoResult}
    /\ tick.at = "sending" => tick.merged \in taken[Due] \union {NoReading}
    /\ click.at # "none" => click.merged \in taken[click.on] \union {NoReading}

\* What polls have sent is still on file, and of the readings that this poll
\* found to be new each endpoint was sent those of earlier turns only.
SentInOrder ==
    /\ \A e \in SeenGate : polled[e] \subseteq stored
    /\ Within => \A i, n \in 1 .. Len(tick.batch) :
          i \notin tick.old /\ n \notin tick.old /\ tick.batch[i] = tick.batch[n] => i = n
    /\ Within => \A i \in 1 .. Len(tick.batch), e \in SeenGate :
          i \notin tick.old /\ tick.batch[i] \in polled[e] =>
             \/ i < tick.turn
             \/ i = tick.turn /\ e \notin tick.left
             \/ i = tick.turn /\ e = Due /\ tick.at = "sending"

ForwardInv ==
    /\ ForwardingTypeOK /\ TickShape /\ ClickShape
    /\ PollerFollowsConfig
    /\ RecordIsGrounded /\ ResultsGrounded
    /\ SentInOrder

-----------------------------------------------------------------------------
(* The operators.                                                          *)

LEMMA SmallestExists ==
    ASSUME NEW S \in SUBSET Nat, S # {}
    PROVE  \E x \in S : \A y \in S : x <= y
<1>1. PICK x \in S : \A y \in S : ~(<<y, x>> \in OpToRel(<, Nat))
  BY NatLessThanWellFounded, WFMin, Zenon
<1>2. \A y \in S : ~(y < x)
  BY <1>1 DEF OpToRel
<1> QED
  BY <1>2

\* The loop over the due endpoints finds one as long as there is one.
LEMMA FirstIsMember ==
    ASSUME NEW S \in SUBSET Endpoints, S # {}
    PROVE  First(S) \in S
<1>1. \E e \in S : \A f \in S : e <= f
  BY ForwardingAssumption, SmallestExists
<1> QED
  BY <1>1 DEF First

\* Some reading of a set is the latest: every subset without one would have a
\* least one, which it would be without any of its readings.
LEMMA LatestExists ==
    ASSUME NEW S \in SUBSET Readings
    PROVE  \E t \in {0} \union {TimeOf[r] : r \in S} : \A r \in S : TimeOf[r] <= t
<1> DEFINE HasLatest(T) ==
             \E t \in {0} \union {TimeOf[r] : r \in T} : \A r \in T : TimeOf[r] <= t
           Without == {T \in SUBSET S : ~HasLatest(T)}
<1> SUFFICES ASSUME ~HasLatest(S)
             PROVE  FALSE
  OBVIOUS
<1>1. IsFiniteSet(S)
  BY ReadingsAssumption, FS_Subset
<1>2. Without \subseteq FiniteSubsetsOf(S) /\ S \in Without
  BY <1>1, FS_FiniteSubsetsOfFinite
<1>3. PICK T \in Without : \A U \in Without : ~(<<U, T>> \in StrictSubsetOrdering(S))
  <2> HIDE DEF Without
  <2> QED
    BY <1>2, FS_StrictSubsetOrderingWellFounded, WFMin, Zenon
<1>4. T # {}
  BY <1>3
<1>5. PICK x \in T : TRUE
  BY <1>4
<1>6. HasLatest(T \ {x})
  <2>1. <<T \ {x}, T>> \in StrictSubsetOrdering(S)
    BY <1>5 DEF StrictSubsetOrdering
  <2>2. T \ {x} \notin Without
    BY <1>3, <2>1
  <2> QED
    BY <2>2
<1>7. PICK t \in {0} \union {TimeOf[r] : r \in T \ {x}} : \A r \in T \ {x} : TimeOf[r] <= t
  BY <1>6
<1>8. t \in Nat /\ TimeOf[x] \in Nat /\ \A r \in T : TimeOf[r] \in Nat
  BY <1>7, ReadingsAssumption
<1>9. CASE TimeOf[x] <= t
  <2>1. HasLatest(T)
    BY <1>7, <1>9
  <2> QED
    BY <1>3, <2>1
<1>10. CASE t < TimeOf[x]
  <2>1. \A r \in T : TimeOf[r] <= TimeOf[x]
    BY <1>7, <1>8, <1>10
  <2>2. HasLatest(T)
    BY <2>1
  <2> QED
    BY <1>3, <2>2
<1> QED
  BY <1>8, <1>9, <1>10

LEMMA LatestOfIsLatest ==
    ASSUME NEW S \in SUBSET Readings
    PROVE  LatestOf(S) \in {0} \union {TimeOf[r] : r \in S}
BY LatestExists DEF LatestOf

\* The high-water mark is a time of a reading.
LEMMA NewestIsTime ==
    ASSUME LocationTypeOK, NEW S \in SUBSET Readings
    PROVE  NewestWith(S) \in {0} \union {TimeOf[r] : r \in Readings}
<1> DEFINE a == LatestOf(stored \intersect Fixes)
           b == LatestOf(S \intersect Fixes)
<1>1. a \in {0} \union {TimeOf[r] : r \in Readings} /\ b \in {0} \union {TimeOf[r] : r \in Readings}
  BY LatestOfIsLatest DEF LocationTypeOK
<1>2. newest \in {0} \union {TimeOf[r] : r \in Readings}
  BY DEF LocationTypeOK
<1>3. a \in Nat /\ b \in Nat /\ newest \in Nat
  <2> HIDE DEF a, b
  <2> QED
    BY <1>1, <1>2, ReadingsAssumption
<1>4. \E t \in {newest, a, b} : t >= newest /\ t >= a /\ t >= b
  BY <1>3
<1>5. NewestWith(S) \in {newest, a, b}
  BY <1>4 DEF NewestWith
<1> QED
  BY <1>1, <1>2, <1>5

LEMMA BatchesAreReadings ==
    ASSUME NEW batch \in Batches \union {<<>>}
    PROVE  /\ batch \in Seq(Readings)
           /\ Len(batch) \in Nat
           /\ ReadingsOf(batch) \subseteq Readings
<1>1. batch \in Seq(Readings)
  <2>1. CASE batch = <<>>
    BY <2>1
  <2>2. CASE batch \in Batches
    BY <2>2, OpenedAssumption DEF Batches
  <2> QED
    BY <2>1, <2>2
<1> QED
  BY <1>1 DEF ReadingsOf

\* Readings are put on file.
LEMMA StoringKeepsType ==
    ASSUME LocationTypeOK, NEW batch \in Seq(Readings), SetLastLocation(batch)
    PROVE  LocationTypeOK' /\ stored' = ReadingsOf(batch)
<1>1. ReadingsOf(batch) \in SUBSET Readings
  BY DEF ReadingsOf
<1> QED
  BY <1>1, NewestIsTime DEF SetLastLocation, LocationTypeOK

-----------------------------------------------------------------------------
(* The initial states.                                                     *)

LEMMA InitForwardInv == Init => ForwardInv
<1> SUFFICES ASSUME Init
             PROVE  ForwardInv
  OBVIOUS
<1>1. config \in SUBSET Endpoints /\ 0 \in 0 .. Attempts - 1 /\ 0 \in 0 .. MaxActs
  BY ForwardingAssumption DEF Init
<1>2. Asleep(config) \in Ticks
  BY <1>1 DEF Asleep, NoTick, Ticks, States
<1>3. ForwardingTypeOK
  BY <1>1, <1>2 DEF Init, ForwardingTypeOK, LocationInit, LocationTypeOK, NoClick, Clicks, States
<1>4. TickShape /\ PollerFollowsConfig /\ SentInOrder
  BY DEF Init, Asleep, NoTick, TickShape, Awake, Within, PollerFollowsConfig, SentInOrder
<1>5. ClickShape /\ RecordIsGrounded /\ ResultsGrounded
  BY DEF Init, Asleep, NoTick, NoClick, ClickShape, RecordIsGrounded, ResultsGrounded
<1> QED
  BY <1>3, <1>4, <1>5 DEF ForwardInv

-----------------------------------------------------------------------------
(* The poll.                                                               *)

LEMMA WakeKeeps ==
    ASSUME ForwardInv, Wake
    PROVE  ForwardInv'
<1> USE DEF ForwardInv
<1>1. PICK due \in (SUBSET tick.mine) \ {{}} :
          tick' = [tick EXCEPT !.at = "locating", !.due = due]
  BY DEF Wake
<1>2. tick \in Ticks /\ due \subseteq Endpoints
  BY DEF ForwardingTypeOK, Ticks
<1>3. tick' \in Ticks
  BY <1>1, <1>2 DEF Ticks
<1>4. ForwardingTypeOK'
  BY <1>3 DEF Wake, ForwardingTypeOK, LocationTypeOK, locationVars, history
<1>5. TickShape' /\ PollerFollowsConfig'
  <2>1. /\ tick'.at = "locating" /\ tick'.due = due /\ tick'.mine = tick.mine
        /\ config' = config /\ tick.at = "asleep" /\ due # {}
    BY <1>1, <1>2 DEF Wake, Ticks
  <2> QED
    BY <1>1, <2>1 DEF TickShape, Awake, Within, PollerFollowsConfig
<1>6. ClickShape' /\ RecordIsGrounded' /\ ResultsGrounded'
  BY <1>1, <1>2 DEF Wake, ClickShape, RecordIsGrounded, ResultsGrounded, history, Ticks
<1>7. SentInOrder'
  BY <1>1, <1>2 DEF Wake, SentInOrder, Within, locationVars, history, Ticks
<1> QED
  BY <1>4, <1>5, <1>6, <1>7

LEMMA RetryLocateKeeps ==
    ASSUME ForwardInv, RetryLocate
    PROVE  ForwardInv'
<1> USE DEF ForwardInv
<1>1. tick \in Ticks /\ tick' = [tick EXCEPT !.attempt = @ + 1] /\ tick.attempt + 1 \in 0 .. Attempts - 1
  BY ForwardingAssumption DEF RetryLocate, ForwardingTypeOK, Ticks
<1>2. tick' \in Ticks
  BY <1>1 DEF Ticks
<1>3. ForwardingTypeOK'
  BY <1>2 DEF RetryLocate, ForwardingTypeOK, LocationTypeOK, locationVars, history
<1>4. TickShape' /\ PollerFollowsConfig'
  BY <1>1 DEF RetryLocate, TickShape, Awake, Within, PollerFollowsConfig, Ticks
<1>5. ClickShape' /\ RecordIsGrounded' /\ ResultsGrounded'
  BY <1>1 DEF RetryLocate, ClickShape, RecordIsGrounded, ResultsGrounded, history, Ticks
<1>6. SentInOrder'
  BY <1>1 DEF RetryLocate, SentInOrder, Within, locationVars, history, Ticks
<1> QED
  BY <1>3, <1>4, <1>5, <1>6

\* What is new in a response was not on file, so no poll has sent it of what is.
LEMMA LocatedKeeps ==
    ASSUME ForwardInv, Located
    PROVE  ForwardInv'
<1> USE DEF ForwardInv
<1>1. PICK batch \in Batches \union {<<>>} :
          /\ KeepLocations(batch)
          /\ tick' = [tick EXCEPT
                !.at = "forwarding", !.batch = batch, !.turn = 1, !.left = tick.due,
                !.attempt = 0, !.old = {i \in 1 .. Len(batch) : ~IsNew(batch, i)}]
          /\ polled' = IF batch = <<>> THEN polled
                       ELSE [e \in SeenGate |-> polled[e] \intersect ReadingsOf(batch)]
  BY DEF Located
<1> DEFINE old == {i \in 1 .. Len(batch) : ~IsNew(batch, i)}
<1>2. batch \in Seq(Readings) /\ Len(batch) \in Nat /\ old \in SUBSET Nat
  BY BatchesAreReadings
<1>3. tick \in Ticks /\ 0 \in 0 .. Attempts - 1 /\ tick.due # {} /\ tick.at = "locating"
  BY ForwardingAssumption DEF Located, ForwardingTypeOK, TickShape, Awake
<1>4. /\ tick'.at = "forwarding" /\ tick'.batch = batch /\ tick'.turn = 1
      /\ tick'.left = tick.due /\ tick'.due = tick.due /\ tick'.old = old
      /\ tick'.mine = tick.mine /\ tick'.results = tick.results
  BY <1>1, <1>3 DEF Ticks
<1>5. tick' \in Ticks
  <2> HIDE DEF old
  <2> QED
    BY <1>1, <1>2, <1>3 DEF old, Ticks
<1>6. LocationTypeOK'
  BY <1>1, <1>2, StoringKeepsType
     DEF KeepLocations, ForwardingTypeOK, LocationTypeOK, locationVars
<1>7. ForwardingTypeOK'
  BY <1>1, <1>5, <1>6 DEF Located, ForwardingTypeOK
<1>8. TickShape' /\ PollerFollowsConfig'
  BY <1>3, <1>4 DEF Located, TickShape, Awake, Within, PollerFollowsConfig
<1>9. ClickShape' /\ RecordIsGrounded' /\ ResultsGrounded'
  BY <1>4 DEF Located, ClickShape, RecordIsGrounded, ResultsGrounded
<1>10. \A e \in SeenGate : polled'[e] \subseteq stored' /\ polled'[e] \subseteq stored
  <2>1. CASE batch = <<>>
    BY <1>1, <2>1 DEF KeepLocations, locationVars, SentInOrder
  <2>2. CASE batch # <<>>
    BY <1>1, <1>2, <2>2, StoringKeepsType DEF KeepLocations, ForwardingTypeOK, SentInOrder
  <2> QED
    BY <2>1, <2>2
<1>11. \A i \in 1 .. Len(batch) : i \notin old => IsNew(batch, i)
  OBVIOUS
<1>12. \A i \in 1 .. Len(batch) : i \notin old =>
          /\ batch[i] \notin stored
          /\ \A n \in 1 .. Len(batch) : n \notin old /\ batch[i] = batch[n] => i = n
  <2> HIDE DEF old
  <2>1. \A i \in 1 .. Len(batch) : i \notin old =>
            batch[i] \notin stored /\ \A n \in 1 .. i - 1 : batch[n] # batch[i]
    BY <1>11 DEF IsNew
  <2> QED
    BY <1>2, <2>1
<1>13. SentInOrder'
  <2> HIDE DEF old
  <2> QED
    BY <1>4, <1>10, <1>12 DEF SentInOrder, Within
<1> QED
  BY <1>7, <1>8, <1>9, <1>13

\* The loop goes on to the next endpoint or reading.
LEMMA AdvanceMoves ==
    ASSUME ForwardInv, Within, tick.turn <= Len(tick.batch),
           NEW result \in States, Advance(result)
    PROVE  /\ Due \in tick.left /\ Due \in Endpoints
           /\ tick' \in Ticks /\ tick'.at = "forwarding"
           /\ tick'.mine = tick.mine /\ tick'.due = tick.due
           /\ tick'.batch = tick.batch /\ tick'.old = tick.old
           /\ tick'.results = [tick.results EXCEPT ![Due] = result]
           /\ tick'.left # {} /\ tick'.left \subseteq tick.due /\ tick'.turn >= 1
           /\ tick'.turn \in {tick.turn, tick.turn + 1}
           /\ tick'.turn = tick.turn => tick'.left = tick.left \ {Due}
<1>1. tick \in Ticks /\ tick.left # {} /\ tick.left \subseteq tick.due /\ tick.turn >= 1
  BY DEF ForwardInv, ForwardingTypeOK, TickShape
<1>2. tick.left \in SUBSET Endpoints /\ tick.due \in SUBSET Endpoints
  BY <1>1 DEF Ticks
<1>3. Due \in tick.left /\ Due \in Endpoints
  BY <1>1, <1>2, FirstIsMember DEF Due
<1> DEFINE left == tick.left \ {Due}
           turn == IF left = {} THEN tick.turn + 1 ELSE tick.turn
           rest == IF left = {} THEN tick.due ELSE left
<1>4. tick' = [tick EXCEPT !.at = "forwarding", !.results[Due] = result,
                           !.merged = NoReading, !.turn = turn, !.left = rest]
  BY DEF Advance
<1>5. /\ turn \in Nat /\ turn >= 1 /\ rest \in SUBSET Endpoints /\ rest \subseteq tick.due
      /\ rest # {} /\ turn \in {tick.turn, tick.turn + 1}
      /\ turn = tick.turn => rest = tick.left \ {Due}
  BY <1>1, <1>2 DEF Ticks
<1> HIDE DEF turn, rest
<1>6. tick' \in Ticks
  BY <1>1, <1>3, <1>4, <1>5 DEF Ticks, States
<1> QED
  BY <1>1, <1>3, <1>4, <1>5, <1>6 DEF Ticks

\* With the result of this endpoint and reading the loop keeps what it knows.
LEMMA AdvanceKeeps ==
    ASSUME ForwardInv, Within, tick.turn <= Len(tick.batch),
           NEW result \in States, Advance(result),
           UNCHANGED <<locationVars, config, state, click, wire, acts, polled>>,
           taken' \in [Endpoints -> SUBSET Readings],
           \A e \in Endpoints : taken[e] \subseteq taken'[e],
           result \in taken'[Due] \union {NoReading}
    PROVE  ForwardInv'
<1> USE DEF ForwardInv
<1>1. /\ Due \in tick.left /\ Due \in Endpoints
      /\ tick' \in Ticks /\ tick'.at = "forwarding"
      /\ tick'.mine = tick.mine /\ tick'.due = tick.due
      /\ tick'.batch = tick.batch /\ tick'.old = tick.old
      /\ tick'.results = [tick.results EXCEPT ![Due] = result]
      /\ tick'.left # {} /\ tick'.left \subseteq tick.due /\ tick'.turn >= 1
      /\ tick'.turn \in {tick.turn, tick.turn + 1}
      /\ tick'.turn = tick.turn => tick'.left = tick.left \ {Due}
  BY AdvanceMoves
<1>2. ForwardingTypeOK'
  BY <1>1 DEF ForwardingTypeOK, LocationTypeOK, locationVars
<1>3. TickShape' /\ PollerFollowsConfig'
  BY <1>1 DEF TickShape, Awake, Within, PollerFollowsConfig
<1>4. ClickShape' /\ RecordIsGrounded'
  BY DEF ClickShape, RecordIsGrounded
<1>5. ResultsGrounded'
  <2>1. \A e \in Endpoints : tick'.results[e] \in taken'[e] \union {NoReading, NoResult}
    BY <1>1 DEF ResultsGrounded, ForwardingTypeOK, Ticks
  <2> QED
    BY <1>1, <2>1 DEF ResultsGrounded, ClickShape
<1>6. SentInOrder'
  <2>1. tick.turn \in Nat /\ Len(tick.batch) \in Nat
    BY BatchesAreReadings DEF ForwardingTypeOK, Ticks
  <2>2. ASSUME NEW i \in 1 .. Len(tick.batch), NEW e \in SeenGate,
               i \notin tick.old, tick.batch[i] \in polled[e]
        PROVE  i < tick'.turn \/ (i = tick'.turn /\ e \notin tick'.left)
    <3>1. i < tick.turn \/ (i = tick.turn /\ (e \notin tick.left \/ e = Due))
      BY <2>2 DEF SentInOrder
    <3> QED
      BY <1>1, <2>1, <3>1
  <2> QED
    BY <1>1, <2>2 DEF SentInOrder, Within, locationVars
<1> QED
  BY <1>2, <1>3, <1>4, <1>5, <1>6

LEMMA SkipKeeps ==
    ASSUME ForwardInv, Skip
    PROVE  ForwardInv'
<1>1. Within /\ tick.turn <= Len(tick.batch) /\ tick.left \in SUBSET Endpoints /\ tick.left # {}
  BY DEF Skip, Forwards, Within, ForwardInv, TickShape, ForwardingTypeOK, Ticks
<1>2. Due \in Endpoints
  BY <1>1, FirstIsMember DEF Due
<1>3. Advance(state[Due]) /\ UNCHANGED <<locationVars, config, state, click, wire, acts, history>>
  BY DEF Skip, Recorded
<1>4. state[Due] \in States /\ state[Due] \in taken[Due] \union {NoReading}
  BY <1>2 DEF ForwardInv, ForwardingTypeOK, RecordIsGrounded
<1> QED
  BY <1>1, <1>3, <1>4, AdvanceKeeps DEF history, ForwardInv, ForwardingTypeOK

\* The seen gate lets only a reading pass that this poll found to be new.
LEMMA SendKeeps ==
    ASSUME ForwardInv, Send
    PROVE  ForwardInv'
<1> USE DEF ForwardInv
<1>1. /\ tick \in Ticks /\ tick.at = "forwarding" /\ tick.turn <= Len(tick.batch)
      /\ tick.turn \in Nat /\ tick.turn >= 1 /\ Len(tick.batch) \in Nat
      /\ tick.left \in SUBSET Endpoints /\ tick.left # {}
  BY BatchesAreReadings
     DEF Send, Forwards, Within, TickShape, ForwardingTypeOK, Ticks
<1>2. Due \in Endpoints /\ Due \in tick.left
  BY <1>1, FirstIsMember DEF Due
<1>3. /\ tick' = [tick EXCEPT !.at = "sending", !.merged = state[Due]]
      /\ polled' = [e \in SeenGate |->
            polled[e] \union {r \in {Reading} \intersect stored : e = Due}]
      /\ UNCHANGED <<stored, newest, config, state, click, wire, acts, taken>>
  BY DEF Send, locationVars
<1>4. state[Due] \in States
  BY <1>2 DEF ForwardingTypeOK
<1>5. tick' \in Ticks
  BY <1>1, <1>3, <1>4 DEF Ticks
<1>6. /\ tick'.at = "sending" /\ tick'.merged = state[Due] /\ tick'.left = tick.left
      /\ tick'.due = tick.due /\ tick'.turn = tick.turn /\ tick'.batch = tick.batch
      /\ tick'.old = tick.old /\ tick'.mine = tick.mine /\ tick'.results = tick.results
  BY <1>1, <1>3 DEF Ticks
<1>7. Due' = Due /\ Reading' = Reading
  BY <1>6 DEF Due, Reading
<1>8. ForwardingTypeOK'
  BY <1>3, <1>5 DEF ForwardingTypeOK, LocationTypeOK
<1>9. TickShape' /\ PollerFollowsConfig'
  BY <1>1, <1>3, <1>6 DEF TickShape, Awake, Within, PollerFollowsConfig
<1>10. ClickShape' /\ RecordIsGrounded' /\ ResultsGrounded'
  BY <1>2, <1>3, <1>6, <1>7 DEF ClickShape, RecordIsGrounded, ResultsGrounded
<1>11. SentInOrder'
  <2>1. \A e \in SeenGate : polled'[e] \subseteq stored'
    BY <1>3 DEF SentInOrder
  <2>2. ASSUME NEW i \in 1 .. Len(tick.batch), NEW e \in SeenGate,
               i \notin tick.old, tick.batch[i] \in polled'[e]
        PROVE  i < tick.turn \/ (i = tick.turn /\ (e \notin tick.left \/ e = Due))
    <3>1. CASE tick.batch[i] \in polled[e]
      BY <1>1, <2>2, <3>1 DEF SentInOrder, Within
    <3>2. CASE tick.batch[i] \notin polled[e]
      <4>1. e = Due /\ tick.batch[i] = tick.batch[tick.turn]
        BY <1>3, <2>2, <3>2 DEF Reading
      <4>2. tick.turn \in 1 .. Len(tick.batch) /\ tick.turn \notin tick.old
        BY <1>1, <4>1 DEF Send, MustSkip, IsOld
      <4> QED
        BY <1>1, <2>2, <4>1, <4>2 DEF SentInOrder, Within
    <3> QED
      BY <3>1, <3>2
  <2> QED
    BY <1>1, <1>6, <1>7, <2>1, <2>2 DEF SentInOrder, Within
<1> QED
  BY <1>8, <1>9, <1>10, <1>11

\* What a destination answers adds at most to what it has taken.
LEMMA AnswerGrows ==
    ASSUME ForwardingTypeOK, NEW e \in Endpoints, NEW r \in Readings, NEW status,
           Answer(e, r, status)
    PROVE  /\ taken' \in [Endpoints -> SUBSET Readings]
           /\ \A f \in Endpoints : taken[f] \subseteq taken'[f]
           /\ status = "ok" => r \in taken'[e]
           /\ polled' = polled
BY DEF Answer, ForwardingTypeOK

LEMMA SentKeeps ==
    ASSUME ForwardInv, Sent
    PROVE  ForwardInv'
<1>1. PICK status \in {"ok", "error"} :
          /\ Answer(Due, Reading, status)
          /\ Advance(Recorded(tick.merged, status, Reading))
  BY DEF Sent
<1>2. /\ tick \in Ticks /\ tick.at = "sending" /\ tick.turn <= Len(tick.batch)
      /\ tick.turn \in Nat /\ tick.turn >= 1 /\ tick.batch \in Seq(Readings)
      /\ tick.left \in SUBSET Endpoints /\ tick.left # {}
  BY BatchesAreReadings
     DEF Sent, Within, ForwardInv, TickShape, ForwardingTypeOK, Ticks
<1>3. Due \in Endpoints /\ Reading \in Readings
  BY <1>2, FirstIsMember DEF Due, Reading
<1>4. /\ taken' \in [Endpoints -> SUBSET Readings]
      /\ \A f \in Endpoints : taken[f] \subseteq taken'[f]
      /\ status = "ok" => Reading \in taken'[Due]
      /\ polled' = polled
  BY <1>1, <1>3, AnswerGrows DEF ForwardInv
<1>5. tick.merged \in taken[Due] \union {NoReading} /\ tick.merged \in States
  BY <1>2 DEF ForwardInv, ResultsGrounded, Ticks
<1> DEFINE result == Recorded(tick.merged, status, Reading)
<1>6. result \in States /\ result \in taken'[Due] \union {NoReading}
  BY <1>1, <1>3, <1>4, <1>5 DEF Recorded, States
<1>7. UNCHANGED <<locationVars, config, state, click, wire, acts, polled>>
  BY <1>4 DEF Sent
<1> HIDE DEF result
<1>8. Advance(result)
  BY <1>1 DEF result
<1> QED
  BY <1>2, <1>4, <1>6, <1>7, <1>8, AdvanceKeeps DEF Within

\* A poll task that starts sleeps with the configuration it is given.
LEMMA AsleepIsFresh ==
    ASSUME NEW mine \in SUBSET Endpoints
    PROVE  /\ Asleep(mine) \in Ticks
           /\ Asleep(mine).at \in {"none", "asleep"}
           /\ Asleep(mine).at = "none" <=> mine = {}
           /\ Asleep(mine).mine = mine /\ Asleep(mine).due = {}
           /\ Asleep(mine).results = [e \in Endpoints |-> NoResult]
<1>1. 0 \in 0 .. Attempts - 1
  BY ForwardingAssumption
<1> QED
  BY <1>1 DEF Asleep, NoTick, Ticks, States

\* A poll ends, or its task is replaced: nothing is left of what it was doing.
LEMMA FreshPollKeeps ==
    ASSUME ForwardInv,
           config' \in SUBSET Endpoints, tick' = Asleep(config'),
           UNCHANGED <<locationVars, taken, polled>>,
           state' \in [Endpoints -> States],
           \A e \in Endpoints : state'[e] \in taken[e] \union {NoReading},
           click' \in {click, NoClick},
           wire' \subseteq Endpoints \X Readings, acts' \in 0 .. MaxActs
    PROVE  ForwardInv'
<1> USE DEF ForwardInv
<1>1. /\ tick' \in Ticks /\ tick'.at \in {"none", "asleep"}
      /\ tick'.at = "none" <=> config' = {}
      /\ tick'.mine = config' /\ tick'.due = {}
      /\ tick'.results = [e \in Endpoints |-> NoResult]
  BY AsleepIsFresh
<1>2. NoClick \in Clicks /\ NoClick.at = "none"
  BY DEF NoClick, Clicks, States
<1>3. ForwardingTypeOK'
  BY <1>1, <1>2 DEF ForwardingTypeOK, LocationTypeOK, locationVars
<1>4. TickShape' /\ PollerFollowsConfig' /\ SentInOrder'
  BY <1>1 DEF TickShape, Awake, Within, PollerFollowsConfig, SentInOrder, locationVars
<1>5. ClickShape' /\ RecordIsGrounded' /\ ResultsGrounded'
  BY <1>1, <1>2 DEF ClickShape, RecordIsGrounded, ResultsGrounded
<1> QED
  BY <1>3, <1>4, <1>5

LEMMA RecordKeeps ==
    ASSUME ForwardInv, Record
    PROVE  ForwardInv'
<1>1. config' \in SUBSET Endpoints /\ tick' = Asleep(config')
  BY DEF Record, ForwardInv, ForwardingTypeOK
<1>2. /\ state' \in [Endpoints -> States]
      /\ \A e \in Endpoints : state'[e] \in taken[e] \union {NoReading}
  BY DEF Record, ForwardInv, ForwardingTypeOK, RecordIsGrounded, ResultsGrounded, Ticks
<1> QED
  BY <1>1, <1>2, FreshPollKeeps DEF Record, history, ForwardInv, ForwardingTypeOK

-----------------------------------------------------------------------------
(* Send now.                                                               *)

\* A click leaves the poll, and what is on file, alone.
LEMMA ClickChangeKeeps ==
    ASSUME ForwardInv, UNCHANGED <<locationVars, config, tick, wire, polled>>,
           acts' \in 0 .. MaxActs, state' \in [Endpoints -> States], click' \in Clicks,
           ClickShape',
           taken' \in [Endpoints -> SUBSET Readings],
           \A e \in Endpoints : taken[e] \subseteq taken'[e],
           \A e \in Endpoints : state'[e] \in taken'[e] \union {NoReading},
           click'.at # "none" => click'.merged \in taken'[click'.on] \union {NoReading}
    PROVE  ForwardInv'
<1> USE DEF ForwardInv
<1>1. ForwardingTypeOK'
  BY DEF ForwardingTypeOK, LocationTypeOK, locationVars
<1>2. TickShape' /\ PollerFollowsConfig'
  BY DEF TickShape, Awake, Within, PollerFollowsConfig
<1>3. SentInOrder'
  BY DEF SentInOrder, Within, Due, locationVars
<1>4. RecordIsGrounded'
  BY DEF RecordIsGrounded
<1>5. ResultsGrounded'
  <2>1. \A e \in Endpoints : tick.results[e] \in taken'[e] \union {NoReading, NoResult}
    BY DEF ResultsGrounded
  <2>2. tick.at = "sending" => tick.merged \in taken'[Due] \union {NoReading}
    <3> SUFFICES ASSUME tick.at = "sending"
                 PROVE  tick.merged \in taken'[Due] \union {NoReading}
      OBVIOUS
    <3>1. Due \in Endpoints
      BY FirstIsMember DEF TickShape, Within, ForwardingTypeOK, Ticks, Due
    <3> QED
      BY <3>1 DEF ResultsGrounded
  <2> QED
    BY <2>1, <2>2 DEF ResultsGrounded, Due
<1> QED
  BY <1>1, <1>2, <1>3, <1>4, <1>5

LEMMA ClickStepKeeps ==
    ASSUME ForwardInv, ClickStep
    PROVE  ForwardInv'
<1>1. /\ click \in Clicks /\ state \in [Endpoints -> States]
      /\ taken \in [Endpoints -> SUBSET Readings] /\ acts \in 0 .. MaxActs
      /\ config \subseteq Endpoints /\ MaxActs \in Nat
      /\ \A e \in Endpoints : state[e] \in taken[e] \union {NoReading}
      /\ click.at # "none" => /\ click.on \in Endpoints
                              /\ click.merged \in taken[click.on] \union {NoReading}
  BY ForwardingAssumption
     DEF ForwardInv, ForwardingTypeOK, RecordIsGrounded, ResultsGrounded, ClickShape
<1>2. ASSUME NEW e \in Endpoints, Click(e)
      PROVE  ForwardInv'
  <2>1. /\ click' = [at |-> "locating", on |-> e, batch |-> <<>>, merged |-> state[e]]
        /\ acts' \in 0 .. MaxActs
    <3>1. click' = [NoClick EXCEPT !.at = "locating", !.on = e, !.merged = state[e]]
      BY <1>2 DEF Click
    <3>2. acts' \in 0 .. MaxActs
      BY <1>1, <1>2 DEF Click, Act
    <3> QED
      BY <3>1, <3>2 DEF NoClick
  <2>2. click' \in Clicks /\ ClickShape'
    BY <1>1, <2>1 DEF Clicks, ClickShape
  <2> QED
    BY <1>1, <1>2, <2>1, <2>2, ClickChangeKeeps DEF Click, history
<1>3. CASE ClickLocated
  <2>1. PICK batch \in Batches \union {<<>>} :
            click' = [click EXCEPT !.at = "forwarding", !.batch = batch]
    BY <1>3 DEF ClickLocated
  <2>2. batch \in Seq(Readings)
    BY BatchesAreReadings
  <2>3. /\ click' \in Clicks /\ ClickShape' /\ click'.on = click.on
        /\ click'.merged = click.merged /\ click.at # "none"
    BY <1>1, <1>3, <2>1, <2>2 DEF ClickLocated, Clicks, ClickShape
  <2> QED
    BY <1>1, <1>3, <2>3, ClickChangeKeeps DEF ClickLocated, history
<1>4. CASE ClickSend
  <2>1. click.batch \in Seq(Readings) /\ click.batch # <<>>
    BY <1>1, <1>4 DEF ClickSend, Clicks
  <2>2. Tail(click.batch) \in Seq(Readings)
    BY <2>1
  <2>3. click' \in {[click EXCEPT !.batch = Tail(@)], [click EXCEPT !.at = "sending"]}
    BY <1>4 DEF ClickSend
  <2>4. /\ click' \in Clicks /\ ClickShape' /\ click'.on = click.on
        /\ click'.merged = click.merged /\ click.at # "none"
    BY <1>1, <1>4, <2>1, <2>2, <2>3 DEF ClickSend, Clicks, ClickShape
  <2> QED
    BY <1>1, <1>4, <2>4, ClickChangeKeeps DEF ClickSend, history
<1>5. CASE ClickSent
  <2>1. PICK status \in {"ok", "error"} :
            /\ Answer(click.on, Head(click.batch), status)
            /\ click' = [click EXCEPT
                  !.at = "forwarding", !.batch = Tail(@),
                  !.merged = Recorded(@, status, Head(click.batch))]
    BY <1>5 DEF ClickSent
  <2>2. click.at = "sending" /\ click.on \in Endpoints /\ click.batch \in Seq(Readings)
        /\ click.batch # <<>>
    BY <1>1, <1>5 DEF ClickSent, Clicks, ForwardInv, ClickShape
  <2>3. Head(click.batch) \in Readings /\ Tail(click.batch) \in Seq(Readings)
    BY <2>2
  <2>4. /\ taken' \in [Endpoints -> SUBSET Readings]
        /\ \A f \in Endpoints : taken[f] \subseteq taken'[f]
        /\ status = "ok" => Head(click.batch) \in taken'[click.on]
        /\ polled' = polled
    BY <2>1, <2>2, <2>3, AnswerGrows DEF ForwardInv
  <2> DEFINE merged == Recorded(click.merged, status, Head(click.batch))
  <2>5. merged \in States /\ merged \in taken'[click.on] \union {NoReading}
    BY <1>1, <2>1, <2>2, <2>3, <2>4 DEF Recorded, States, Clicks
  <2>6. click' = [click EXCEPT !.at = "forwarding", !.batch = Tail(@), !.merged = merged]
    BY <2>1
  <2> HIDE DEF merged
  <2>7. /\ click' \in Clicks /\ ClickShape' /\ click'.on = click.on
        /\ click'.merged = merged
    BY <1>1, <2>2, <2>3, <2>5, <2>6 DEF Clicks, ClickShape
  <2>8. \A e \in Endpoints : state[e] \in taken'[e] \union {NoReading}
    BY <1>1, <2>4
  <2> QED
    BY <1>1, <1>5, <2>4, <2>5, <2>7, <2>8, ClickChangeKeeps DEF ClickSent
<1>6. CASE ClickRecord
  <2>1. /\ state' = [state EXCEPT ![click.on] = click.merged]
        /\ click' = NoClick /\ click.at = "forwarding" /\ click.merged \in States
    BY <1>1, <1>6 DEF ClickRecord, Clicks
  <2>2. click' \in Clicks /\ ClickShape' /\ click'.at = "none"
    BY <2>1 DEF NoClick, Clicks, States, ClickShape
  <2>3. /\ state' \in [Endpoints -> States]
        /\ \A e \in Endpoints : state'[e] \in taken[e] \union {NoReading}
    BY <1>1, <2>1
  <2> QED
    BY <1>1, <1>6, <2>2, <2>3, ClickChangeKeeps DEF ClickRecord, history
<1> QED
  BY <1>2, <1>3, <1>4, <1>5, <1>6 DEF ClickStep
-----------------------------------------------------------------------------
(* The rest.                                                               *)

LEMMA ActCounts ==
    ASSUME ForwardInv, Act
    PROVE  acts' \in 0 .. MaxActs
BY ForwardingAssumption DEF Act, ForwardInv, ForwardingTypeOK

\* What a manual locate takes off the file no poll is held to any more.
LEMMA ManualLocateKeeps ==
    ASSUME ForwardInv, ManualLocate
    PROVE  ForwardInv'
<1> USE DEF ForwardInv
<1>1. PICK batch \in Batches \ {<<>>} :
          LET raw == [i \in 1 .. Len(batch) |-> RawOf[batch[i]]] IN
          /\ SetLastLocation(raw)
          /\ polled' = [e \in SeenGate |-> polled[e] \intersect ReadingsOf(raw)]
  BY DEF ManualLocate
<1> DEFINE raw == [i \in 1 .. Len(batch) |-> RawOf[batch[i]]]
<1>2. raw \in Seq(Readings)
  <2>1. batch \in Seq(Readings)
    BY BatchesAreReadings
  <2> QED
    BY <2>1, ForwardingAssumption
<1> HIDE DEF raw
<1>3. /\ SetLastLocation(raw)
      /\ polled' = [e \in SeenGate |-> polled[e] \intersect ReadingsOf(raw)]
      /\ UNCHANGED <<config, state, tick, click, wire, taken>>
  BY <1>1 DEF raw, ManualLocate
<1>4. LocationTypeOK' /\ stored' = ReadingsOf(raw)
  BY <1>2, <1>3, StoringKeepsType DEF ForwardingTypeOK
<1>5. \A e \in SeenGate : polled'[e] \subseteq polled[e] /\ polled'[e] \subseteq stored'
  BY <1>3, <1>4
<1>6. ForwardingTypeOK'
  <2>1. acts' \in 0 .. MaxActs
    BY ActCounts DEF ManualLocate
  <2>2. polled' \in [SeenGate -> SUBSET Readings]
    BY <1>3 DEF ForwardingTypeOK
  <2> QED
    BY <1>3, <1>4, <2>1, <2>2 DEF ForwardingTypeOK
<1>7. TickShape' /\ PollerFollowsConfig'
  BY <1>3 DEF TickShape, Awake, Within, PollerFollowsConfig
<1>8. ClickShape' /\ RecordIsGrounded' /\ ResultsGrounded'
  BY <1>3 DEF ClickShape, RecordIsGrounded, ResultsGrounded, Due
<1>9. SentInOrder'
  BY <1>3, <1>5 DEF SentInOrder, Within, Due
<1> QED
  BY <1>6, <1>7, <1>8, <1>9

\* The requests that are under way are of endpoints and readings.
LEMMA WiresTyped ==
    ASSUME ForwardInv
    PROVE  /\ PollWire \subseteq Endpoints \X Readings
           /\ ClickWire \subseteq Endpoints \X Readings
<1> USE DEF ForwardInv
<1>1. ASSUME tick.at = "sending"
      PROVE  Due \in Endpoints /\ Reading \in Readings
  <2>1. /\ tick.turn <= Len(tick.batch) /\ tick.turn >= 1 /\ tick.turn \in Nat
        /\ tick.batch \in Seq(Readings)
        /\ tick.left \in SUBSET Endpoints /\ tick.left # {}
    BY <1>1, BatchesAreReadings DEF Within, TickShape, ForwardingTypeOK, Ticks
  <2> QED
    BY <2>1, FirstIsMember DEF Due, Reading
<1>2. ASSUME click.at = "sending"
      PROVE  click.on \in Endpoints /\ Head(click.batch) \in Readings
  BY <1>2 DEF ClickShape, ForwardingTypeOK, Clicks
<1> QED
  BY <1>1, <1>2 DEF PollWire, ClickWire

LEMMA SaveKeeps ==
    ASSUME ForwardInv, NEW new \in Configs, Save(new)
    PROVE  ForwardInv'
<1>1. config' \in SUBSET Endpoints /\ tick' = Asleep(config')
  BY ForwardingAssumption DEF Save, Restarted
<1>2. /\ state' \in [Endpoints -> States]
      /\ \A e \in Endpoints : state'[e] \in taken[e] \union {NoReading}
  BY DEF Save, ForwardInv, ForwardingTypeOK, RecordIsGrounded, States
<1>3. wire' \subseteq Endpoints \X Readings
  BY WiresTyped DEF Save, ForwardInv, ForwardingTypeOK
<1>4. acts' \in 0 .. MaxActs
  BY ActCounts DEF Save
<1> QED
  BY <1>1, <1>2, <1>3, <1>4, FreshPollKeeps DEF Save, history

LEMMA RestartKeeps ==
    ASSUME ForwardInv, Restart
    PROVE  ForwardInv'
<1>1. config' \in SUBSET Endpoints /\ tick' = Asleep(config')
  BY DEF Restart, ForwardInv, ForwardingTypeOK
<1>2. /\ state' \in [Endpoints -> States]
      /\ \A e \in Endpoints : state'[e] \in taken[e] \union {NoReading}
  BY DEF Restart, ForwardInv, ForwardingTypeOK, RecordIsGrounded
<1>3. wire' \subseteq Endpoints \X Readings
  BY WiresTyped DEF Restart, ForwardInv, ForwardingTypeOK
<1>4. acts' \in 0 .. MaxActs
  BY ActCounts DEF Restart
<1> QED
  BY <1>1, <1>2, <1>3, <1>4, FreshPollKeeps DEF Restart, history

LEMMA WireSentKeeps ==
    ASSUME ForwardInv, WireSent
    PROVE  ForwardInv'
<1>1. PICK p \in wire, status \in {"ok", "error"} :
          Answer(p[1], p[2], status) /\ wire' = wire \ {p}
  BY DEF WireSent
<1>2. p[1] \in Endpoints /\ p[2] \in Readings
  BY DEF ForwardInv, ForwardingTypeOK
<1>3. /\ taken' \in [Endpoints -> SUBSET Readings]
      /\ \A f \in Endpoints : taken[f] \subseteq taken'[f]
      /\ polled' = polled
  BY <1>1, <1>2, AnswerGrows DEF ForwardInv
<1>4. UNCHANGED <<stored, newest, config, state, tick, click, acts>>
  BY DEF WireSent, locationVars
<1>5. ForwardingTypeOK'
  BY <1>1, <1>3, <1>4 DEF ForwardInv, ForwardingTypeOK, LocationTypeOK
<1>6. TickShape' /\ ClickShape' /\ PollerFollowsConfig' /\ SentInOrder'
  BY <1>3, <1>4
     DEF ForwardInv, TickShape, Awake, Within, ClickShape, PollerFollowsConfig, SentInOrder, Due
<1>7. RecordIsGrounded'
  BY <1>3, <1>4 DEF ForwardInv, RecordIsGrounded
<1>8. ResultsGrounded'
  <2>1. \A e \in Endpoints : tick.results[e] \in taken'[e] \union {NoReading, NoResult}
    BY <1>3 DEF ForwardInv, ResultsGrounded
  <2>2. tick.at = "sending" => Due \in Endpoints
    BY FirstIsMember DEF ForwardInv, TickShape, Within, ForwardingTypeOK, Ticks, Due
  <2>3. tick.at = "sending" => tick.merged \in taken'[Due] \union {NoReading}
    BY <1>3, <2>2 DEF ForwardInv, ResultsGrounded
  <2>4. click.at # "none" => click.merged \in taken'[click.on] \union {NoReading}
    BY <1>3 DEF ForwardInv, ResultsGrounded, ClickShape
  <2> QED
    BY <1>4, <2>1, <2>3, <2>4 DEF ResultsGrounded, Due
<1> QED
  BY <1>5, <1>6, <1>7, <1>8 DEF ForwardInv

-----------------------------------------------------------------------------
(* The theorems.                                                           *)

LEMMA ForwardInvInductive == ForwardInv /\ [Next]_vars => ForwardInv'
<1> SUFFICES ASSUME ForwardInv, [Next]_vars
             PROVE  ForwardInv'
  OBVIOUS
<1>1. CASE Wake
  BY <1>1, WakeKeeps
<1>2. CASE PollOn
  BY <1>2, RetryLocateKeeps, LocatedKeeps, SkipKeeps, SendKeeps, SentKeeps, RecordKeeps DEF PollOn
<1>3. CASE ClickStep
  BY <1>3, ClickStepKeeps
<1>4. CASE ManualLocate
  BY <1>4, ManualLocateKeeps
<1>5. CASE \E new \in Configs : Save(new)
  BY <1>5, SaveKeeps
<1>6. CASE WireSent
  BY <1>6, WireSentKeeps
<1>7. CASE Restart
  BY <1>7, RestartKeeps
<1>8. CASE UNCHANGED vars
  BY <1>8
     DEF vars, ForwardInv, ForwardingTypeOK, LocationTypeOK, TickShape, Awake, Within, ClickShape,
         PollerFollowsConfig, RecordIsGrounded, ResultsGrounded, SentInOrder, Due
<1> QED
  BY <1>1, <1>2, <1>3, <1>4, <1>5, <1>6, <1>7, <1>8 DEF Next

LEMMA ForwardInvHolds == Spec => []ForwardInv
BY InitForwardInv, ForwardInvInductive, PTL DEF Spec

\* Every variable of the forwarding, its poll task, clicks and requests on
\* threads included, stays within its type.
THEOREM ForwardingTypesHold == Spec => []ForwardingTypeOK
<1>1. ForwardInv => ForwardingTypeOK
  BY DEF ForwardInv
<1> QED
  BY <1>1, ForwardInvHolds, PTL

\* What endpoint_state says was last sent to an endpoint is a reading that its
\* destination accepted, however many polls, clicks, saves and restarts
\* interleave while the requests are under way.
THEOREM RecordIsGroundedHolds == Spec => []RecordIsGrounded
<1>1. ForwardInv => RecordIsGrounded
  BY DEF ForwardInv
<1> QED
  BY <1>1, ForwardInvHolds, PTL

\* The poll task runs for the endpoints of the configuration that was last
\* saved, and runs if and only if there are any.
THEOREM PollerFollowsConfigHolds == Spec => []PollerFollowsConfig
<1>1. ForwardInv => PollerFollowsConfig
  BY DEF ForwardInv
<1> QED
  BY <1>1, ForwardInvHolds, PTL

\* A poll sends an endpoint with skip_if_already_seen no reading that a poll has
\* sent it since the reading was put on file, whatever the backend repeats and
\* whatever the manual locates, saves and restarts in between.
THEOREM NoRepeatWhileListedHolds == Spec => NoRepeatWhileListed
<1>1. ASSUME ForwardInv, Send, Due \in SeenGate
      PROVE  Reading \notin polled[Due]
  <2>1. /\ tick.at = "forwarding" /\ tick.turn <= Len(tick.batch)
        /\ tick.turn >= 1 /\ tick.turn \in Nat /\ Len(tick.batch) \in Nat
        /\ tick.left \in SUBSET Endpoints /\ tick.left # {}
    BY <1>1, BatchesAreReadings
       DEF Send, Forwards, ForwardInv, TickShape, Within, ForwardingTypeOK, Ticks
  <2>2. Due \in tick.left
    BY <2>1, FirstIsMember DEF Due
  <2>3. tick.turn \in 1 .. Len(tick.batch) /\ tick.turn \notin tick.old
    BY <1>1, <2>1 DEF Send, MustSkip, IsOld
  <2> QED
    BY <1>1, <2>1, <2>2, <2>3 DEF ForwardInv, SentInOrder, Within, Reading
<1>2. ForwardInv /\ [Next]_vars => [Send /\ Due \in SeenGate => Reading \notin polled[Due]]_vars
  BY <1>1
<1> QED
  BY <1>2, ForwardInvHolds, PTL DEF Spec, NoRepeatWhileListed
=============================================================================
