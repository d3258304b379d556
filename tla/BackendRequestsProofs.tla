----------------------- MODULE BackendRequestsProofs -----------------------
(***************************************************************************)
(* What the rate limiter guarantees for every set of callers and every     *)
(* choice of settings, and what the requests that use it inherit.          *)
(*                                                                         *)
(* The deque alone cannot show the window limit: it has forgotten the      *)
(* slots it popped.  The inductive invariant therefore relates it to the   *)
(* history of all slots: it is a suffix of it, and every slot of the       *)
(* present settings outside that suffix has left the window.               *)
(***************************************************************************)
EXTENDS BackendRequests, FiniteSetTheorems, TLAPS

\* The deque is the newest part of the history.
DequeIsSuffix ==
    /\ Len(sentAt) <= Len(sent)
    /\ \A j \in 1 .. Len(sentAt) : sentAt[j] = sent[Len(sent) - Len(sentAt) + j]

\* Slots are taken in the order of the clock.
SlotsInOrder ==
    /\ \A i \in 1 .. Len(sent) : sent[i] <= now
    /\ \A i, j \in 1 .. Len(sent) : i <= j => sent[i] <= sent[j]

\* A slot the deque dropped under the present settings left the window.
PoppedAreOld ==
    settings # BadSettings =>
        \A i \in epoch + 1 .. Len(sent) - Len(sentAt) :
            now - sent[i] >= settings.window

\* While the settings raise, no slot is taken.
BadTakesNone == settings = BadSettings => epoch = Len(sent)

LastIsRemembered ==
    lastSentAt = IF sent = <<>> THEN NeverSent ELSE sent[Len(sent)]

SlotInv ==
    /\ DequeIsSuffix
    /\ SlotsInOrder
    /\ PoppedAreOld
    /\ BadTakesNone
    /\ LastIsRemembered
    /\ WindowLimit

-----------------------------------------------------------------------------
\* Popping from the left keeps a type-correct sequence of times.
LEMMA PopType ==
    ASSUME NEW s \in Seq(Nat), NEW k \in 0 .. Len(s)
    PROVE  /\ SubSeq(s, k + 1, Len(s)) \in Seq(Nat)
           /\ Len(SubSeq(s, k + 1, Len(s))) = Len(s) - k
           /\ \A j \in 1 .. Len(s) - k : SubSeq(s, k + 1, Len(s))[j] = s[k + j]
<1>1. k + 1 \in Nat /\ Len(s) \in Nat
  OBVIOUS
<1>2. \A j \in k + 1 .. Len(s) : s[j] \in Nat
  OBVIOUS
<1> QED
  BY <1>1, <1>2

\* The variables keep their types.
THEOREM TypeCorrect == Spec => []TypeOK
<1>1. Init => TypeOK
  BY SettingsAssumption, BoundsAssumption DEF Init, TypeOK, Places, Sights
<1>2. TypeOK /\ [Next]_vars => TypeOK'
  <2> SUFFICES ASSUME TypeOK, [Next]_vars
               PROVE  TypeOK'
    OBVIOUS
  <2> USE SettingsAssumption, BoundsAssumption DEF TypeOK, Places, Sights
  <2>1. ASSUME NEW c \in Callers, Enter(c)
        PROVE  TypeOK'
    BY <2>1 DEF Enter
  <2>2. ASSUME NEW c \in Callers, TakeSlot(c)
        PROVE  TypeOK'
    <3>1. PICK k \in 0 .. Len(sentAt) : sentAt' = Append(SubSeq(sentAt, k + 1, Len(sentAt)), now)
      BY <2>2 DEF TakeSlot
    <3> DEFINE kept == SubSeq(sentAt, k + 1, Len(sentAt))
    <3>2. sentAt' \in Seq(Nat)
      <4>1. kept \in Seq(Nat)
        BY PopType
      <4> HIDE DEF kept
      <4> QED
        BY <4>1, <3>1 DEF kept
    <3>3. sent' \in Seq(Nat) /\ Len(sent') = Len(sent) + 1
      BY <2>2 DEF TakeSlot
    <3>4. epoch' \in 0 .. Len(sent') /\ lastSentAt' \in Nat \union {NeverSent}
      BY <2>2, <3>3 DEF TakeSlot
    <3>5. waiting' \in Int /\ pc' \in [Callers -> Places]
      BY <2>2 DEF TakeSlot, Leave
    <3>6. UNCHANGED <<now, settings, wakeAt, calls, edits, slept>>
      BY <2>2 DEF TakeSlot
    <3> QED
      BY <3>2, <3>3, <3>4, <3>5, <3>6
  <2>3. ASSUME NEW c \in Callers, GoToSleep(c)
        PROVE  TypeOK'
    <3>1. PICK k \in 0 .. Len(sentAt) :
             /\ MaxDelay(SubSeq(sentAt, k + 1, Len(sentAt)), settings) > 0
             /\ sentAt' = SubSeq(sentAt, k + 1, Len(sentAt))
             /\ wakeAt' = [wakeAt EXCEPT ![c] =
                  now + MaxDelay(SubSeq(sentAt, k + 1, Len(sentAt)), settings)]
      BY <2>3, Zenon DEF GoToSleep
    <3> DEFINE kept == SubSeq(sentAt, k + 1, Len(sentAt))
    <3>2. kept \in Seq(Nat)
      BY PopType
    <3>3. settings \in [max : Int, window : Int, spread : Int]
      BY <2>3 DEF GoToSleep
    <3>4. WindowDelay(kept, settings) \in Int
      <4> HIDE DEF kept
      <4> QED
        BY <3>2, <3>3 DEF WindowDelay
    <3>5. SpreadDelay(settings) \in Int
      BY <3>3 DEF SpreadDelay
    <3>6. MaxDelay(kept, settings) \in Int
      BY <3>4, <3>5 DEF MaxDelay
    <3>7. sentAt' \in Seq(Nat) /\ wakeAt' \in [Callers -> Int]
      <4>1. /\ sentAt' = kept
            /\ wakeAt' = [wakeAt EXCEPT ![c] = now + MaxDelay(kept, settings)]
        BY <3>1
      <4> HIDE DEF kept
      <4>2. now + MaxDelay(kept, settings) \in Int
        BY <3>6
      <4> QED
        BY <3>2, <4>1, <4>2
    <3>8. pc' \in [Callers -> Places]
      BY <2>3 DEF GoToSleep
    <3>9. UNCHANGED <<now, settings, lastSentAt, waiting, calls, edits, sent, epoch>>
      BY <2>3 DEF GoToSleep
    <3>10. slept' \in [Callers -> Sights]
      <4>1. PICK over \in BOOLEAN :
               slept' = [slept EXCEPT ![c] =
                           [slots |-> Len(sent), edits |-> edits, over |-> over]]
        BY <2>3 DEF GoToSleep
      <4> QED
        BY <4>1
    <3> QED
      BY <3>7, <3>8, <3>9, <3>10
  <2>4. ASSUME NEW c \in Callers, SettingsRaise(c)
        PROVE  TypeOK'
    <3>1. sentAt' \in Seq(Nat)
      BY <2>4, PopType DEF SettingsRaise
    <3> QED
      BY <2>4, <3>1 DEF SettingsRaise, Leave
  <2>5. ASSUME NEW c \in Callers, Wake(c)
        PROVE  TypeOK'
    BY <2>5 DEF Wake
  <2>6. ASSUME Tick
        PROVE  TypeOK'
    BY <2>6 DEF Tick
  <2>7. ASSUME EditSettings
        PROVE  TypeOK'
    BY <2>7 DEF EditSettings
  <2>8. ASSUME UNCHANGED vars
        PROVE  TypeOK'
    BY <2>8 DEF vars
  <2> QED
    BY <2>1, <2>2, <2>3, <2>4, <2>5, <2>6, <2>7, <2>8 DEF Next
<1> QED
  BY <1>1, <1>2, PTL DEF Spec

-----------------------------------------------------------------------------
\* The delay is at least what either limit asks for.
LEMMA MaxDelayBounds ==
    ASSUME NEW kept, NEW cfg,
           WindowDelay(kept, cfg) \in Int, SpreadDelay(cfg) \in Int
    PROVE  /\ MaxDelay(kept, cfg) \in Int
           /\ MaxDelay(kept, cfg) >= WindowDelay(kept, cfg)
           /\ MaxDelay(kept, cfg) >= SpreadDelay(cfg)
<1> DEFINE w == WindowDelay(kept, cfg)
           s == SpreadDelay(cfg)
           d == IF w > 0 THEN w ELSE 0
<1>1. MaxDelay(kept, cfg) = IF s > d THEN s ELSE d
  BY DEF MaxDelay
<1>2. w \in Int /\ s \in Int
  OBVIOUS
<1> HIDE DEF w, s
<1> QED
  BY <1>1, <1>2 DEF w, s

\* Popping what expired leaves a suffix of the history, and what it drops
\* has left the window.
LEMMA PopKeepsSuffix ==
    ASSUME TypeOK, SlotInv, settings # BadSettings,
           NEW k \in 0 .. Len(sentAt),
           ExpiredPrefix(sentAt, k, settings.window),
           NEW kept \in Seq(Nat),
           Len(kept) = Len(sentAt) - k,
           \A j \in 1 .. Len(kept) : kept[j] = sentAt[k + j]
    PROVE  /\ Len(kept) <= Len(sent)
           /\ \A j \in 1 .. Len(kept) : kept[j] = sent[Len(sent) - Len(kept) + j]
           /\ \A i \in epoch + 1 .. Len(sent) - Len(kept) :
                 now - sent[i] >= settings.window
<1>1. /\ Len(sentAt) \in Nat
      /\ Len(sent) \in Nat
      /\ Len(kept) \in Nat
      /\ k \in Nat /\ k <= Len(sentAt)
      /\ epoch \in Nat
  BY DEF TypeOK
<1>2. DequeIsSuffix /\ PoppedAreOld
  BY DEF SlotInv
<1>3. Len(kept) <= Len(sent)
  BY <1>1, <1>2 DEF DequeIsSuffix
<1>4. ASSUME NEW j \in 1 .. Len(kept)
      PROVE  kept[j] = sent[Len(sent) - Len(kept) + j]
  <2>1. k + j \in 1 .. Len(sentAt)
    BY <1>1
  <2>2. Len(sent) - Len(sentAt) + (k + j) = Len(sent) - Len(kept) + j
    BY <1>1
  <2>3. sentAt[k + j] = sent[Len(sent) - Len(sentAt) + (k + j)]
    BY <1>2, <2>1 DEF DequeIsSuffix
  <2> QED
    BY <2>2, <2>3
<1>5. ASSUME NEW i \in epoch + 1 .. Len(sent) - Len(kept)
      PROVE  now - sent[i] >= settings.window
  <2>1. CASE i <= Len(sent) - Len(sentAt)
    <3>1. i \in epoch + 1 .. Len(sent) - Len(sentAt)
      BY <1>1, <2>1
    <3> QED
      BY <1>2, <3>1 DEF PoppedAreOld
  <2>2. CASE i > Len(sent) - Len(sentAt)
    <3> DEFINE j == i - (Len(sent) - Len(sentAt))
    <3>1. j \in 1 .. k
      BY <1>1, <2>2
    <3>2. j \in 1 .. Len(sentAt) /\ Len(sent) - Len(sentAt) + j = i
      BY <1>1, <3>1
    <3>3. sentAt[j] = sent[i]
      BY <1>2, <3>2 DEF DequeIsSuffix
    <3> QED
      BY <3>1, <3>3 DEF ExpiredPrefix
  <2> QED
    BY <1>1, <2>1, <2>2
<1> QED
  BY <1>3, <1>4, <1>5

\* A slot is taken only when fewer than the maximum are left in the deque.
LEMMA SlotIsFree ==
    ASSUME TypeOK, settings # BadSettings, settings.max > 0,
           NEW k \in 0 .. Len(sentAt),
           ExpiredPrefix(sentAt, k, settings.window),
           NEW kept \in Seq(Nat),
           Len(kept) = Len(sentAt) - k,
           \A j \in 1 .. Len(kept) : kept[j] = sentAt[k + j],
           MaxDelay(kept, settings) <= 0
    PROVE  Len(kept) < settings.max
<1>1. /\ settings.max \in Int /\ settings.window \in Int /\ settings.spread \in Int
      /\ Len(sentAt) \in Nat /\ Len(kept) \in Nat /\ k \in Nat
      /\ now \in Nat /\ lastSentAt \in Nat \union {NeverSent}
  BY SettingsAssumption DEF TypeOK
<1>2. SUFFICES ASSUME Len(kept) >= settings.max
               PROVE  FALSE
  BY <1>1
<1>3. k < Len(sentAt) /\ 1 \in 1 .. Len(kept)
  BY <1>1, <1>2
<1>4. kept[1] = sentAt[k + 1] /\ kept[1] \in Nat
  BY <1>3
<1>5. now - kept[1] < settings.window
  BY <1>3, <1>4 DEF ExpiredPrefix
<1>6. WindowDelay(kept, settings) = settings.window - (now - kept[1])
  BY <1>2 DEF WindowDelay
<1>7. WindowDelay(kept, settings) \in Int /\ WindowDelay(kept, settings) > 0
  BY <1>1, <1>4, <1>5, <1>6
<1>8. SpreadDelay(settings) \in Int
  BY <1>1 DEF SpreadDelay
<1> QED
  BY <1>7, <1>8, MaxDelayBounds

\* Taking a slot keeps the invariant: the slot that is max places before the
\* new one is no longer in the deque, so it has left the window.
LEMMA TakeSlotKeepsSlotInv ==
    ASSUME TypeOK, SlotInv, NEW c \in Callers, TakeSlot(c)
    PROVE  SlotInv'
<1>1. PICK k \in 0 .. Len(sentAt) :
         /\ ExpiredPrefix(sentAt, k, settings.window)
         /\ MaxDelay(SubSeq(sentAt, k + 1, Len(sentAt)), settings) <= 0
         /\ sentAt' = Append(SubSeq(sentAt, k + 1, Len(sentAt)), now)
  BY Zenon DEF TakeSlot
<1>2. PICK kept : kept = SubSeq(sentAt, k + 1, Len(sentAt))
  OBVIOUS
<1>3. /\ kept \in Seq(Nat)
      /\ Len(kept) = Len(sentAt) - k
      /\ \A j \in 1 .. Len(kept) : kept[j] = sentAt[k + j]
  BY <1>2, PopType DEF TypeOK
<1>4. /\ settings # BadSettings
      /\ UNCHANGED <<now, settings, epoch>>
      /\ lastSentAt' = now
      /\ sent' = Append(sent, now)
      /\ sentAt' = Append(kept, now)
      /\ MaxDelay(kept, settings) <= 0
  BY <1>1, <1>2 DEF TakeSlot
<1>5. /\ Len(kept) <= Len(sent)
      /\ \A j \in 1 .. Len(kept) : kept[j] = sent[Len(sent) - Len(kept) + j]
      /\ \A i \in epoch + 1 .. Len(sent) - Len(kept) :
            now - sent[i] >= settings.window
  BY <1>1, <1>3, <1>4, PopKeepsSuffix
<1>6. /\ settings.max \in Int /\ settings.window \in Int
      /\ now \in Nat /\ sent \in Seq(Nat) /\ Len(sent) \in Nat /\ Len(kept) \in Nat
      /\ epoch \in 0 .. Len(sent)
  BY <1>3, <1>4, SettingsAssumption DEF TypeOK
<1>7. /\ Len(sent') = Len(sent) + 1
      /\ \A i \in 1 .. Len(sent) : sent'[i] = sent[i]
      /\ sent'[Len(sent) + 1] = now
  BY <1>4, <1>6
<1>8. /\ Len(sentAt') = Len(kept) + 1
      /\ \A j \in 1 .. Len(kept) : sentAt'[j] = kept[j]
      /\ sentAt'[Len(kept) + 1] = now
  BY <1>3, <1>4
<1>9. DequeIsSuffix'
  <2>1. Len(sentAt') <= Len(sent')
    BY <1>5, <1>6, <1>7, <1>8
  <2>2. ASSUME NEW j \in 1 .. Len(sentAt')
        PROVE  sentAt'[j] = sent'[Len(sent') - Len(sentAt') + j]
    <3>1. CASE j = Len(kept) + 1
      BY <3>1, <1>6, <1>7, <1>8
    <3>2. CASE j \in 1 .. Len(kept)
      <4>1. Len(sent') - Len(sentAt') + j = Len(sent) - Len(kept) + j
        BY <1>6, <1>7, <1>8
      <4>2. Len(sent) - Len(kept) + j \in 1 .. Len(sent)
        BY <3>2, <1>5, <1>6
      <4> QED
        BY <3>2, <4>1, <4>2, <1>5, <1>7, <1>8
    <3> QED
      BY <3>1, <3>2, <1>6, <1>8
  <2> QED
    BY <2>1, <2>2 DEF DequeIsSuffix
<1>10. SlotsInOrder'
  <2>1. \A i \in 1 .. Len(sent) : sent[i] <= now /\ sent[i] \in Nat
    BY <1>6 DEF SlotInv, SlotsInOrder
  <2>2. \A i, j \in 1 .. Len(sent) : i <= j => sent[i] <= sent[j]
    BY DEF SlotInv, SlotsInOrder
  <2>3. \A i \in 1 .. Len(sent') : i \in 1 .. Len(sent) \/ i = Len(sent) + 1
    BY <1>6, <1>7
  <2>4. \A i \in 1 .. Len(sent') : sent'[i] <= now'
    BY <1>4, <1>6, <1>7, <2>1, <2>3
  <2>5. ASSUME NEW i \in 1 .. Len(sent'), NEW j \in 1 .. Len(sent'), i <= j
        PROVE  sent'[i] <= sent'[j]
    <3>1. CASE j = Len(sent) + 1
      BY <3>1, <2>4, <1>4, <1>7
    <3>2. CASE j \in 1 .. Len(sent)
      <4>1. i \in 1 .. Len(sent)
        BY <3>2, <2>5, <1>6, <1>7
      <4> QED
        BY <3>2, <4>1, <2>2, <2>5, <1>7
    <3> QED
      BY <2>3, <3>1, <3>2
  <2> QED
    BY <2>4, <2>5 DEF SlotsInOrder
<1>11. PoppedAreOld'
  <2> SUFFICES ASSUME NEW i \in epoch' + 1 .. Len(sent') - Len(sentAt')
               PROVE  now' - sent'[i] >= settings'.window
    BY DEF PoppedAreOld
  <2>1. i \in epoch + 1 .. Len(sent) - Len(kept) /\ i \in 1 .. Len(sent)
    BY <1>4, <1>6, <1>7, <1>8
  <2> QED
    BY <2>1, <1>4, <1>5, <1>7
<1>12. BadTakesNone' /\ LastIsRemembered'
  <2>1. sent' # <<>> /\ sent'[Len(sent')] = now
    BY <1>6, <1>7
  <2> QED
    BY <2>1, <1>4 DEF BadTakesNone, LastIsRemembered
<1>13. WindowLimit'
  <2> SUFFICES ASSUME settings'.max > 0,
                      NEW i \in epoch' + 1 .. Len(sent'),
                      i + settings'.max <= Len(sent')
               PROVE  sent'[i + settings'.max] - sent'[i] >= settings'.window
    BY DEF WindowLimit
  <2> USE <1>4
  <2>1. i \in 1 .. Len(sent)
    BY <1>6, <1>7
  <2>2. CASE i + settings.max <= Len(sent)
    <3>1. i + settings.max \in 1 .. Len(sent) /\ i \in epoch + 1 .. Len(sent)
      BY <2>1, <2>2, <1>6
    <3>2. sent[i + settings.max] - sent[i] >= settings.window
      BY <2>2, <3>1, <1>4 DEF SlotInv, WindowLimit
    <3> QED
      BY <2>1, <3>1, <3>2, <1>7
  <2>3. CASE i + settings.max = Len(sent) + 1
    <3>1. Len(kept) < settings.max
      BY <1>1, <1>3, <1>4, SlotIsFree
    <3>2. i \in epoch + 1 .. Len(sent) - Len(kept)
      BY <2>1, <2>3, <3>1, <1>6
    <3> QED
      BY <2>1, <2>3, <3>2, <1>5, <1>7
  <2>4. i + settings.max <= Len(sent) + 1
    BY <1>7
  <2>5. i + settings.max <= Len(sent) \/ i + settings.max = Len(sent) + 1
    <3>1. \A x, y \in Int : x <= y + 1 => x <= y \/ x = y + 1
      OBVIOUS
    <3>2. i + settings.max \in Int /\ Len(sent) \in Int
      BY <2>1, <1>6
    <3> QED
      BY <2>4, <3>1, <3>2, Zenon
  <2> QED
    BY <2>2, <2>3, <2>5
<1> QED
  BY <1>9, <1>10, <1>11, <1>12, <1>13 DEF SlotInv

\* The other steps of the lock section only pop.
LEMMA PopKeepsSlotInv ==
    ASSUME TypeOK, SlotInv,
           NEW c \in Callers, GoToSleep(c) \/ SettingsRaise(c)
    PROVE  SlotInv'
<1>1. UNCHANGED <<now, settings, lastSentAt, sent, epoch>>
  BY DEF GoToSleep, SettingsRaise
<1>2. PICK k \in 0 .. Len(sentAt) :
         /\ sentAt' = SubSeq(sentAt, k + 1, Len(sentAt))
         /\ settings # BadSettings => ExpiredPrefix(sentAt, k, settings.window)
  BY Zenon DEF GoToSleep, SettingsRaise
<1>3. /\ sentAt' \in Seq(Nat)
      /\ Len(sentAt') = Len(sentAt) - k
      /\ \A j \in 1 .. Len(sentAt') : sentAt'[j] = sentAt[k + j]
  BY <1>2, PopType DEF TypeOK
<1>4. (SlotsInOrder /\ BadTakesNone /\ LastIsRemembered /\ WindowLimit)'
  BY <1>1 DEF SlotInv, SlotsInOrder, BadTakesNone, LastIsRemembered, WindowLimit
<1>5. DequeIsSuffix' /\ PoppedAreOld'
  <2>1. CASE settings # BadSettings
    <3>1. /\ Len(sentAt') <= Len(sent)
          /\ \A j \in 1 .. Len(sentAt') : sentAt'[j] = sent[Len(sent) - Len(sentAt') + j]
          /\ \A i \in epoch + 1 .. Len(sent) - Len(sentAt') :
                now - sent[i] >= settings.window
      BY <1>2, <1>3, <2>1, PopKeepsSuffix
    <3> QED
      BY <3>1, <1>1 DEF DequeIsSuffix, PoppedAreOld
  <2>2. CASE settings = BadSettings
    <3>1. PoppedAreOld'
      BY <2>2, <1>1 DEF PoppedAreOld
    <3>2. /\ Len(sentAt) \in Nat /\ Len(sent) \in Nat /\ Len(sentAt') \in Nat
          /\ k \in Nat /\ k <= Len(sentAt) /\ Len(sentAt) <= Len(sent)
      BY <1>3 DEF TypeOK, SlotInv, DequeIsSuffix
    <3>3. ASSUME NEW j \in 1 .. Len(sentAt')
          PROVE  sentAt'[j] = sent[Len(sent) - Len(sentAt') + j]
      <4>1. k + j \in 1 .. Len(sentAt)
        BY <3>2, <1>3
      <4>2. Len(sent) - Len(sentAt) + (k + j) = Len(sent) - Len(sentAt') + j
        BY <3>2, <1>3
      <4>3. sentAt[k + j] = sent[Len(sent) - Len(sentAt) + (k + j)]
        BY <4>1 DEF SlotInv, DequeIsSuffix
      <4> QED
        BY <4>2, <4>3, <1>3
    <3>4. Len(sentAt') <= Len(sent)
      BY <3>2, <1>3
    <3> QED
      BY <3>1, <3>3, <3>4, <1>1 DEF DequeIsSuffix
  <2> QED
    BY <2>1, <2>2
<1> QED
  BY <1>4, <1>5 DEF SlotInv

\* The invariant holds in every reachable state.
THEOREM SlotInvariant == Spec => []SlotInv
<1>1. Init => SlotInv
  BY BoundsAssumption, SettingsAssumption
     DEF Init, SlotInv, DequeIsSuffix, SlotsInOrder, PoppedAreOld, BadTakesNone,
         LastIsRemembered, WindowLimit
<1>2. TypeOK /\ SlotInv /\ [Next]_vars => SlotInv'
  <2> SUFFICES ASSUME TypeOK, SlotInv, [Next]_vars
               PROVE  SlotInv'
    OBVIOUS
  <2>1. ASSUME NEW c \in Callers, Enter(c) \/ Wake(c)
        PROVE  SlotInv'
    <3>1. UNCHANGED <<now, settings, sentAt, lastSentAt, sent, epoch>>
      BY <2>1 DEF Enter, Wake
    <3> QED
      BY <3>1 DEF SlotInv, DequeIsSuffix, SlotsInOrder, PoppedAreOld, BadTakesNone,
                  LastIsRemembered, WindowLimit
  <2>2. ASSUME NEW c \in Callers, TakeSlot(c)
        PROVE  SlotInv'
    BY <2>2, TakeSlotKeepsSlotInv
  <2>3. ASSUME NEW c \in Callers, GoToSleep(c) \/ SettingsRaise(c)
        PROVE  SlotInv'
    BY <2>3, PopKeepsSlotInv
  <2>4. ASSUME Tick
        PROVE  SlotInv'
    <3>1. now' = now + 1 /\ UNCHANGED <<settings, sentAt, lastSentAt, sent, epoch>>
      BY <2>4 DEF Tick
    <3>2. now \in Nat /\ sent \in Seq(Nat) /\ epoch \in Nat
      BY DEF TypeOK
    <3>3. (DequeIsSuffix /\ BadTakesNone /\ LastIsRemembered /\ WindowLimit)'
      BY <3>1 DEF SlotInv, DequeIsSuffix, BadTakesNone, LastIsRemembered, WindowLimit
    <3>4. SlotsInOrder'
      BY <3>1, <3>2 DEF SlotInv, SlotsInOrder
    <3>5. PoppedAreOld'
      <4> SUFFICES ASSUME settings # BadSettings,
                          NEW i \in epoch + 1 .. Len(sent) - Len(sentAt)
                   PROVE  (now + 1) - sent[i] >= settings.window
        BY <3>1 DEF PoppedAreOld
      <4>1. now - sent[i] >= settings.window
        BY DEF SlotInv, PoppedAreOld
      <4>2. sent[i] \in Nat /\ settings.window \in Int
        BY <3>2, SettingsAssumption DEF TypeOK
      <4> QED
        BY <4>1, <4>2, <3>2
    <3> QED
      BY <3>3, <3>4, <3>5 DEF SlotInv
  <2>5. ASSUME EditSettings
        PROVE  SlotInv'
    <3>1. epoch' = Len(sent) /\ UNCHANGED <<now, sentAt, lastSentAt, sent>>
      BY <2>5 DEF EditSettings
    <3>2. Len(sent) \in Nat /\ Len(sentAt) \in Nat
      BY DEF TypeOK
    <3>3. Len(sent) + 1 .. Len(sent) = {} /\ Len(sent) + 1 .. Len(sent) - Len(sentAt) = {}
      BY <3>2
    <3>4. (PoppedAreOld /\ WindowLimit /\ BadTakesNone)'
      BY <3>1, <3>3 DEF PoppedAreOld, WindowLimit, BadTakesNone
    <3> QED
      BY <3>1, <3>4 DEF SlotInv, DequeIsSuffix, SlotsInOrder, LastIsRemembered
  <2>6. ASSUME UNCHANGED vars
        PROVE  SlotInv'
    BY <2>6 DEF vars, SlotInv, DequeIsSuffix, SlotsInOrder, PoppedAreOld, BadTakesNone,
                LastIsRemembered, WindowLimit
  <2> QED
    BY <2>1, <2>2, <2>3, <2>4, <2>5, <2>6 DEF Next
<1> QED
  BY <1>1, <1>2, TypeCorrect, PTL DEF Spec

\* No rolling window ever holds more slots than the settings allow, for any
\* number of callers and any settings: _consume_slot_or_get_delay() keeps
\* the limit although the lock is released while callers sleep.
THEOREM WindowLimitHolds == Spec => []WindowLimit
<1>1. SlotInv => WindowLimit
  BY DEF SlotInv
<1> QED
  BY <1>1, SlotInvariant, PTL

\* Any two consecutive slots are at least the spread in force apart.
THEOREM SpreadAlwaysHolds == Spec => SpreadHolds
<1>1. TypeOK /\ SlotInv /\ [Next]_vars => [SpreadStep]_vars
  <2> SUFFICES ASSUME TypeOK, SlotInv, Next
               PROVE  SpreadStep
    OBVIOUS
  <2>1. ASSUME NEW c \in Callers, TakeSlot(c)
        PROVE  SpreadStep
    <3>1. PICK k \in 0 .. Len(sentAt) :
             MaxDelay(SubSeq(sentAt, k + 1, Len(sentAt)), settings) <= 0
      BY <2>1, Zenon DEF TakeSlot
    <3>2. PICK kept : kept = SubSeq(sentAt, k + 1, Len(sentAt))
      OBVIOUS
    <3>3. /\ MaxDelay(kept, settings) <= 0
          /\ kept \in Seq(Nat)
      BY <3>1, <3>2, PopType DEF TypeOK
    <3>4. /\ settings.max \in Int /\ settings.window \in Int /\ settings.spread \in Int
          /\ now \in Nat /\ lastSentAt \in Nat \union {NeverSent}
          /\ sent \in Seq(Nat)
          /\ sent' = Append(sent, now)
      BY <2>1, SettingsAssumption DEF TakeSlot, TypeOK
    <3>5. WindowDelay(kept, settings) \in Int /\ SpreadDelay(settings) \in Int
      BY <3>3, <3>4 DEF WindowDelay, SpreadDelay
    <3>6. SpreadDelay(settings) <= 0
      BY <3>3, <3>5, MaxDelayBounds
    <3> SUFFICES ASSUME Len(sent) > 0
                 PROVE  sent'[Len(sent')] - sent[Len(sent)] >= settings.spread
      BY DEF SpreadStep
    <3>7. sent'[Len(sent')] = now /\ Len(sent) \in 1 .. Len(sent) /\ sent # <<>>
      BY <3>4
    <3>8. lastSentAt = sent[Len(sent)] /\ lastSentAt \in Nat /\ lastSentAt <= now
      BY <3>4, <3>7 DEF SlotInv, LastIsRemembered, SlotsInOrder
    <3>9. now - lastSentAt >= settings.spread
      <4>1. CASE settings.spread <= 0
        BY <4>1, <3>4, <3>8
      <4>2. CASE settings.spread > 0
        <5>1. SpreadDelay(settings) = settings.spread - (now - lastSentAt)
          BY <4>2, <3>8, BoundsAssumption DEF SpreadDelay
        <5> QED
          BY <5>1, <3>4, <3>6, <3>8
      <4> QED
        BY <4>1, <4>2, <3>4
    <3> QED
      BY <3>7, <3>8, <3>9
  <2>2. ASSUME UNCHANGED sent
        PROVE  SpreadStep
    BY <2>2 DEF SpreadStep, TypeOK
  <2> QED
    BY <2>1, <2>2 DEF Next, Enter, GoToSleep, SettingsRaise, Wake, Tick, EditSettings
<1> QED
  BY <1>1, TypeCorrect, SlotInvariant, PTL DEF Spec, SpreadHolds

\* `waiting` is the number of callers inside wait_turn(), also after one left
\* it by an exception.
THEOREM WaitingIsExact == Spec => []WaitingCountsCallers
<1>1. Init => WaitingCountsCallers
  <2> SUFFICES ASSUME Init
               PROVE  waiting = Cardinality(Inside)
    BY DEF WaitingCountsCallers
  <2>1. Inside = {}
    BY DEF Init, Inside
  <2> QED
    BY <2>1, FS_EmptySet DEF Init
<1>2. TypeOK /\ WaitingCountsCallers /\ [Next]_vars => WaitingCountsCallers'
  <2> SUFFICES ASSUME TypeOK, waiting = Cardinality(Inside), [Next]_vars
               PROVE  waiting' = Cardinality(Inside')
    BY DEF WaitingCountsCallers
  <2>1. IsFiniteSet(Inside)
    BY CallersAssumption, FS_Subset DEF Inside
  <2>2. Cardinality(Inside) \in Nat
    BY <2>1, FS_CardinalityType
  <2>3. ASSUME NEW c \in Callers, Enter(c)
        PROVE  waiting' = Cardinality(Inside')
    <3>1. Inside' = Inside \union {c} /\ c \notin Inside
      BY <2>3 DEF Enter, Inside, TypeOK
    <3>2. Cardinality(Inside') = Cardinality(Inside) + 1
      BY <2>1, <3>1, FS_AddElement
    <3> QED
      BY <2>3, <3>2 DEF Enter
  <2>4. ASSUME NEW c \in Callers, TakeSlot(c) \/ SettingsRaise(c)
        PROVE  waiting' = Cardinality(Inside')
    <3>1. /\ pc[c] = "ask" /\ waiting' = waiting - 1
          /\ pc' = [pc EXCEPT ![c] = "out"]
      BY <2>4 DEF TakeSlot, SettingsRaise, Leave
    <3>2. Inside' = Inside \ {c} /\ c \in Inside
      BY <3>1 DEF Inside, TypeOK
    <3>3. Cardinality(Inside') = Cardinality(Inside) - 1
      BY <2>1, <3>2, FS_RemoveElement
    <3> QED
      BY <3>1, <3>3
  <2>5. ASSUME NEW c \in Callers, GoToSleep(c) \/ Wake(c)
        PROVE  waiting' = Cardinality(Inside')
    <3>1. /\ pc[c] \in {"ask", "sleep"} /\ UNCHANGED waiting
          /\ \/ pc' = [pc EXCEPT ![c] = "ask"]
             \/ pc' = [pc EXCEPT ![c] = "sleep"]
      BY <2>5 DEF GoToSleep, Wake
    <3>2. Inside' = Inside
      BY <3>1 DEF Inside, TypeOK
    <3> QED
      BY <3>1, <3>2
  <2>6. ASSUME UNCHANGED <<pc, waiting>>
        PROVE  waiting' = Cardinality(Inside')
    BY <2>6 DEF Inside
  <2> QED
    BY <2>3, <2>4, <2>5, <2>6 DEF Next, Tick, EditSettings, vars
<1> QED
  BY <1>1, <1>2, TypeCorrect, PTL DEF Spec

-----------------------------------------------------------------------------
(* The requests use the rate limiter as its own specification says it may  *)
(* be used, so all of the above holds of them; and the retry loop's        *)
(* budget, for every number of retries.                                    *)

\* A step of a request is a step of the rate limiter or leaves it alone.
LEMMA RequestStepIsThrottleStep ==
    [RequestNext]_<<vars, requestVars>> => [Next]_vars
<1> SUFFICES ASSUME [RequestNext]_<<vars, requestVars>>
             PROVE  [Next]_vars
  OBVIOUS
<1>1. ASSUME NEW c \in Callers,
             \/ StartRequest(c) \/ SlotTaken(c) \/ SlotRefused(c)
             \/ StayQueued(c) \/ Retry(c)
      PROVE  Next
  BY <1>1 DEF StartRequest, SlotTaken, SlotRefused, StayQueued, Retry, Next
<1>2. ASSUME NEW c \in Callers, Answered(c) \/ NetworkError(c) \/ RetryableStatus(c)
      PROVE  UNCHANGED vars
  BY <1>2 DEF Answered, NetworkError, RetryableStatus, Finish, BackOff
<1> QED
  BY <1>1, <1>2 DEF RequestNext, Next

\* The composition implements the rate limiter: every behaviour of the two
\* call points, retries included, is one the limiter's theorems speak of.
THEOREM RequestsImplementThrottle == RequestSpec => Spec
<1>1. RequestInit => Init
  BY DEF RequestInit
<1> QED
  BY <1>1, RequestStepIsThrottleStep, PTL DEF RequestSpec, Spec

\* The account's window limit holds for the slots of retried requests too.
THEOREM RequestsKeepWindowLimit == RequestSpec => []WindowLimit
  BY RequestsImplementThrottle, WindowLimitHolds, PTL

-----------------------------------------------------------------------------
\* Nothing a caller's wait depends on has changed since it went to sleep.
Undisturbed(c) ==
    slept[c].slots = Len(sent) /\ slept[c].edits = edits /\ ~slept[c].over

\* The limits let the next slot through at time t.
FreeAt(t) ==
    /\ settings # BadSettings
    /\ settings.max > 0 =>
          /\ Len(sentAt) <= settings.max
          /\ Len(sentAt) = settings.max => sentAt[1] + settings.window <= t
    /\ settings.spread > 0 /\ lastSentAt # NeverSent => lastSentAt + settings.spread <= t

\* An undisturbed caller is still inside wait_turn(), the limits let it
\* through when its sleep is over, and it asks no earlier.
SleepInv ==
    \A c \in Callers :
        /\ slept[c].slots <= Len(sent)
        /\ slept[c].edits <= edits
        /\ Undisturbed(c) =>
              /\ pc[c] # "out"
              /\ FreeAt(wakeAt[c])
              /\ pc[c] = "ask" => now >= wakeAt[c]

\* What the lock section would ask a caller to wait, in the terms of FreeAt.
LEMMA DelayWhenKept ==
    ASSUME TypeOK, settings # BadSettings, NEW kept \in Seq(Nat)
    PROVE  /\ settings.max \in Int /\ settings.window \in Int /\ settings.spread \in Int
           /\ now \in Nat /\ MaxDelay(kept, settings) \in Int
           /\ settings.max > 0 /\ Len(kept) >= settings.max =>
                 /\ kept[1] \in Nat
                 /\ settings.window - (now - kept[1]) <= MaxDelay(kept, settings)
           /\ settings.spread > 0 /\ lastSentAt # NeverSent =>
                 /\ lastSentAt \in Nat
                 /\ settings.spread - (now - lastSentAt) <= MaxDelay(kept, settings)
           /\ \/ MaxDelay(kept, settings) <= 0
              \/ /\ settings.max > 0 /\ Len(kept) >= settings.max
                 /\ settings.window - (now - kept[1]) > 0
              \/ /\ settings.spread > 0 /\ lastSentAt # NeverSent
                 /\ settings.spread - (now - lastSentAt) > 0
<1>1. /\ settings.max \in Int /\ settings.window \in Int /\ settings.spread \in Int
      /\ now \in Nat /\ lastSentAt \in Nat \union {NeverSent}
  BY SettingsAssumption DEF TypeOK
<1>2. settings.max > 0 /\ Len(kept) >= settings.max => kept[1] \in Nat
  BY <1>1
<1>3. WindowDelay(kept, settings) \in Int /\ SpreadDelay(settings) \in Int
  BY <1>1, <1>2 DEF WindowDelay, SpreadDelay
<1>4. /\ MaxDelay(kept, settings) \in Int
      /\ MaxDelay(kept, settings) >= WindowDelay(kept, settings)
      /\ MaxDelay(kept, settings) >= SpreadDelay(settings)
  BY <1>3, MaxDelayBounds
<1>5. MaxDelay(kept, settings) > 0
         => WindowDelay(kept, settings) > 0 \/ SpreadDelay(settings) > 0
  <2> DEFINE w == WindowDelay(kept, settings)
             n == SpreadDelay(settings)
             d == IF w > 0 THEN w ELSE 0
  <2>1. MaxDelay(kept, settings) = IF n > d THEN n ELSE d
    BY DEF MaxDelay
  <2>2. w \in Int /\ n \in Int
    BY <1>3
  <2> HIDE DEF w, n
  <2>3. MaxDelay(kept, settings) > 0 => w > 0 \/ n > 0
    BY <2>1, <2>2
  <2> QED
    BY <2>3 DEF w, n
<1>6. WindowDelay(kept, settings) =
         IF settings.max > 0 /\ Len(kept) >= settings.max
         THEN settings.window - (now - kept[1]) ELSE 0
  BY DEF WindowDelay
<1>7. SpreadDelay(settings) =
         IF settings.spread > 0 /\ lastSentAt # NeverSent
         THEN settings.spread - (now - lastSentAt) ELSE 0
  BY DEF SpreadDelay
<1>8. MaxDelay(kept, settings) <= 0 \/ MaxDelay(kept, settings) > 0
  BY <1>4
<1> QED
  BY <1>1, <1>2, <1>4, <1>5, <1>6, <1>7, <1>8

\* A caller that goes to sleep is told to sleep until the limits let it
\* through, if no limit was lowered under it.
LEMMA SleepsLongEnough ==
    ASSUME TypeOK, SleepInv, NEW c \in Callers, GoToSleep(c)
    PROVE  SleepInv' /\ ~VainSleep(c)
<1>1. PICK k \in 0 .. Len(sentAt) :
         /\ MaxDelay(SubSeq(sentAt, k + 1, Len(sentAt)), settings) > 0
         /\ sentAt' = SubSeq(sentAt, k + 1, Len(sentAt))
         /\ wakeAt' = [wakeAt EXCEPT ![c] =
              now + MaxDelay(SubSeq(sentAt, k + 1, Len(sentAt)), settings)]
         /\ slept' = [slept EXCEPT ![c] =
              [slots |-> Len(sent), edits |-> edits,
               over |-> /\ settings.max > 0
                        /\ Len(SubSeq(sentAt, k + 1, Len(sentAt))) > settings.max]]
  BY Zenon DEF GoToSleep
<1>2. PICK kept : kept = SubSeq(sentAt, k + 1, Len(sentAt))
  OBVIOUS
<1>3. /\ kept \in Seq(Nat) /\ Len(kept) = Len(sentAt) - k
      /\ \A j \in 1 .. Len(sentAt) - k : kept[j] = sentAt[k + j]
  BY <1>2, PopType DEF TypeOK
<1>4. /\ MaxDelay(kept, settings) > 0 /\ sentAt' = kept
      /\ wakeAt' = [wakeAt EXCEPT ![c] = now + MaxDelay(kept, settings)]
      /\ slept' = [slept EXCEPT ![c] =
              [slots |-> Len(sent), edits |-> edits,
               over |-> settings.max > 0 /\ Len(kept) > settings.max]]
  BY <1>1, <1>2
<1>5. /\ pc[c] = "ask" /\ settings # BadSettings /\ pc' = [pc EXCEPT ![c] = "sleep"]
      /\ UNCHANGED <<now, settings, lastSentAt, sent, edits>>
  BY DEF GoToSleep
<1>6. /\ settings.max \in Int /\ settings.window \in Int /\ settings.spread \in Int
      /\ now \in Nat /\ Len(sentAt) \in Nat /\ Len(sent) \in Nat
      /\ k \in Nat /\ edits \in Nat /\ sentAt \in Seq(Nat)
      /\ lastSentAt \in Nat \union {NeverSent}
      /\ wakeAt \in [Callers -> Int] /\ pc \in [Callers -> Places]
      /\ slept \in [Callers -> Sights]
  BY <1>5, SettingsAssumption DEF TypeOK
<1>7. ~VainSleep(c)
  <2> SUFFICES ASSUME Undisturbed(c)
               PROVE  FALSE
    BY DEF VainSleep, Undisturbed
  <2>1. FreeAt(wakeAt[c]) /\ now >= wakeAt[c]
    BY <1>5 DEF SleepInv
  <2>2. settings.max > 0 /\ Len(kept) >= settings.max
           => kept[1] + settings.window <= now
    <3> SUFFICES ASSUME settings.max > 0, Len(kept) >= settings.max
                 PROVE  kept[1] + settings.window <= now
      OBVIOUS
    <3>1. Len(sentAt) = settings.max /\ k = 0 /\ sentAt[1] + settings.window <= wakeAt[c]
      BY <1>3, <1>6, <2>1 DEF FreeAt
    <3>2. kept[1] = sentAt[1] /\ sentAt[1] \in Nat
      BY <1>3, <1>6, <3>1
    <3> QED
      BY <1>6, <2>1, <3>1, <3>2
  <2>3. settings.spread > 0 /\ lastSentAt # NeverSent => lastSentAt + settings.spread <= now
    BY <1>6, <2>1 DEF FreeAt
  <2>4. \/ MaxDelay(kept, settings) <= 0
        \/ /\ settings.max > 0 /\ Len(kept) >= settings.max
           /\ kept[1] \in Nat /\ settings.window - (now - kept[1]) > 0
        \/ /\ settings.spread > 0 /\ lastSentAt # NeverSent /\ lastSentAt \in Nat
           /\ settings.spread - (now - lastSentAt) > 0
    BY <1>3, <1>5, DelayWhenKept
  <2>5. MaxDelay(kept, settings) \in Int
    BY <1>3, <1>5, DelayWhenKept
  <2>6. ~(MaxDelay(kept, settings) <= 0)
    BY <1>4, <2>5
  <2> QED
    BY <1>6, <2>2, <2>3, <2>4, <2>6
<1>8. ASSUME Undisturbed(c)'
      PROVE  FreeAt(wakeAt[c])'
  <2>1. wakeAt'[c] = now + MaxDelay(kept, settings)
    BY <1>4, <1>6
  <2>2. settings.max > 0 => Len(kept) <= settings.max
    <3>1. slept'[c].over = (settings.max > 0 /\ Len(kept) > settings.max)
      BY <1>4, <1>6
    <3>2. Len(kept) \in Nat
      BY <1>3, <1>6
    <3>3. ~slept'[c].over
      BY <1>8 DEF Undisturbed
    <3>4. ~(settings.max > 0 /\ Len(kept) > settings.max)
      BY <3>1, <3>3, Zenon
    <3> QED
      BY <1>6, <3>2, <3>4
  <2>3. /\ MaxDelay(kept, settings) \in Int
        /\ settings.max > 0 /\ Len(kept) >= settings.max =>
              /\ kept[1] \in Nat
              /\ settings.window - (now - kept[1]) <= MaxDelay(kept, settings)
        /\ settings.spread > 0 /\ lastSentAt # NeverSent =>
              /\ lastSentAt \in Nat
              /\ settings.spread - (now - lastSentAt) <= MaxDelay(kept, settings)
    BY <1>3, <1>5, DelayWhenKept
  <2>4. settings.max > 0 /\ Len(kept) = settings.max
           => kept[1] + settings.window <= now + MaxDelay(kept, settings)
    BY <1>6, <2>3
  <2>5. settings.spread > 0 /\ lastSentAt # NeverSent
           => lastSentAt + settings.spread <= now + MaxDelay(kept, settings)
    BY <1>6, <2>3
  <2> QED
    BY <1>4, <1>5, <2>1, <2>2, <2>4, <2>5 DEF FreeAt
<1>9. ASSUME NEW d \in Callers \ {c}, Undisturbed(d)'
      PROVE  pc'[d] # "out" /\ FreeAt(wakeAt[d])' /\ (pc'[d] = "ask" => now' >= wakeAt'[d])
  <2>1. /\ pc[d] # "out" /\ FreeAt(wakeAt[d])
        /\ pc[d] = "ask" => now >= wakeAt[d]
    BY <1>4, <1>5, <1>6, <1>9 DEF SleepInv, Undisturbed
  <2>2. wakeAt'[d] = wakeAt[d] /\ pc'[d] = pc[d]
    BY <1>4, <1>5, <1>6
  <2>3. settings.max > 0 /\ Len(kept) = settings.max => kept[1] = sentAt[1] /\ k = 0
    BY <1>3, <1>6, <2>1 DEF FreeAt
  <2>4. FreeAt(wakeAt[d])'
    BY <1>3, <1>4, <1>5, <1>6, <2>1, <2>2, <2>3 DEF FreeAt
  <2> QED
    BY <1>5, <2>1, <2>2, <2>4
<1>10. SleepInv'
  BY <1>4, <1>5, <1>6, <1>8, <1>9 DEF SleepInv
<1> QED
  BY <1>7, <1>10

\* No caller sleeps in vain: for any number of callers, any settings and any
\* delay of a wake-up, one that slept as long as it was told gets its slot
\* unless another took one or the settings changed.
THEOREM NoSleepIsVain == Spec => NoVainSleep
<1>1. Init => SleepInv
  BY DEF Init, SleepInv, Undisturbed
<1>2. TypeOK /\ SleepInv /\ [Next]_vars => SleepInv'
  <2> SUFFICES ASSUME TypeOK, SleepInv, [Next]_vars
               PROVE  SleepInv'
    OBVIOUS
  <2>0. /\ Len(sent) \in Nat /\ edits \in Nat /\ now \in Nat /\ sent \in Seq(Nat)
        /\ wakeAt \in [Callers -> Int] /\ pc \in [Callers -> Places]
        /\ slept \in [Callers -> Sights]
    BY DEF TypeOK
  <2>1. ASSUME NEW c \in Callers, Enter(c)
        PROVE  SleepInv'
    BY <2>0, <2>1 DEF Enter, SleepInv, Undisturbed, FreeAt
  <2>2. ASSUME NEW c \in Callers, TakeSlot(c)
        PROVE  SleepInv'
    <3>1. Len(sent') = Len(sent) + 1 /\ UNCHANGED <<slept, edits>>
      BY <2>0, <2>2 DEF TakeSlot
    <3> QED
      BY <2>0, <3>1 DEF SleepInv, Undisturbed, Sights
  <2>3. ASSUME NEW c \in Callers, GoToSleep(c)
        PROVE  SleepInv'
    BY <2>3, SleepsLongEnough
  <2>4. ASSUME NEW c \in Callers, SettingsRaise(c)
        PROVE  SleepInv'
    <3>1. settings = BadSettings /\ UNCHANGED <<slept, sent, edits>>
      BY <2>4 DEF SettingsRaise
    <3>2. \A d \in Callers : ~Undisturbed(d)
      BY <3>1 DEF SleepInv, FreeAt
    <3> QED
      BY <3>1, <3>2 DEF SleepInv, Undisturbed
  <2>5. ASSUME NEW c \in Callers, Wake(c)
        PROVE  SleepInv'
    BY <2>0, <2>5 DEF Wake, SleepIsOver, SleepInv, Undisturbed, FreeAt
  <2>6. ASSUME Tick
        PROVE  SleepInv'
    BY <2>0, <2>6 DEF Tick, SleepInv, Undisturbed, FreeAt
  <2>7. ASSUME EditSettings
        PROVE  SleepInv'
    <3>1. edits' = edits + 1 /\ UNCHANGED <<slept, sent>>
      BY <2>7 DEF EditSettings
    <3> QED
      BY <2>0, <3>1 DEF SleepInv, Undisturbed, Sights
  <2>8. ASSUME UNCHANGED vars
        PROVE  SleepInv'
    BY <2>8 DEF vars, SleepInv, Undisturbed, FreeAt
  <2> QED
    BY <2>1, <2>2, <2>3, <2>4, <2>5, <2>6, <2>7, <2>8 DEF Next
<1>3. TypeOK /\ SleepInv /\ [Next]_vars => [\A c \in Callers : ~VainSleep(c)]_vars
  <2> SUFFICES ASSUME TypeOK, SleepInv, Next, NEW c \in Callers
               PROVE  ~VainSleep(c)
    OBVIOUS
  <2>1. CASE GoToSleep(c)
    BY <2>1, SleepsLongEnough
  <2>2. CASE ~GoToSleep(c)
    <3> SUFFICES ~(pc[c] = "ask" /\ pc'[c] = "sleep")
      BY DEF VainSleep
    <3> QED
      BY <2>2 DEF Next, Enter, TakeSlot, GoToSleep, SettingsRaise, Leave, Wake, Tick,
                  EditSettings, TypeOK, Places
  <2> QED
    BY <2>1, <2>2
<1> QED
  BY <1>1, <1>2, <1>3, TypeCorrect, PTL DEF Spec, NoVainSleep

\* The same of the requests, whose retries queue again.
THEOREM RequestsSleepNotInVain == RequestSpec => NoVainSleep
  BY RequestsImplementThrottle, NoSleepIsVain, PTL

-----------------------------------------------------------------------------
\* Where a caller is in wait_turn() and in its request agree, and the posts
\* of a call follow its attempts.
BudgetInv ==
    \A c \in Callers :
        /\ phase[c] \in Phases /\ kind[c] \in Kinds
        /\ attempt[c] \in 0 .. RETRIES /\ posts[c] \in Nat
        /\ phase[c] # "queued" => pc[c] = "out"
        /\ phase[c] \in {"queued", "backoff"} => posts[c] = attempt[c]
        /\ phase[c] = "posting" => posts[c] = attempt[c] + 1
        /\ posts[c] <= attempt[c] + 1
        /\ kind[c] = "spot" => attempt[c] = 0

RequestShape ==
    /\ kind \in [Callers -> Kinds]
    /\ phase \in [Callers -> Phases]
    /\ attempt \in [Callers -> 0 .. RETRIES]
    /\ posts \in [Callers -> Nat]
    /\ pc \in [Callers -> Places]

LEMMA BudgetInvHolds == RequestSpec => [](RequestShape /\ BudgetInv)
<1> USE RetriesAssumption DEF Kinds, Phases, Places
<1>1. RequestInit => RequestShape /\ BudgetInv
  BY DEF RequestInit, Init, RequestShape, BudgetInv
<1>2. RequestShape /\ BudgetInv /\ [RequestNext]_<<vars, requestVars>>
        => RequestShape' /\ BudgetInv'
  <2> SUFFICES ASSUME RequestShape, BudgetInv, [RequestNext]_<<vars, requestVars>>
               PROVE  RequestShape' /\ BudgetInv'
    OBVIOUS
  <2>1. ASSUME NEW c \in Callers, StartRequest(c)
        PROVE  RequestShape' /\ BudgetInv'
    BY <2>1 DEF StartRequest, Enter, RequestShape, BudgetInv
  <2>2. ASSUME NEW c \in Callers, SlotTaken(c)
        PROVE  RequestShape' /\ BudgetInv'
    <3>1. pc[c] = "ask" /\ pc' = [pc EXCEPT ![c] = "out"]
      BY <2>2 DEF SlotTaken, TakeSlot, Leave
    <3> QED
      BY <2>2, <3>1 DEF SlotTaken, RequestShape, BudgetInv
  <2>3. ASSUME NEW c \in Callers, SlotRefused(c)
        PROVE  RequestShape' /\ BudgetInv'
    <3>1. pc[c] = "ask" /\ pc' = [pc EXCEPT ![c] = "out"]
      BY <2>3 DEF SlotRefused, SettingsRaise, Leave
    <3> QED
      BY <2>3, <3>1 DEF SlotRefused, RequestShape, BudgetInv
  <2>4. ASSUME NEW c \in Callers, StayQueued(c)
        PROVE  RequestShape' /\ BudgetInv'
    <3>1. /\ UNCHANGED requestVars
          /\ pc[c] \in {"ask", "sleep"}
          /\ pc' = [pc EXCEPT ![c] = "sleep"] \/ pc' = [pc EXCEPT ![c] = "ask"]
      BY <2>4 DEF StayQueued, GoToSleep, Wake
    <3> QED
      BY <3>1 DEF requestVars, RequestShape, BudgetInv
  <2>5. ASSUME NEW c \in Callers, phase[c] = "posting", Finish(c)
        PROVE  RequestShape' /\ BudgetInv'
    BY <2>5 DEF Finish, vars, RequestShape, BudgetInv
  <2>6. ASSUME NEW c \in Callers, phase[c] = "posting",
               RetriesNetworkError(c) \/ RetriesStatus(c), BackOff(c)
        PROVE  RequestShape' /\ BudgetInv'
    <3>1. kind[c] = "nova" /\ attempt[c] + 1 \in 0 .. RETRIES
      BY <2>6 DEF RetriesNetworkError, RetriesStatus, RequestShape
    <3> QED
      BY <2>6, <3>1 DEF BackOff, vars, RequestShape, BudgetInv
  <2>7. ASSUME NEW c \in Callers, Retry(c)
        PROVE  RequestShape' /\ BudgetInv'
    BY <2>7 DEF Retry, Enter, RequestShape, BudgetInv
  <2>8. ASSUME UNCHANGED <<pc, requestVars>>
        PROVE  RequestShape' /\ BudgetInv'
    BY <2>8 DEF requestVars, RequestShape, BudgetInv
  <2>9. ASSUME NEW c \in Callers, Answered(c) \/ NetworkError(c) \/ RetryableStatus(c)
        PROVE  RequestShape' /\ BudgetInv'
    BY <2>5, <2>6, <2>9 DEF Answered, NetworkError, RetryableStatus
  <2> QED
    BY <2>1, <2>2, <2>3, <2>4, <2>7, <2>8, <2>9
       DEF RequestNext, Tick, EditSettings, vars
<1> QED
  BY <1>1, <1>2, PTL DEF RequestSpec

\* The requests and the limiter's callers keep their types together.
THEOREM RequestTypeCorrect == RequestSpec => []RequestTypeOK
<1>1. TypeOK /\ RequestShape => RequestTypeOK
  BY DEF RequestShape, RequestTypeOK
<1> QED
  BY <1>1, RequestsImplementThrottle, TypeCorrect, BudgetInvHolds, PTL

\* A call posts RETRIES + 1 times at most, once if it is a Spot request,
\* whatever mix of network errors and retryable statuses it meets.
THEOREM RetryBudgetHolds == RequestSpec => []RetryBudget
<1>1. RequestShape /\ BudgetInv => RetryBudget
  BY RetriesAssumption DEF RequestShape, BudgetInv, RetryBudget, Kinds
<1> QED
  BY <1>1, BudgetInvHolds, PTL
=============================================================================
