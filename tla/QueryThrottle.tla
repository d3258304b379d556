--------------------------- MODULE QueryThrottle ---------------------------
(***************************************************************************)
(* The account-wide rate limiter (NovaApi/query_throttle.py).  Every       *)
(* blocking call to Google's backend, from whatever worker thread, first   *)
(* runs wait_turn(): it takes a slot under a lock if one is free, and      *)
(* otherwise sleeps, with the lock released, and asks again.               *)
(*                                                                         *)
(* Time is an integer.  A slot is "sent" at the instant the lock section   *)
(* records it.  The settings are read anew on every attempt and can be     *)
(* edited while callers wait (webui/settings_store.py is the source).      *)
(***************************************************************************)
EXTENDS Integers, Sequences, FiniteSets

CONSTANTS
    Callers,        \* the worker threads that call wait_turn()
    Settings,       \* the settings the Config page can hold
    BadSettings,    \* a hand-edited config.yaml: query_throttle_max is no number
    InitialSettings,
    NeverSent,      \* self._last_sent_at = None
    MaxTime,        \* bound on the idle time: see Tick
    MaxCalls,       \* bound on the calls a caller makes
    MaxEdits        \* bound on the edits of the settings

ASSUME CallersAssumption == IsFiniteSet(Callers)
ASSUME SettingsAssumption ==
    /\ Settings \subseteq [max : Int, window : Int, spread : Int]
    /\ BadSettings \notin Settings
    /\ InitialSettings \in Settings
ASSUME BoundsAssumption ==
    /\ MaxTime \in Nat
    /\ MaxCalls \in Nat
    /\ MaxEdits \in Nat
    /\ NeverSent \notin Nat

VARIABLES
    now,        \* self._clock()
    settings,   \* what self._settings() returns
    sentAt,     \* self._sent_at, oldest first
    lastSentAt, \* self._last_sent_at
    waiting,    \* self.waiting
    pc,         \* where each caller is
    wakeAt,     \* when a sleeping caller's self._sleep(delay) ends
    calls,      \* history: calls each caller has made
    edits,      \* history: edits of the settings so far
    slept,      \* history: what each caller saw when it last went to sleep
    sent,       \* history: every slot ever taken, oldest first
    epoch       \* history: slots taken before the last edit of the settings

vars == <<now, settings, sentAt, lastSentAt, waiting, pc, wakeAt,
          calls, edits, slept, sent, epoch>>

\* How many slots had been taken and how often the settings been edited, and
\* whether a limit that was lowered left more slots in the window than it
\* allows.
Sights == [slots : Int, edits : Int, over : BOOLEAN]

\* "out": not in wait_turn(); "ask": about to run the lock section;
\* "sleep": in self._sleep(delay).
Places == {"out", "ask", "sleep"}

TypeOK ==
    /\ now \in Nat
    /\ settings \in Settings \union {BadSettings}
    /\ sentAt \in Seq(Nat)
    /\ lastSentAt \in Nat \union {NeverSent}
    /\ waiting \in Int
    /\ pc \in [Callers -> Places]
    /\ wakeAt \in [Callers -> Int]
    /\ calls \in [Callers -> 0 .. MaxCalls]
    /\ edits \in 0 .. MaxEdits
    /\ slept \in [Callers -> Sights]
    /\ sent \in Seq(Nat)
    /\ epoch \in 0 .. Len(sent)

Init ==
    /\ now = 0
    /\ settings = InitialSettings
    /\ sentAt = <<>>
    /\ lastSentAt = NeverSent
    /\ waiting = 0
    /\ pc = [c \in Callers |-> "out"]
    /\ wakeAt = [c \in Callers |-> 0]
    /\ calls = [c \in Callers |-> 0]
    /\ edits = 0
    /\ slept = [c \in Callers |-> [slots |-> -1, edits |-> 0, over |-> FALSE]]
    /\ sent = <<>>
    /\ epoch = 0

-----------------------------------------------------------------------------
(* The lock section, _consume_slot_or_get_delay().                         *)

\* The while loop that pops expired slots off the left end of the deque
\* stops after exactly k of them.
ExpiredPrefix(s, k, window) ==
    /\ \A i \in 1 .. k : now - s[i] >= window
    /\ k < Len(s) => now - s[k + 1] < window

\* A mistaken WindowDelay, off by one: it lets one slot too many through.
WindowDelayLate(kept, cfg) ==
    IF cfg.max > 0 /\ Len(kept) > cfg.max
    THEN cfg.window - (now - kept[1])
    ELSE 0

\* How long the window limit asks to wait, 0 when it does not bind.
WindowDelay(kept, cfg) ==
    IF cfg.max > 0 /\ Len(kept) >= cfg.max
    THEN cfg.window - (now - kept[1])
    ELSE 0

\* A mistaken SpreadDelay: the last slot is the deque's, which forgets it.
SpreadDelayOfDeque(cfg) ==
    IF cfg.spread > 0 /\ sentAt # <<>>
    THEN cfg.spread - (now - sentAt[Len(sentAt)])
    ELSE 0

\* How long the spread limit asks to wait.
SpreadDelay(cfg) ==
    IF cfg.spread > 0 /\ lastSentAt # NeverSent
    THEN cfg.spread - (now - lastSentAt)
    ELSE 0

\* A mistaken MaxDelay: the shorter of two waits.
ShorterDelay(kept, cfg) ==
    LET w == WindowDelay(kept, cfg)
        s == SpreadDelay(cfg)
    IN  IF w > 0 /\ s > 0 THEN (IF w < s THEN w ELSE s)
        ELSE IF w > 0 THEN w ELSE IF s > 0 THEN s ELSE 0

MaxDelay(kept, cfg) ==
    LET w == WindowDelay(kept, cfg)
        s == SpreadDelay(cfg)
        d == IF w > 0 THEN w ELSE 0
    IN  IF s > d THEN s ELSE d

-----------------------------------------------------------------------------
\* wait_turn() begins.
Enter(c) ==
    /\ pc[c] = "out"
    /\ calls[c] < MaxCalls
    /\ calls' = [calls EXCEPT ![c] = @ + 1]
    /\ waiting' = waiting + 1
    /\ pc' = [pc EXCEPT ![c] = "ask"]
    /\ UNCHANGED <<now, settings, sentAt, lastSentAt, wakeAt, edits, slept, sent, epoch>>

\* wait_turn()'s finally clause: the way out, by return or by an error.
Leave(c) ==
    /\ waiting' = waiting - 1
    /\ pc' = [pc EXCEPT ![c] = "out"]

\* The lock section finds a free slot, records it, and wait_turn() returns.
TakeSlot(c) ==
    /\ pc[c] = "ask"
    /\ settings # BadSettings
    /\ \E k \in 0 .. Len(sentAt) :
          /\ ExpiredPrefix(sentAt, k, settings.window)
          /\ LET kept == SubSeq(sentAt, k + 1, Len(sentAt))
             IN  /\ MaxDelay(kept, settings) <= 0
                 /\ sentAt' = Append(kept, now)
    /\ lastSentAt' = now
    /\ sent' = Append(sent, now)
    /\ Leave(c)
    /\ UNCHANGED <<now, settings, wakeAt, calls, edits, slept, epoch>>

\* The lock section finds none, and the caller sleeps outside the lock.
GoToSleep(c) ==
    /\ pc[c] = "ask"
    /\ settings # BadSettings
    /\ \E k \in 0 .. Len(sentAt) :
          /\ ExpiredPrefix(sentAt, k, settings.window)
          /\ LET kept == SubSeq(sentAt, k + 1, Len(sentAt))
             IN  /\ MaxDelay(kept, settings) > 0
                 /\ sentAt' = kept
                 /\ wakeAt' = [wakeAt EXCEPT ![c] = now + MaxDelay(kept, settings)]
                 /\ slept' = [slept EXCEPT ![c] =
                      [slots |-> Len(sent), edits |-> edits,
                       over |-> settings.max > 0 /\ Len(kept) > settings.max]]
    /\ pc' = [pc EXCEPT ![c] = "sleep"]
    /\ UNCHANGED <<now, settings, lastSentAt, waiting, calls, edits, sent, epoch>>

\* A comparison in the lock section raises: the error leaves wait_turn()
\* through its finally clause, and no slot is taken, though the slots that
\* expired under the bad settings' own window are popped already.
SettingsRaise(c) ==
    /\ pc[c] = "ask"
    /\ settings = BadSettings
    /\ \E k \in 0 .. Len(sentAt) : sentAt' = SubSeq(sentAt, k + 1, Len(sentAt))
    /\ Leave(c)
    /\ UNCHANGED <<now, settings, lastSentAt, wakeAt, calls, edits, slept, sent, epoch>>

\* A mistaken SleepIsOver: a wake-up that comes late is missed.
SleepIsOverOnTime(c) == now = wakeAt[c]

SleepIsOver(c) == now >= wakeAt[c]

\* self._sleep(delay) returns, possibly late, and the loop asks again.
Wake(c) ==
    /\ pc[c] = "sleep"
    /\ SleepIsOver(c)
    /\ pc' = [pc EXCEPT ![c] = "ask"]
    /\ UNCHANGED <<now, settings, sentAt, lastSentAt, waiting, wakeAt, calls, edits, slept, sent, epoch>>

\* The monotonic clock advances: freely up to MaxTime, and from then on as
\* long as some caller sleeps, so that the bound never cuts a sleep short.
Tick ==
    /\ now < MaxTime \/ \E c \in Callers : pc[c] = "sleep" /\ now < wakeAt[c]
    /\ now' = now + 1
    /\ UNCHANGED <<settings, sentAt, lastSentAt, waiting, pc, wakeAt, calls, edits, slept, sent, epoch>>

\* The throttle's settings change under the waiting callers: a save of the
\* Config page, or an edit of config.yaml by hand.
EditSettings ==
    /\ edits < MaxEdits
    /\ \E s \in Settings \union {BadSettings} :
          /\ s # settings
          /\ settings' = s
    /\ edits' = edits + 1
    /\ epoch' = Len(sent)
    /\ UNCHANGED <<now, sentAt, lastSentAt, waiting, pc, wakeAt, calls, slept, sent>>

Next ==
    \/ \E c \in Callers :
          \/ Enter(c)
          \/ TakeSlot(c)
          \/ GoToSleep(c)
          \/ SettingsRaise(c)
          \/ Wake(c)
    \/ Tick
    \/ EditSettings

Spec == Init /\ [][Next]_vars

-----------------------------------------------------------------------------
(* What the class docstring promises.                                      *)

\* At most max slots in any rolling window, for all the slots taken since
\* the settings last changed, although the deque has forgotten most of them
\* and other callers took theirs between this caller's sleep and its retry.
WindowLimit ==
    (settings # BadSettings /\ settings.max > 0) =>
        \A i \in epoch + 1 .. Len(sent) :
            i + settings.max <= Len(sent)
                => sent[i + settings.max] - sent[i] >= settings.window

SpreadStep ==
    Len(sent') > Len(sent) /\ Len(sent) > 0
        => sent'[Len(sent')] - sent[Len(sent)] >= settings.spread

\* Consecutive slots are at least the spread in force apart, whatever the
\* settings were when the earlier one was taken, and although the deque may
\* have popped it since.
SpreadHolds == [][SpreadStep]_vars

VainSleep(c) ==
    /\ pc[c] = "ask" /\ pc'[c] = "sleep"
    /\ slept[c].slots = Len(sent) /\ slept[c].edits = edits
    /\ ~slept[c].over

\* A caller that slept for as long as it was told gets its slot, late or not
\* and though the deque was pruned meanwhile, unless another caller took one
\* before it or the settings changed.  (There is no order among the callers:
\* nothing keeps others from taking theirs before it again and again.)
NoVainSleep == [][\A c \in Callers : ~VainSleep(c)]_vars

Inside == {c \in Callers : pc[c] # "out"}

\* The queue depth the Config page and /metrics show is the number of
\* callers inside wait_turn(), whichever way they leave it.
WaitingCountsCallers == waiting = Cardinality(Inside)
=============================================================================
