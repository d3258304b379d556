-------------------------- MODULE DeviceLocations --------------------------
(***************************************************************************)
(* The last locations of a device (webui/device_location_store.py).  Every *)
(* fetch that brings readings replaces the list of the one before; a       *)
(* reading is the same as another if its key is (time, place, status,      *)
(* semantic name), so a reading stands for its key here.                   *)
(***************************************************************************)
EXTENDS Integers, Sequences, FiniteSets

CONSTANTS
    Readings,   \* the location reports of the device, by key
    TimeOf,     \* when each was taken, 0 if it carries no time
    Fixes,      \* those that are not semantic readings
    Torn,       \* those whose report no key opens
    Answers     \* what the backend may answer a locate with, in its order

ASSUME ReadingsAssumption ==
    /\ IsFiniteSet(Readings)
    /\ TimeOf \in [Readings -> Nat]
    /\ Fixes \subseteq Readings
    /\ Torn \subseteq Fixes
    /\ Answers \subseteq Seq(Readings)

VARIABLES
    stored,     \* the readings on file
    newest      \* newest_fix_time, 0 before the first fix

locationVars == <<stored, newest>>

LocationTypeOK ==
    /\ stored \subseteq Readings
    /\ newest \in {0} \union {TimeOf[r] : r \in Readings}

LocationInit == stored = {} /\ newest = 0

\* decrypt_location_response_locations(): a report that does not open does not
\* hide the others.  If none does it raises, which like an answer without
\* reports leaves nothing to keep.
Opened(answer) == SelectSeq(answer, LAMBDA r : r \notin Torn)

\* SelectSeq leaves a sequence of readings: a fact about it that no prover has.
ASSUME OpenedAssumption == \A answer \in Answers : Opened(answer) \in Seq(Readings)

\* What a locate may return.
Batches == {Opened(answer) : answer \in Answers}

ReadingsOf(batch) == {batch[i] : i \in 1 .. Len(batch)}

\* The latest time among the readings of S, 0 if none has one.
LatestOf(S) ==
    CHOOSE t \in {0} \union {TimeOf[r] : r \in S} :
        \A r \in S : TimeOf[r] <= t

\* A mistaken IsNew: a reading that comes twice in one response is new twice.
IsNewOnFile(batch, i) == batch[i] \notin stored

\* _new_this_fetch: neither on file nor earlier in the same response.
IsNew(batch, i) ==
    batch[i] \notin stored /\ \A n \in 1 .. i - 1 : batch[n] # batch[i]

\* The high-water mark over what was on file and what the response brings.
NewestWith(S) ==
    CHOOSE t \in {newest, LatestOf(stored \intersect Fixes), LatestOf(S \intersect Fixes)} :
        /\ t >= newest
        /\ t >= LatestOf(stored \intersect Fixes)
        /\ t >= LatestOf(S \intersect Fixes)

\* set_last_location()
SetLastLocation(batch) ==
    /\ stored' = ReadingsOf(batch)
    /\ newest' = NewestWith(ReadingsOf(batch))

\* Only ever called with readings: a fetch without any keeps what is on file.
KeepLocations(batch) ==
    IF batch = <<>> THEN UNCHANGED locationVars ELSE SetLastLocation(batch)

\* is_most_recent_by_index of the poll: the latest time of the response.
IsMostRecent(batch, i) ==
    LatestOf(ReadingsOf(batch)) \in {0, TimeOf[batch[i]]}
=============================================================================
