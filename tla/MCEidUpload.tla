---------------------------- MODULE MCEidUpload ----------------------------
(* A small instance of EidUpload.                                           *)
EXTENDS EidUpload

CONSTANTS t1, m1

\* A clock that reads zero at 2, until it shifts at the given time.
ClockThatShifts(at, by) == [n \in 0..End |-> IF n < at THEN 2 ELSE 2 + by]

\* One that runs right, some that gain time, some that lose it, and one that starts anew.
MCClocks ==
    {ClockThatShifts(8, by) : by \in {-2, -1, 0, 1}} \union {ClockThatShifts(9, 2), ClockThatShifts(8, 6)}

MCBiases == {1, 3}

\* Bound: trackers and microcontrollers share the time and the server's restarts only, so
\* either no tracker was calibrated yet or there is no microcontroller.
OneAtATime ==
    (\A t \in Trackers : saved[t] = Nothing) \/ (\A m \in Mcus : paired[m] = Nothing)
=============================================================================
