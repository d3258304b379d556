------------------------- MODULE MCBackendRequests -------------------------
(* A small instance of BackendRequests: two threads, a window longer and a *)
(* window shorter than the spread, settings with no limit at all, settings *)
(* that raise, and one edit of the settings.                               *)
EXTENDS BackendRequests

CONSTANTS t1, t2

MCInitialSettings == [max |-> 2, window |-> 3, spread |-> 1]

MCSettings ==
    { MCInitialSettings,
      [max |-> 1, window |-> 2, spread |-> 3],
      [max |-> 0, window |-> 2, spread |-> 0] }

=============================================================================
