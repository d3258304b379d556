------------------------------ MODULE BuildJob ------------------------------
(***************************************************************************)
(* What the Firmware page promises of its builds: one at a time, each ends *)
(* by itself, and what a download gets is the image of the last request,   *)
(* for the board that was asked for, or nothing.                           *)
(***************************************************************************)
CONSTANTS Requests, None

VARIABLES
    status,     \* "none", "active", "done" or "failed"
    request,    \* what the last build was asked for
    served      \* what a download would get

vars == <<status, request, served>>

Init ==
    /\ status = "none"
    /\ request = None
    /\ served = None

Start(r) ==
    /\ status # "active"
    /\ status' = "active"
    /\ request' = r
    /\ served' = None

Finish ==
    /\ status = "active"
    /\ status' = "done"
    /\ served' = request
    /\ UNCHANGED request

Fail ==
    /\ status = "active"
    /\ status' = "failed"
    /\ UNCHANGED <<request, served>>

\* The server's memory is lost: the page starts afresh.
Restart ==
    /\ status' = "none"
    /\ request' = None
    /\ served' = None

Next == (\E r \in Requests : Start(r)) \/ Finish \/ Fail \/ Restart

\* An active build ends: it finishes, fails or goes with the server.
Ends == Finish \/ Fail \/ (status = "active" /\ Restart)

Spec == Init /\ [][Next]_vars /\ WF_vars(Ends)
=============================================================================
