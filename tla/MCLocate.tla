------------------------------ MODULE MCLocate ------------------------------
(* A small instance of Locate.  NoJob is 0 and the requests are the jobs.  *)
EXTENDS Locate

CONSTANTS c1, c2, k1, k2

\* Two fetches for the one device and one for the other.
MCKeyOf == [j \in 1 .. MaxJobs |-> IF j = 2 THEN k2 ELSE k1]

MCRequests == 1 .. MaxJobs

\* An answer and its duplicate for one of them.
MCMaxPushes == [r \in 1 .. MaxJobs |-> IF r = MaxJobs THEN 2 ELSE 0]
=============================================================================
