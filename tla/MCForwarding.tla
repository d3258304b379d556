---------------------------- MODULE MCForwarding ----------------------------
(* A small instance of Forwarding: a fix, a report that does not open, and *)
(* a semantic reading whose mapping gives it coordinates close to the fix. *)
EXTENDS Forwarding

CONSTANTS fix, torn, home, rawHome

MCTimeOf == [r \in Readings |-> IF r \in {fix, torn} THEN 1 ELSE 2]

\* Without its mapping the semantic reading has no coordinates, and another key.
MCRawOf == [r \in Readings |-> IF r = home THEN rawHome ELSE r]

MCUnlocated == {rawHome}

MCFixes == {fix, torn}

MCTorn == {torn}

MCNear == {<<fix, home>>, <<home, fix>>} \union {<<r, r>> : r \in Readings}

\* The second endpoint takes every reading of a response that it has not seen.
MCSeenGate == {1, 2}
MCRecentGate == {1}
MCCloseGate == {2}
MCStaleGate == {2}
MCSameFix == {<<r, r>> : r \in Readings}
MCFiltered == {<<1, rawHome>>}

MCConfigs == {{}, {1, 2}}

MCAnswers == {<<torn>>, <<fix, torn, home, home>>}
=============================================================================
