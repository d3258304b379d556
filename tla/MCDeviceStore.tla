--------------------------- MODULE MCDeviceStore ---------------------------
(* A small instance of DeviceStore: two devices of which one is operated on, *)
(* with settings and locations of this and of older versions in the files.  *)
EXTENDS DeviceStore

CONSTANTS d1, d2, u1, u2, g1, g2

OldEntry == [config |-> [urls |-> {u1}, meta |-> None, old |-> TRUE],
             location |-> "unlinked", states |-> {u1}, staleness |-> None]

NewEntry == [config |-> [urls |-> {Bare, u1}, meta |-> g1, old |-> FALSE],
             location |-> "linked", states |-> {u1}, staleness |-> "kept"]

MCLists ==
    {[d \in Devices |-> None], [d \in Devices |-> g2],
     [d \in Devices |-> IF d = d1 THEN g1 ELSE None], [d \in Devices |-> IF d = d1 THEN None ELSE g1]}

MCLegacies == {[d \in Devices |-> OldEntry]}

MCEdits ==
    {[d \in Devices |-> IF d = d1 THEN NoEntry ELSE NewEntry],
     [d \in Devices |-> IF d = d1 THEN NewEntry ELSE OldEntry]}
=============================================================================
