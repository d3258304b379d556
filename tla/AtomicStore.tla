---------------------------- MODULE AtomicStore ----------------------------
(***************************************************************************)
(* What webui/device_store.py promises the modules that share it: one      *)
(* mapping from devices to entries, of which everybody sees the latest     *)
(* state, and of which a module only ever changes its own part.            *)
(***************************************************************************)
CONSTANTS
    Devices,
    Parts,      \* the sub-keys of an entry, each with one owning module
    None

VARIABLES
    content,    \* the entry of each device
    reply,      \* the store as the last operation saw it
    hand        \* flips with every change from outside the program

vars == <<content, reply, hand>>

Init == reply = content /\ hand = FALSE

Same(d, parts) == \A p \in parts : content'[d][p] = content[d][p]

Others(d) == \A e \in Devices \ {d} : Same(e, Parts)

Seen == reply' = content' /\ UNCHANGED hand

Read == content' = content /\ Seen

\* One module changes its part of one device.
Put(d, part) == Same(d, Parts \ {part}) /\ Others(d) /\ Seen

\* The settings of a device are saved; what is known of endpoints that are gone goes.
Save(d) ==
    /\ Same(d, Parts \ {"config", "states"}) /\ Others(d)
    /\ content'[d].config # None
    /\ content'[d].states \subseteq content[d].states
    /\ Seen

\* The account's names and models are copied to the devices that have settings.
Sync ==
    /\ \A d \in Devices :
         /\ Same(d, Parts \ {"config"})
         /\ content[d].config = None => content'[d].config = None
         /\ content[d].config # None =>
              /\ content'[d].config # None
              /\ content'[d].config.urls = content[d].config.urls
    /\ Seen

\* Someone edits, removes or breaks the file.
Outside == hand' = ~hand /\ UNCHANGED reply

Next ==
    \/ Read \/ Sync \/ Outside
    \/ \E d \in Devices : Save(d) \/ \E part \in Parts : Put(d, part)

Spec == Init /\ [][Next]_vars
=============================================================================
