------------------------------- MODULE EspIdf -------------------------------
(***************************************************************************)
(* The on-demand ESP-IDF toolchain (webui/esp_idf_provisioning.py): a      *)
(* source tree and a tools directory on disk, the marker in the latter     *)
(* that says install.sh finished, and the install that an upgraded server  *)
(* still finds in its data directory.  Every step that takes time can be   *)
(* cut short by the end of the process; the disk is what survives.         *)
(***************************************************************************)
EXTENDS Naturals

CONSTANT IdleTtl        \* GFMT_ESP_IDF_IDLE_TTL_S is not 0

ASSUME EspIdfAssumption == IdleTtl \in BOOLEAN

VARIABLES
    idf,        \* the source tree: a "torn" one has tools/idf.py, a "bare" one not
    tools,      \* the directory install.sh fills
    marker,     \* the marker file is there
    idle,       \* its mtime is further back than the idle TTL
    legacy,     \* the install in the old place
    cut,        \* history: the process ended while the install that is there, or
                \* a part of it, was being copied from the old place
    at,         \* where the one task that works on all this is
    phase       \* _state["phase"] of firmware_build, set through on_progress

idfVars == <<idf, tools, marker, idle, legacy, cut>>

Trees == {"none", "bare", "torn", "whole"}

Installs == [idf : Trees, tools : Trees \ {"bare"}, marker : BOOLEAN]

EspIdfTypeOK ==
    /\ [idf |-> idf, tools |-> tools, marker |-> marker] \in Installs
    /\ marker => tools # "none"
    /\ idle \in BOOLEAN
    /\ legacy \in Installs
    /\ cut \in BOOLEAN

HasIdfPy(tree) == tree \in {"torn", "whole"}

\* A plausible slip: the script is there, so the install is.
ScriptIsThere == HasIdfPy(idf)

IsProvisioned == HasIdfPy(idf) /\ marker

NoInstall == [idf |-> "none", tools |-> "none", marker |-> FALSE]

\* A server that never was upgraded, one upgraded with an install, and one whose
\* first clone had been interrupted.
LegacyInstalls ==
    {NoInstall,
     [idf |-> "whole", tools |-> "whole", marker |-> TRUE],
     [idf |-> "torn", tools |-> "torn", marker |-> FALSE]}

EspIdfInit ==
    /\ idf = "none" /\ tools = "none" /\ marker = FALSE
    /\ idle = FALSE
    /\ legacy \in LegacyInstalls
    /\ cut = FALSE
    /\ at = "move_idf"

(***************************************************************************)
(* Startup: migrate_legacy_dirs().  shutil.move() to another device copies *)
(* the tree and then removes it; a tree already at the destination makes   *)
(* the old one a leftover.                                                 *)
(***************************************************************************)
MoveIdf ==
    /\ at = "move_idf"
    /\ \/ /\ legacy.idf = "none" \/ idf # "none"
          /\ legacy' = [legacy EXCEPT !.idf = "none"]
          /\ at' = "move_tools"
          /\ UNCHANGED idf
       \/ /\ legacy.idf # "none" /\ idf = "none"
          /\ idf' \in {"bare", "torn"}
          /\ at' = "copy_idf"
          /\ UNCHANGED legacy
    /\ UNCHANGED <<tools, marker, idle, cut, phase>>

CopyIdf ==
    /\ at = "copy_idf"
    /\ idf' = legacy.idf
    /\ legacy' = [legacy EXCEPT !.idf = "none"]
    /\ at' = "move_tools"
    /\ UNCHANGED <<tools, marker, idle, cut, phase>>

MoveTools ==
    /\ at = "move_tools"
    /\ \/ /\ legacy.tools = "none" \/ tools # "none"
          /\ legacy' = [legacy EXCEPT !.tools = "none", !.marker = FALSE]
          /\ at' = "move_builds"
          /\ UNCHANGED <<tools, marker, idle>>
       \/ /\ legacy.tools # "none" /\ tools = "none"
          /\ tools' = "torn"
          /\ marker' \in {FALSE, legacy.marker}
          /\ idle' \in BOOLEAN          \* the copy keeps the mtime
          /\ at' = "copy_tools"
          /\ UNCHANGED legacy
    /\ UNCHANGED <<idf, cut, phase>>

CopyTools ==
    /\ at = "copy_tools"
    /\ tools' = legacy.tools
    /\ marker' = legacy.marker
    /\ legacy' = [legacy EXCEPT !.tools = "none", !.marker = FALSE]
    /\ at' = "move_builds"
    /\ UNCHANGED <<idf, idle, cut, phase>>

(***************************************************************************)
(* cleanup_if_stale(), at startup and at the top of provision(): the tree  *)
(* goes first, then the tools with the marker.                             *)
(***************************************************************************)
AfterSweep == IF phase = "idle" THEN "rest" ELSE "look"

IsStale == IdleTtl /\ IsProvisioned /\ idle

Sweep ==
    /\ at = "sweep"
    /\ IF IsStale
         THEN /\ idf' \in {"torn", "bare"}
              /\ at' = "sweep_idf"
         ELSE at' = AfterSweep /\ UNCHANGED idf
    /\ UNCHANGED <<tools, marker, idle, legacy, cut, phase>>

SweepIdf ==
    /\ at = "sweep_idf"
    /\ idf' = "none"
    /\ tools' = "torn"
    /\ marker' \in {marker, FALSE}
    /\ at' = "sweep_tools"
    /\ UNCHANGED <<idle, legacy, cut, phase>>

SweepTools ==
    /\ at = "sweep_tools"
    /\ tools' = "none"
    /\ marker' = FALSE
    /\ at' = AfterSweep
    /\ UNCHANGED <<idf, idle, legacy, cut, phase>>

(***************************************************************************)
(* provision()                                                             *)
(***************************************************************************)
MarkUsed == idle' = FALSE

Look ==
    /\ at = "look"
    /\ IF IsProvisioned
         THEN /\ MarkUsed
              /\ at' = "env"
              /\ UNCHANGED idf
         ELSE /\ idf' = IF idf = "none" THEN "none" ELSE "bare"
              /\ at' = "wipe"
              /\ UNCHANGED idle
    /\ UNCHANGED <<tools, marker, legacy, cut, phase>>

Wipe ==
    /\ at = "wipe"
    /\ idf' = "none"
    /\ at' = "unmark"
    /\ UNCHANGED <<tools, marker, idle, legacy, cut, phase>>

Unmark ==
    /\ at = "unmark"
    /\ tools' = IF tools = "none" THEN "torn" ELSE tools
    /\ marker' = FALSE
    /\ cut' = FALSE
    /\ phase' = "cloning"
    /\ at' = "clone"
    /\ UNCHANGED <<idf, idle, legacy>>

\* git fills the tree; it may stop anywhere, by itself or at the timeout.
Clone ==
    /\ at = "clone"
    /\ \/ /\ idf = "none"
          /\ idf' \in {"bare", "torn"}
          /\ UNCHANGED <<at, phase>>
       \/ /\ idf # "none"
          /\ idf' = "whole"
          /\ at' = "install"
          /\ phase' = "installing_toolchain"
       \/ /\ at' = "failed"
          /\ UNCHANGED <<idf, phase>>
    /\ UNCHANGED <<tools, marker, idle, legacy, cut>>

Install ==
    /\ at = "install"
    /\ \/ /\ tools' = "torn"
          /\ at' = "failed"
       \/ /\ tools' = "whole"
          /\ at' = "mark"
    /\ UNCHANGED <<idf, marker, idle, legacy, cut, phase>>

Mark ==
    /\ at = "mark"
    /\ marker' = TRUE
    /\ MarkUsed
    /\ phase' = "provisioning"
    /\ at' = "env"
    /\ UNCHANGED <<idf, tools, legacy, cut>>

Migrate == MoveIdf \/ CopyIdf \/ MoveTools \/ CopyTools

Provision ==
    \/ Sweep \/ SweepIdf \/ SweepTools
    \/ Look \/ Wipe \/ Unmark \/ Clone \/ Install \/ Mark

\* Time passes since the toolchain was last used.
GoesIdle ==
    /\ marker /\ ~idle
    /\ idle' = TRUE
    /\ UNCHANGED <<idf, tools, marker, legacy, cut, at, phase>>
=============================================================================
