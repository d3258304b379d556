--------------------------- MODULE FirmwareBuild ---------------------------
(***************************************************************************)
(* Firmware builds (webui/firmware_build.py) on the on-demand toolchain of *)
(* EspIdf: the one build task, the sandboxes it leaves on disk and the     *)
(* image a download gets, through restarts of the server.                  *)
(***************************************************************************)
EXTENDS EspIdf, FiniteSets

CONSTANTS
    Keys,           \* advertisement keys
    Keep,           \* GFMT_FIRMWARE_KEEP_BUILDS
    OldBuilds,      \* sandboxes an upgraded server finds in the old place
    MaxBuilds,      \* bound: sandboxes ever made
    MaxKills,       \* bound: ends of the process
    None

ASSUME FirmwareAssumption ==
    /\ Keep \in Nat /\ OldBuilds \in Nat
    /\ MaxBuilds \in Nat /\ MaxKills \in Nat /\ OldBuilds <= MaxBuilds

VARIABLES
    request,    \* what the last build was asked for
    artifact,   \* the sandbox of _state["artifact_path"]
    boxes,      \* the sandboxes on disk, numbered as they were made
    hasDir,     \* the directory of the sandboxes exists
    oldBoxes,   \* the sandboxes in the old place
    aged,       \* sandboxes up to this number are over the build TTL
    box,        \* the sandbox of the running build
    made,       \* how many sandboxes have been made
    drain,      \* what _drain() reports of a running command: its phase
    orphans,    \* sandboxes that children of a killed command may still write to
    kills

stateVars == <<request, artifact>>
boxVars == <<boxes, hasDir, oldBoxes, box, made>>
runVars == <<drain, orphans>>
vars == <<idfVars, at, phase, stateVars, boxVars, aged, runVars, kills>>

Boards == {"esp32", "esp32c3"}

\* What start() accepts: a known board and an advertisement key.
Requests == [key : Keys, board : Boards]

ActivePhases ==
    {"provisioning", "cloning", "installing_toolchain", "preparing", "building", "merging"}

IsActive == phase \in ActivePhases

\* The steps of startup and of a build that are not the toolchain's.
Startup == {"move_builds", "copy_builds", "boot_prune"}
Commands == {"target", "build", "merge"}
Places == Startup \union Commands \union
    {"move_idf", "copy_idf", "move_tools", "copy_tools", "sweep", "sweep_idf",
     "sweep_tools", "look", "wipe", "unmark", "clone", "install", "mark",
     "rest", "spawn", "env", "prune", "box", "fill", "failed"}

Ids == 1..MaxBuilds

\* What a sandbox holds: the key in its build_config.h, the chip of its sdkconfig
\* and whether it has an artifact.bin.
Contents == [key : Keys \union {None}, chip : Boards, image : BOOLEAN]

Empty == [key |-> None, chip |-> "esp32", image |-> FALSE]

FirmwareTypeOK ==
    /\ EspIdfTypeOK
    /\ at \in Places
    /\ phase \in ActivePhases \union {"idle", "done", "error"}
    /\ request \in Requests \union {None}
    /\ artifact \in Ids \union {None}
    /\ boxes \in UNION {[S -> Contents] : S \in SUBSET Ids}
    /\ hasDir \in BOOLEAN
    /\ oldBoxes \subseteq Ids
    /\ aged \in 0..MaxBuilds
    /\ box \in Ids \union {None}
    /\ made \in 0..MaxBuilds
    /\ drain \in ActivePhases \union {"off"}
    /\ orphans \subseteq Ids
    /\ kills \in 0..MaxKills

Init ==
    /\ EspIdfInit
    /\ phase = "idle"
    /\ request = None /\ artifact = None
    /\ boxes = <<>> /\ hasDir = FALSE
    /\ oldBoxes \in {{}, 1..OldBuilds}
    /\ made = Cardinality(oldBoxes)
    /\ box = None
    /\ aged = 0
    /\ drain = "off"
    /\ orphans = {}
    /\ kills = 0

(***************************************************************************)
(* Startup: migrate_legacy_builds_dir() and prune_old_builds().            *)
(***************************************************************************)
MoveBuilds ==
    /\ at = "move_builds"
    /\ IF oldBoxes = {} \/ hasDir
         THEN /\ oldBoxes' = {}
              /\ at' = "boot_prune"
              /\ UNCHANGED <<boxes, hasDir>>
         ELSE /\ hasDir' = TRUE
              /\ \E S \in SUBSET oldBoxes : boxes' = [b \in S |-> Empty]
              /\ at' = "copy_builds"
              /\ UNCHANGED oldBoxes
    /\ UNCHANGED <<idfVars, phase, stateVars, box, made, aged, runVars, kills>>

CopyBuilds ==
    /\ at = "copy_builds"
    /\ boxes' = [b \in oldBoxes |-> Empty]
    /\ oldBoxes' = {}
    /\ at' = "boot_prune"
    /\ UNCHANGED <<idfVars, phase, stateVars, hasDir, box, made, aged, runVars, kills>>

\* A plausible slip: one sandbox more is kept.
KeptOneMore ==
    LET young == {b \in DOMAIN boxes : b > aged}
    IN  {b \in young : Cardinality({c \in young : c > b}) <= Keep}

\* The newest Keep of those within the build TTL; none when Keep is 0.
Kept ==
    LET young == {b \in DOMAIN boxes : b > aged}
    IN  {b \in young : Cardinality({c \in young : c > b}) < Keep}

\* rmtree() ignores errors: it may not get rid of what is still being written to.
Prune(next) ==
    /\ \E rest \in SUBSET (orphans \intersect DOMAIN boxes) :
         boxes' = [b \in Kept \union rest |-> boxes[b]]
    /\ at' = next
    /\ UNCHANGED <<idfVars, phase, stateVars, hasDir, oldBoxes, box, made, aged, runVars, kills>>

BootPrune == at = "boot_prune" /\ Prune("sweep")

(***************************************************************************)
(* start() and _run_build().                                               *)
(***************************************************************************)
Serving == phase # "idle" \/ at = "rest"

Start(r) ==
    /\ Serving
    /\ ~IsActive
    /\ made < MaxBuilds
    /\ phase' = "preparing"
    /\ artifact' = None
    /\ request' = r
    /\ at' = "spawn"
    /\ UNCHANGED <<idfVars, boxVars, aged, runVars, kills>>

\* The task begins once the broadcast of the new state is over.
Spawn ==
    /\ at = "spawn"
    /\ phase' = "provisioning"
    /\ at' = "sweep"
    /\ UNCHANGED <<idfVars, stateVars, boxVars, aged, runVars, kills>>

GetEnv ==
    /\ at = "env"
    /\ \/ idf = "whole" /\ tools = "whole" /\ at' = "prune"
       \/ at' = "failed"
    /\ hasDir' = (hasDir \/ at' = "prune")
    /\ UNCHANGED <<idfVars, phase, stateVars, boxes, oldBoxes, box, made, aged, runVars, kills>>

PruneForBuild == at = "prune" /\ Prune("box")

\* A plausible slip: one sandbox, used again by every build.
SharedBox == 1

\* mkdtemp() gives a directory of the build's own.
FreshBox == made + 1

MakeBox ==
    /\ at = "box"
    /\ box' = FreshBox
    /\ made' = made + 1
    /\ boxes' = [b \in DOMAIN boxes \union {FreshBox} |->
                    IF b = FreshBox THEN Empty ELSE boxes[b]]
    /\ at' = "fill"
    /\ UNCHANGED <<idfVars, phase, stateVars, hasDir, oldBoxes, aged, runVars, kills>>

\* A step that makes a directory or a file finds the disk full: the sandbox it
\* was filling stays as it is.
DiskIsFull ==
    /\ at \in {"unmark", "mark", "box", "fill"}
    /\ at' = "failed"
    /\ UNCHANGED <<idfVars, phase, stateVars, boxVars, aged, runVars, kills>>

\* A command's phase is set, then it runs with a _drain() of its own.
Launch(place, itsPhase) ==
    /\ at' = place
    /\ phase' = itsPhase
    /\ drain' = itsPhase

\* copytree() and _write_build_config(); the sdkconfig of the copy is for esp32.
NeedsTarget == request.board = "esp32c3"

FillBox ==
    /\ at = "fill"
    /\ boxes' = [boxes EXCEPT ![box].key = request.key]
    /\ IF NeedsTarget THEN Launch("target", "preparing") ELSE Launch("build", "building")
    /\ UNCHANGED <<idfVars, stateVars, hasDir, oldBoxes, box, made, aged, orphans, kills>>

Target ==
    /\ at = "target"
    /\ boxes' = [boxes EXCEPT ![box].chip = request.board]
    /\ Launch("build", "building")
    /\ UNCHANGED <<idfVars, stateVars, hasDir, oldBoxes, box, made, aged, orphans, kills>>

Build ==
    /\ at = "build"
    /\ Launch("merge", "merging")
    /\ UNCHANGED <<idfVars, stateVars, boxVars, aged, orphans, kills>>

\* The command ended well, with or without an image.
DrainEnds == drain' = "off"

Merge ==
    /\ at = "merge"
    /\ DrainEnds
    /\ \E image \in BOOLEAN :
         /\ boxes' = [boxes EXCEPT ![box].image = image]
         /\ IF image
              THEN /\ phase' = "done"
                   /\ artifact' = box
                   /\ at' = "rest"
              ELSE at' = "failed" /\ UNCHANGED <<phase, artifact>>
    /\ UNCHANGED <<idfVars, request, hasDir, oldBoxes, box, made, aged, orphans, kills>>

\* A command exits with an error, or is killed at the timeout: its children are not.
CommandFails ==
    /\ at \in Commands
    /\ DrainEnds
    /\ orphans' \in {orphans, orphans \union {box}}
    /\ at' = "failed"
    /\ UNCHANGED <<idfVars, phase, stateVars, boxVars, aged, kills>>

\* The handler of _run_build() takes whatever any step raised.
BuildFails ==
    /\ at = "failed"
    /\ phase' = "error"
    /\ at' = "rest"
    /\ UNCHANGED <<idfVars, stateVars, boxVars, aged, runVars, kills>>

(***************************************************************************)
(* What happens meanwhile.                                                 *)
(***************************************************************************)
\* _drain() reads a line of ninja's progress and sets the phase of its command.
Progress ==
    /\ drain # "off"
    /\ phase' = drain
    /\ UNCHANGED <<idfVars, at, stateVars, boxVars, aged, runVars, kills>>

\* The children of a killed command write whatever they like in its sandbox.
OrphanWrites ==
    /\ \E b \in orphans \intersect DOMAIN boxes :
         boxes' = [boxes EXCEPT ![b].key = None, ![b].image = FALSE]
    /\ UNCHANGED <<idfVars, at, phase, stateVars, hasDir, oldBoxes, box, made, aged, runVars, kills>>

Ages ==
    /\ aged < made
    /\ aged' \in aged + 1 .. made
    /\ UNCHANGED <<idfVars, at, phase, stateVars, boxVars, runVars, kills>>

\* The server's process ends and is started again: only the disk is left.
Kill ==
    /\ kills < MaxKills
    /\ kills' = kills + 1
    /\ cut' = (cut \/ at \in {"copy_idf", "copy_tools"})
    /\ at' = "move_idf"
    /\ phase' = "idle"
    /\ request' = None /\ artifact' = None
    /\ box' = None
    /\ drain' = "off"
    /\ orphans' = {}
    /\ UNCHANGED <<idf, tools, marker, idle, legacy, boxes, hasDir, oldBoxes, made, aged>>

(***************************************************************************)
(* The specification.                                                      *)
(***************************************************************************)
others == <<stateVars, boxVars, aged, runVars, kills>>

Step ==
    \/ (Migrate \/ Provision) /\ UNCHANGED others
    \/ MoveBuilds \/ CopyBuilds \/ BootPrune
    \/ Spawn \/ GetEnv \/ PruneForBuild \/ MakeBox \/ FillBox \/ DiskIsFull
    \/ Target \/ Build \/ Merge \/ CommandFails \/ BuildFails

Next ==
    \/ Step
    \/ \E r \in Requests : Start(r)
    \/ Progress \/ OrphanWrites \/ Ages \/ Kill
    \/ GoesIdle /\ UNCHANGED others

Spec == Init /\ [][Next]_vars

\* Every command of a build ends or is ended at its timeout, and the task goes on.
\* get_env() has no timeout: that its script ends is assumed.
FairSpec == Spec /\ WF_vars(Step)

(***************************************************************************)
(* Properties.                                                             *)
(***************************************************************************)
WholeInstall == idf = "whole" /\ tools = "whole"

OnInstall == at \in {"env", "prune", "box", "fill"} \union Commands

\* The environment and the commands of a build are taken from a complete install,
\* whatever a clone, an install or a sweep that was cut short left behind; only
\* what is left of a migration that was cut short passes for complete, until
\* provision() starts anew (is_provisioned(), _relocate_legacy()).
WholeUnlessCut == OnInstall => WholeInstall \/ cut

\* "True only once install.sh has actually finished successfully" (the docstring of
\* is_provisioned()): what counts as provisioned, and is built on, is complete.
BuildsOnWholeInstall == OnInstall => WholeInstall

\* Apart from the sandboxes that something still writes to, a serving process has
\* at most Keep and the one of the last build on disk, however builds, failures,
\* migrations and restarts follow each other (prune_old_builds()).
SandboxesBounded ==
    at \notin Startup \union {"move_idf", "copy_idf", "move_tools", "copy_tools"} =>
        Cardinality(DOMAIN boxes \ orphans) <= Keep + 1

Status ==
    CASE phase = "idle" -> "none"
      [] phase = "done" -> "done"
      [] phase = "error" -> "failed"
      [] OTHER -> "active"

\* What GET /firmware/build/download answers with.
Served ==
    IF phase = "done" /\ artifact \in DOMAIN boxes
      THEN LET b == boxes[artifact]
           IN  [key |-> IF b.image THEN b.key ELSE None, board |-> b.chip]
      ELSE None

Job == INSTANCE BuildJob WITH status <- Status, request <- request, served <- Served

\* The builds implement BuildJob: a build that is asked for while one is active is
\* refused, a late line of progress never revives one that ended, the image that is
\* offered is the one that was asked for, and every build ends.
ImplementsBuildJob == Job!Spec
=============================================================================
