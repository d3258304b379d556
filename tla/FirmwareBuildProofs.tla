------------------------ MODULE FirmwareBuildProofs ------------------------
(***************************************************************************)
(* Theorems about firmware builds, for any number of builds, restarts and  *)
(* sandboxes that are kept: a build uses a whole toolchain, the disk does  *)
(* not fill up, and every step is one of BuildJob.                         *)
(***************************************************************************)
EXTENDS FirmwareBuild, FiniteSetTheorems, TLAPS

Moves == {"move_idf", "copy_idf", "move_tools", "copy_tools"}
Boot == Moves \union Startup
Sweeps == {"sweep", "sweep_idf", "sweep_tools"}
BeforeBox == {"spawn", "look", "wipe", "unmark", "clone", "install", "mark", "env", "prune", "box"}
OnBox == {"fill"} \union Commands

\* The phase tells where the task is: idle while the server starts, active in a
\* build from its request to its end.
PhaseShape ==
    /\ at \in Boot => phase = "idle"
    /\ at \in Sweeps => phase = "idle" \/ IsActive
    /\ at \in BeforeBox \union OnBox \union {"failed"} => IsActive
    /\ at = "rest" => ~IsActive
    /\ drain # "off" => at \in Commands

\* A marker is of tools that are there.
MarkerShape ==
    /\ legacy.marker => legacy.tools = "whole"
    /\ at = "mark" => tools = "whole"

\* The old install is moved as a whole, unless the move is cut short: what has a
\* marker there is whole, and nothing is in the new place before.
LegacyShape ==
    /\ legacy.marker => (IF legacy.idf = "none" THEN idf ELSE legacy.idf) = "whole" \/ cut
    /\ legacy.idf # "none" => legacy.tools # "none"
    /\ legacy.idf # "none" => idf = "none" \/ at = "copy_idf" \/ cut
    /\ legacy.tools # "none" => tools = "none" \/ at = "copy_tools" \/ cut
    /\ at = "copy_idf" => legacy.idf # "none"
    /\ at = "copy_tools" => legacy.tools # "none"
    /\ at \notin {"move_idf", "copy_idf"} => legacy.idf = "none"
    /\ at \notin Moves => legacy.tools = "none"

\* Whatever counts as provisioned is whole, unless its move was cut short, or a
\* sweep of it was: then it is idle still, and the sweep at the next start gets it.
MarkedIsWhole ==
    IsProvisioned /\ at # "copy_tools" =>
        \/ WholeInstall
        \/ cut
        \/ /\ idle /\ IdleTtl
           /\ at = "sweep_idf" \/ (phase = "idle" /\ at \in Boot \union {"sweep"})

\* What each step of provision() leaves to the next.
ProvisionShape ==
    /\ at = "wipe" => ~HasIdfPy(idf)
    /\ at \in {"unmark", "sweep_tools"} => idf = "none"
    /\ at \in {"clone", "install", "mark"} => ~marker
    /\ at \in {"install", "mark"} => idf = "whole"

IdfInv == LegacyShape /\ MarkedIsWhole /\ ProvisionShape /\ WholeUnlessCut

\* The sandbox of the running build is its own, and has what the steps so far
\* have put into it.
BoxShape ==
    /\ boxes \in [DOMAIN boxes -> Contents]
    /\ DOMAIN boxes \union oldBoxes \union orphans \subseteq 1 .. made
    /\ IsActive /\ at \in BeforeBox \union Sweeps => made < MaxBuilds
    /\ phase # "idle" => request \in Requests
    /\ at \in OnBox => box \in DOMAIN boxes \ orphans
    /\ at = "fill" => boxes[box] = Empty
    /\ at = "target" => boxes[box].key = request.key /\ request.board = "esp32c3"
    /\ at \in {"build", "merge"} => boxes[box].key = request.key /\ boxes[box].chip = request.board

\* The image that is offered is of a sandbox that nothing writes to any more.
ArtifactShape ==
    phase = "done" =>
        /\ at = "rest"
        /\ artifact \in DOMAIN boxes \ orphans
        /\ boxes[artifact] = [key |-> request.key, chip |-> request.board, image |-> TRUE]

\* There is room for the sandbox of a build when it is made.
RoomForBox ==
    at = "box" => Cardinality(DOMAIN boxes \ orphans) <= Keep

BuildInv ==
    /\ FirmwareTypeOK /\ PhaseShape /\ MarkerShape
    /\ BoxShape /\ ArtifactShape
    /\ RoomForBox /\ SandboxesBounded

-----------------------------------------------------------------------------
(* Counting sandboxes.                                                     *)

LEMMA BoxesAreFinite ==
    ASSUME FirmwareTypeOK, BoxShape
    PROVE  /\ IsFiniteSet(DOMAIN boxes) /\ DOMAIN boxes \subseteq Ids
           /\ \A S \in SUBSET DOMAIN boxes : IsFiniteSet(S) /\ Cardinality(S) \in Nat
<1>1. IsFiniteSet(1 .. made)
  BY FS_Interval DEF FirmwareTypeOK
<1>2. DOMAIN boxes \subseteq 1 .. made /\ DOMAIN boxes \subseteq Ids
  BY FirmwareAssumption DEF BoxShape, FirmwareTypeOK, Ids
<1> QED
  BY <1>1, <1>2, FS_Subset, FS_CardinalityType

\* The sandboxes on disk, as the type has them.
LEMMA BoxesTyped ==
    ASSUME NEW f, NEW S \in SUBSET Ids, f \in [S -> Contents]
    PROVE  f \in UNION {[T -> Contents] : T \in SUBSET Ids}
OBVIOUS

\* Fewer than Keep of the sandboxes that are kept are newer than the oldest of them.
LEMMA KeptAreFew ==
    ASSUME FirmwareTypeOK, BoxShape
    PROVE  /\ Kept \subseteq DOMAIN boxes
           /\ Cardinality(Kept) <= Keep
<1> DEFINE young == {b \in DOMAIN boxes : b > aged}
           newer(b) == {c \in young : c > b}
<1>1. Kept = {b \in young : Cardinality(newer(b)) < Keep}
  BY DEF Kept
<1>2. Kept \subseteq DOMAIN boxes /\ Kept \subseteq young /\ Kept \in SUBSET Nat
  BY <1>1, BoxesAreFinite DEF Ids
<1>3. IsFiniteSet(Kept) /\ Cardinality(Kept) \in Nat
  BY <1>2, BoxesAreFinite
<1>4. CASE Kept = {}
  BY <1>2, <1>4, FS_EmptySet, FirmwareAssumption
<1>5. CASE Kept # {}
  <2>1. PICK b \in Kept : \A c \in Kept : ~(<<c, b>> \in OpToRel(<, Nat))
    BY <1>2, <1>5, NatLessThanWellFounded, WFMin, Zenon
  <2>2. \A c \in Kept \ {b} : c > b
    <3>1. \A c \in Kept : c \in Nat /\ b \in Nat /\ ~(c < b)
      BY <1>2, <2>1 DEF OpToRel
    <3>2. \A c, d \in Nat : ~(c < d) /\ c # d => c > d
      OBVIOUS
    <3> QED
      BY <3>1, <3>2, Zenon
  <2>3. Kept \ {b} \subseteq newer(b) /\ newer(b) \in SUBSET DOMAIN boxes
    BY <1>2, <2>2
  <2>4. IsFiniteSet(newer(b)) /\ Cardinality(newer(b)) \in Nat
    BY <2>3, BoxesAreFinite
  <2>5. Cardinality(Kept \ {b}) <= Cardinality(newer(b))
    <3> HIDE DEF newer
    <3> QED
      BY <2>3, <2>4, FS_Subset
  <2>6. Cardinality(Kept \ {b}) = Cardinality(Kept) - 1
    BY <1>3, <2>1, FS_RemoveElement
  <2>7. Cardinality(newer(b)) < Keep
    BY <1>1, <2>1
  <2> HIDE DEF newer
  <2> QED
    BY <1>2, <1>3, <2>4, <2>5, <2>6, <2>7, FirmwareAssumption
<1> QED
  BY <1>4, <1>5

-----------------------------------------------------------------------------
(* The toolchain's steps.                                                  *)

Tooling == {"look", "wipe", "unmark", "clone", "install", "mark"}

\* Where a step of the toolchain may lead.
LEMMA ToolchainMoves ==
    ASSUME Migrate \/ Provision
    PROVE  \/ at \in Moves /\ at' \in Moves \union {"move_builds"} /\ phase' = phase
           \/ at \in Sweeps /\ at' \in Sweeps \union {AfterSweep} /\ phase' = phase
           \/ /\ at \in Tooling /\ at' \in Tooling \union {"env", "failed"}
              /\ phase' \in {phase, "cloning", "installing_toolchain", "provisioning"}
<1>1. CASE Migrate
  BY <1>1 DEF Migrate, MoveIdf, CopyIdf, MoveTools, CopyTools, Moves
<1>2. CASE Sweep \/ SweepIdf \/ SweepTools
  BY <1>2 DEF Sweep, SweepIdf, SweepTools, Sweeps
<1>3. CASE Look \/ Wipe \/ Unmark
  BY <1>3 DEF Look, Wipe, Unmark, Tooling
<1>4. CASE Clone \/ Install \/ Mark
  BY <1>4 DEF Clone, Install, Mark, Tooling
<1> QED
  BY <1>1, <1>2, <1>3, <1>4 DEF Provision

\* The toolchain on disk keeps its shape.
LEMMA ToolchainTyped ==
    ASSUME EspIdfTypeOK, MarkerShape, Migrate \/ Provision
    PROVE  EspIdfTypeOK' /\ MarkerShape'
<1> USE DEF MarkerShape, EspIdfTypeOK, Installs, Trees
<1>0. /\ idf \in Trees /\ tools \in Trees \ {"bare"} /\ marker \in BOOLEAN
      /\ legacy.idf \in Trees /\ legacy.tools \in Trees \ {"bare"} /\ legacy.marker \in BOOLEAN
      /\ legacy = [idf |-> legacy.idf, tools |-> legacy.tools, marker |-> legacy.marker]
  OBVIOUS
<1>1. CASE MoveIdf
  BY <1>0, <1>1 DEF MoveIdf
<1>2. CASE CopyIdf
  BY <1>0, <1>2 DEF CopyIdf
<1>3. CASE MoveTools
  <2>1. CASE /\ legacy' = [legacy EXCEPT !.tools = "none", !.marker = FALSE]
             /\ at' = "move_builds" /\ UNCHANGED <<idf, tools, marker, idle, cut>>
    BY <1>0, <2>1
  <2>2. CASE /\ tools' = "torn" /\ marker' \in {FALSE, legacy.marker}
             /\ idle' \in BOOLEAN /\ at' = "copy_tools" /\ UNCHANGED <<idf, legacy, cut>>
    BY <1>0, <2>2
  <2> QED
    BY <1>3, <2>1, <2>2 DEF MoveTools
<1>4. CASE CopyTools
  BY <1>0, <1>4 DEF CopyTools
<1>5. CASE Sweep \/ SweepIdf \/ SweepTools
  <2>1. CASE Sweep
    BY <1>0, <2>1 DEF Sweep, AfterSweep
  <2>2. CASE SweepIdf
    BY <1>0, <2>2 DEF SweepIdf
  <2>3. CASE SweepTools
    BY <1>0, <2>3 DEF SweepTools, AfterSweep
  <2> QED
    BY <1>5, <2>1, <2>2, <2>3
<1>6. CASE Look \/ Wipe \/ Unmark
  <2>1. CASE Look
    BY <1>0, <2>1 DEF Look, MarkUsed
  <2>2. CASE Wipe
    BY <1>0, <2>2 DEF Wipe
  <2>3. CASE Unmark
    BY <1>0, <2>3 DEF Unmark
  <2> QED
    BY <1>6, <2>1, <2>2, <2>3
<1>7. CASE Clone \/ Install
  <2>1. CASE Clone
    BY <1>0, <2>1 DEF Clone
  <2>2. CASE Install
    BY <1>0, <2>2 DEF Install
  <2> QED
    BY <1>7, <2>1, <2>2
<1>8. CASE Mark
  BY <1>0, <1>8 DEF Mark, MarkUsed
<1> QED
  BY <1>1, <1>2, <1>3, <1>4, <1>5, <1>6, <1>7, <1>8 DEF Migrate, Provision

\* A step of the toolchain concerns neither the request nor the sandboxes.
LEMMA ToolchainKeepsBuild ==
    ASSUME BuildInv, Migrate \/ Provision, UNCHANGED others
    PROVE  BuildInv'
<1> USE DEF BuildInv
<1>1. /\ UNCHANGED <<request, artifact, boxes, hasDir, oldBoxes, box, made, aged, drain, orphans, kills>>
  BY DEF others, stateVars, boxVars, runVars
<1>2. EspIdfTypeOK' /\ MarkerShape'
  BY ToolchainTyped DEF FirmwareTypeOK
<1>3. \/ at \in Moves /\ at' \in Moves \union {"move_builds"} /\ phase' = phase
      \/ at \in Sweeps /\ at' \in Sweeps \union {AfterSweep} /\ phase' = phase
      \/ /\ at \in Tooling /\ at' \in Tooling \union {"env", "failed"}
         /\ phase' \in {phase, "cloning", "installing_toolchain", "provisioning"}
  BY ToolchainMoves
<1>4. CASE at \in Moves /\ at' \in Moves \union {"move_builds"} /\ phase' = phase
  <2> USE <1>4 DEF Moves
  <2>1. FirmwareTypeOK'
    BY <1>1, <1>2 DEF FirmwareTypeOK, Places, Startup, ActivePhases, Ids
  <2>2. PhaseShape' /\ phase' = "idle"
    BY <1>1 DEF PhaseShape, Boot, Startup, Sweeps, BeforeBox, OnBox, Commands, IsActive
  <2>3. BoxShape' /\ ArtifactShape' /\ RoomForBox' /\ SandboxesBounded'
    BY <1>1, <2>2
       DEF BoxShape, ArtifactShape, RoomForBox, SandboxesBounded, Startup, Sweeps, BeforeBox,
           OnBox, Commands, IsActive, ActivePhases
  <2> QED
    BY <1>2, <2>1, <2>2, <2>3
<1>5. CASE at \in Sweeps /\ at' \in Sweeps \union {AfterSweep} /\ phase' = phase
  <2> USE <1>5 DEF Sweeps, AfterSweep
  <2>1. FirmwareTypeOK'
    BY <1>1, <1>2 DEF FirmwareTypeOK, Places, Startup, ActivePhases, Ids
  <2>2. PhaseShape'
    BY <1>1 DEF PhaseShape, Boot, Moves, Startup, BeforeBox, OnBox, Commands, IsActive, ActivePhases
  <2>3. BoxShape' /\ ArtifactShape' /\ RoomForBox' /\ SandboxesBounded'
    BY <1>1
       DEF PhaseShape, BoxShape, ArtifactShape, RoomForBox, SandboxesBounded, Startup, BeforeBox,
           OnBox, Commands, IsActive, ActivePhases
  <2> QED
    BY <1>2, <2>1, <2>2, <2>3
<1>6. CASE /\ at \in Tooling /\ at' \in Tooling \union {"env", "failed"}
           /\ phase' \in {phase, "cloning", "installing_toolchain", "provisioning"}
  <2> USE <1>6 DEF Tooling
  <2>1. FirmwareTypeOK'
    BY <1>1, <1>2 DEF FirmwareTypeOK, Places, Startup, ActivePhases, Ids
  <2>2. PhaseShape' /\ IsActive /\ IsActive'
    BY <1>1 DEF PhaseShape, Boot, Moves, Startup, Sweeps, BeforeBox, OnBox, Commands, IsActive, ActivePhases
  <2>3. BoxShape' /\ ArtifactShape' /\ RoomForBox' /\ SandboxesBounded'
    BY <1>1, <2>2
       DEF BoxShape, ArtifactShape, RoomForBox, SandboxesBounded, Startup, Sweeps, BeforeBox,
           OnBox, Commands, IsActive, ActivePhases
  <2> QED
    BY <1>2, <2>1, <2>2, <2>3
<1> QED
  BY <1>3, <1>4, <1>5, <1>6

-----------------------------------------------------------------------------
(* The initial states.                                                     *)

LEMMA InitBuildInv == Init => BuildInv
<1> SUFFICES ASSUME Init
             PROVE  BuildInv
  OBVIOUS
<1>1. EspIdfTypeOK /\ MarkerShape
  <2>1. \A l \in LegacyInstalls : l \in Installs /\ (l.marker => l.tools = "whole")
    <3> SUFFICES ASSUME NEW l \in LegacyInstalls
                 PROVE  l \in Installs /\ (l.marker => l.tools = "whole")
      OBVIOUS
    <3>1. CASE l = NoInstall
      BY <3>1 DEF NoInstall, Installs, Trees
    <3>2. CASE l = [idf |-> "whole", tools |-> "whole", marker |-> TRUE]
      BY <3>2 DEF Installs, Trees
    <3>3. CASE l = [idf |-> "torn", tools |-> "torn", marker |-> FALSE]
      BY <3>3 DEF Installs, Trees
    <3> QED
      BY <3>1, <3>2, <3>3 DEF LegacyInstalls
  <2>2. [idf |-> "none", tools |-> "none", marker |-> FALSE] \in Installs
    BY DEF Installs, Trees
  <2> QED
    BY <2>1, <2>2 DEF Init, EspIdfInit, EspIdfTypeOK, MarkerShape
<1>2. oldBoxes \in SUBSET (1 .. made) /\ made \in 0 .. MaxBuilds
  <2>1. Cardinality({}) = 0 /\ Cardinality(1 .. OldBuilds) = OldBuilds
    BY FS_EmptySet, FS_Interval, FirmwareAssumption
  <2>2. CASE oldBoxes = {}
    BY <2>1, <2>2, FirmwareAssumption DEF Init
  <2>3. CASE oldBoxes = 1 .. OldBuilds
    BY <2>1, <2>3, FirmwareAssumption DEF Init
  <2> QED
    BY <2>2, <2>3 DEF Init
<1>3. boxes = [b \in {} |-> Empty] /\ DOMAIN boxes = {}
  BY DEF Init
<1>4. FirmwareTypeOK
  <2>1. boxes \in UNION {[T -> Contents] : T \in SUBSET Ids}
    BY <1>3, BoxesTyped
  <2>2. oldBoxes \subseteq Ids /\ 0 \in 0 .. MaxBuilds /\ 0 \in 0 .. MaxKills
    BY <1>2, FirmwareAssumption DEF Ids
  <2>3. at \in Places
    BY DEF Init, EspIdfInit, Places
  <2> QED
    BY <1>1, <1>2, <2>1, <2>2, <2>3 DEF Init, FirmwareTypeOK
<1>5. PhaseShape
  BY DEF Init, EspIdfInit, PhaseShape, Boot, Moves, Startup, Sweeps, BeforeBox, OnBox, Commands
<1>6. BoxShape
  BY <1>2, <1>3
     DEF Init, EspIdfInit, BoxShape, Contents, IsActive, ActivePhases, OnBox, Commands
<1>7. ArtifactShape /\ RoomForBox /\ SandboxesBounded
  BY DEF Init, EspIdfInit, ArtifactShape, RoomForBox, SandboxesBounded
<1> QED
  BY <1>1, <1>4, <1>5, <1>6, <1>7 DEF BuildInv

-----------------------------------------------------------------------------
(* The steps of a build.                                                   *)

\* Sandboxes are only put on disk, or taken off, by the step at hand.
LEMMA StartupKeepsBuild ==
    ASSUME BuildInv, MoveBuilds \/ CopyBuilds
    PROVE  BuildInv'
<1> USE DEF BuildInv
<1>1. /\ at \in {"move_builds", "copy_builds"} /\ at' \in {"copy_builds", "boot_prune"}
      /\ UNCHANGED <<idf, tools, marker, idle, legacy, cut, phase, request, artifact, box, made, aged,
                     drain, orphans, kills>>
      /\ phase = "idle"
  BY DEF MoveBuilds, CopyBuilds, idfVars, stateVars, runVars, PhaseShape, Boot, Startup
<1>2. /\ boxes' \in [DOMAIN boxes' -> Contents] /\ DOMAIN boxes' \subseteq 1 .. made
      /\ oldBoxes' \subseteq oldBoxes /\ hasDir' \in BOOLEAN
  <2>1. Empty \in Contents
    BY DEF Empty, Contents, Boards
  <2>2. CASE MoveBuilds
    BY <2>1, <2>2 DEF MoveBuilds, BoxShape, FirmwareTypeOK
  <2>3. CASE CopyBuilds
    BY <2>1, <2>3 DEF CopyBuilds, BoxShape, FirmwareTypeOK
  <2> QED
    BY <2>2, <2>3
<1>3. BoxShape' /\ ArtifactShape' /\ PhaseShape'
  BY <1>1, <1>2
     DEF BoxShape, ArtifactShape, PhaseShape, Boot, Moves, Startup, Sweeps, BeforeBox, OnBox,
         Commands, IsActive, ActivePhases
<1>4. FirmwareTypeOK'
  <2>1. DOMAIN boxes' \in SUBSET Ids
    BY <1>2, FirmwareAssumption DEF FirmwareTypeOK, Ids
  <2>2. boxes' \in UNION {[T -> Contents] : T \in SUBSET Ids}
    BY <1>2, <2>1, BoxesTyped
  <2> QED
    BY <1>1, <1>2, <2>2 DEF FirmwareTypeOK, EspIdfTypeOK, Places, Startup
<1> QED
  BY <1>1, <1>3, <1>4 DEF MarkerShape, RoomForBox, SandboxesBounded, Startup

\* What is left of the sandboxes is what is kept, and what something writes to.
LEMMA PruneKeepsBuild ==
    ASSUME BuildInv, BootPrune \/ PruneForBuild
    PROVE  BuildInv'
<1> USE DEF BuildInv
<1>1. PICK rest \in SUBSET (orphans \intersect DOMAIN boxes) :
          boxes' = [b \in Kept \union rest |-> boxes[b]]
  BY DEF BootPrune, PruneForBuild, Prune
<1>2. /\ UNCHANGED <<idf, tools, marker, idle, legacy, cut, phase, request, artifact, hasDir, oldBoxes,
                     box, made, aged, drain, orphans, kills>>
      /\ \/ at = "boot_prune" /\ at' = "sweep"
         \/ at = "prune" /\ at' = "box"
  BY DEF BootPrune, PruneForBuild, Prune, idfVars, stateVars, runVars
<1>3. /\ boxes' \in [DOMAIN boxes' -> Contents] /\ DOMAIN boxes' \subseteq DOMAIN boxes
      /\ DOMAIN boxes' \ orphans \subseteq Kept
  BY <1>1, KeptAreFew DEF BoxShape
<1>4. Cardinality(DOMAIN boxes' \ orphans') <= Keep
  <2>1. IsFiniteSet(Kept) /\ Cardinality(Kept) \in Nat
    BY KeptAreFew, BoxesAreFinite
  <2>2. /\ Cardinality(DOMAIN boxes' \ orphans) \in Nat
        /\ Cardinality(DOMAIN boxes' \ orphans) <= Cardinality(Kept)
    BY <1>3, <2>1, FS_Subset, FS_CardinalityType
  <2> QED
    BY <1>2, <2>1, <2>2, KeptAreFew, FirmwareAssumption
<1>5. PhaseShape' /\ ArtifactShape'
  BY <1>2
     DEF PhaseShape, ArtifactShape, Boot, Moves, Startup, Sweeps, BeforeBox, OnBox,
         Commands, IsActive, ActivePhases
<1>6. BoxShape'
  BY <1>2, <1>3
     DEF BoxShape, PhaseShape, Boot, Startup, Sweeps, BeforeBox, OnBox, Commands, IsActive, ActivePhases
<1>7. FirmwareTypeOK'
  <2>1. boxes' \in UNION {[T -> Contents] : T \in SUBSET Ids}
    BY <1>3, BoxesAreFinite, BoxesTyped
  <2> QED
    BY <1>2, <2>1 DEF FirmwareTypeOK, EspIdfTypeOK, Places
<1>8. RoomForBox' /\ SandboxesBounded'
  <2>1. Cardinality(DOMAIN boxes' \ orphans') \in Nat
    BY <1>2, <1>3, BoxesAreFinite
  <2> QED
    BY <1>4, <2>1, FirmwareAssumption DEF RoomForBox, SandboxesBounded
<1> QED
  BY <1>2, <1>5, <1>6, <1>7, <1>8 DEF MarkerShape

\* From the request to the sandbox.
LEMMA StartKeepsBuild ==
    ASSUME BuildInv, NEW r \in Requests, Start(r)
    PROVE  BuildInv' /\ at = "rest"
<1> USE DEF BuildInv
<1>1. at = "rest"
  BY DEF Start, Serving, FirmwareTypeOK, PhaseShape, Places, Boot, Moves, Startup, Sweeps,
         BeforeBox, OnBox, Commands
<1>2. /\ UNCHANGED <<idf, tools, marker, idle, legacy, cut, boxes, hasDir, oldBoxes, box, made, aged,
                     drain, orphans, kills>>
      /\ phase' = "preparing" /\ artifact' = None /\ request' = r /\ at' = "spawn"
      /\ made < MaxBuilds
  BY DEF Start, idfVars, boxVars, runVars
<1>3. FirmwareTypeOK' /\ MarkerShape'
  BY <1>2 DEF FirmwareTypeOK, EspIdfTypeOK, MarkerShape, Places, ActivePhases
<1>4. PhaseShape' /\ ArtifactShape' /\ RoomForBox' /\ SandboxesBounded'
  BY <1>1, <1>2
     DEF PhaseShape, ArtifactShape, RoomForBox, SandboxesBounded, Boot, Moves, Startup, Sweeps,
         BeforeBox, OnBox, Commands, IsActive, ActivePhases
<1>5. BoxShape'
  BY <1>2 DEF BoxShape, OnBox, Commands
<1> QED
  BY <1>1, <1>3, <1>4, <1>5

LEMMA SpawnKeepsBuild ==
    ASSUME BuildInv, Spawn
    PROVE  BuildInv'
<1> USE DEF BuildInv
<1>1. /\ UNCHANGED <<idf, tools, marker, idle, legacy, cut, request, artifact, boxes, hasDir, oldBoxes,
                     box, made, aged, drain, orphans, kills>>
      /\ at = "spawn" /\ at' = "sweep" /\ phase' = "provisioning" /\ IsActive
  BY DEF Spawn, idfVars, stateVars, boxVars, runVars, PhaseShape, BeforeBox
<1>2. FirmwareTypeOK' /\ MarkerShape'
  BY <1>1 DEF FirmwareTypeOK, EspIdfTypeOK, MarkerShape, Places, ActivePhases
<1>3. PhaseShape' /\ ArtifactShape' /\ RoomForBox' /\ SandboxesBounded'
  BY <1>1
     DEF PhaseShape, ArtifactShape, RoomForBox, SandboxesBounded, Boot, Moves, Startup, Sweeps,
         BeforeBox, OnBox, Commands, IsActive, ActivePhases
<1>4. BoxShape'
  BY <1>1 DEF BoxShape, OnBox, Commands, BeforeBox, IsActive, ActivePhases
<1> QED
  BY <1>2, <1>3, <1>4

LEMMA GetEnvKeepsBuild ==
    ASSUME BuildInv, GetEnv
    PROVE  BuildInv'
<1> USE DEF BuildInv
<1>1. /\ UNCHANGED <<idf, tools, marker, idle, legacy, cut, phase, request, artifact, boxes, oldBoxes,
                     box, made, aged, drain, orphans, kills>>
      /\ at = "env" /\ at' \in {"prune", "failed"} /\ IsActive /\ hasDir' \in BOOLEAN
  BY DEF GetEnv, idfVars, stateVars, runVars, PhaseShape, BeforeBox, FirmwareTypeOK
<1>2. FirmwareTypeOK' /\ MarkerShape'
  BY <1>1 DEF FirmwareTypeOK, EspIdfTypeOK, MarkerShape, Places
<1>3. PhaseShape' /\ ArtifactShape' /\ RoomForBox' /\ SandboxesBounded'
  BY <1>1
     DEF PhaseShape, ArtifactShape, RoomForBox, SandboxesBounded, Boot, Moves, Startup, Sweeps,
         BeforeBox, OnBox, Commands, IsActive, ActivePhases
<1>4. BoxShape'
  BY <1>1 DEF BoxShape, OnBox, Commands, BeforeBox, IsActive
<1> QED
  BY <1>2, <1>3, <1>4

\* The new sandbox is nobody else's, and the one more that there may be.
LEMMA MakeBoxKeepsBuild ==
    ASSUME BuildInv, MakeBox
    PROVE  BuildInv'
<1> USE DEF BuildInv
<1>1. /\ UNCHANGED <<idf, tools, marker, idle, legacy, cut, phase, request, artifact, hasDir, oldBoxes,
                     aged, drain, orphans, kills>>
      /\ at = "box" /\ at' = "fill" /\ IsActive
      /\ made' = made + 1 /\ box' = made + 1
      /\ boxes' = [b \in DOMAIN boxes \union {made + 1} |-> IF b = made + 1 THEN Empty ELSE boxes[b]]
  BY DEF MakeBox, FreshBox, idfVars, stateVars, runVars, PhaseShape, BeforeBox
<1>2. made \in Nat /\ made + 1 \in Ids /\ made < MaxBuilds /\ Empty \in Contents
  <2>1. made < MaxBuilds
    BY <1>1 DEF BoxShape, BeforeBox
  <2> QED
    BY <2>1, FirmwareAssumption DEF FirmwareTypeOK, Ids, Empty, Contents, Boards
<1>3. made + 1 \notin DOMAIN boxes /\ made + 1 \notin orphans
  BY <1>2 DEF BoxShape
<1>4. DOMAIN boxes' = DOMAIN boxes \union {made + 1} /\ boxes' \in [DOMAIN boxes' -> Contents]
  BY <1>1, <1>2 DEF BoxShape
<1>5. FirmwareTypeOK'
  <2>1. DOMAIN boxes' \in SUBSET Ids
    BY <1>2, <1>4, BoxesAreFinite
  <2>2. boxes' \in UNION {[T -> Contents] : T \in SUBSET Ids}
    BY <1>4, <2>1, BoxesTyped
  <2>3. made' \in 0 .. MaxBuilds /\ aged \in 0 .. MaxBuilds
    BY <1>1, <1>2, FirmwareAssumption DEF FirmwareTypeOK
  <2> QED
    BY <1>1, <1>2, <2>2, <2>3 DEF FirmwareTypeOK, EspIdfTypeOK, Places
<1>6. BoxShape'
  <2>1. DOMAIN boxes' \union oldBoxes' \union orphans' \subseteq 1 .. made'
    BY <1>1, <1>2, <1>4 DEF BoxShape
  <2>2. box' \in DOMAIN boxes' \ orphans' /\ boxes'[box'] = Empty
    BY <1>1, <1>3, <1>4
  <2> QED
    BY <1>1, <1>4, <2>1, <2>2 DEF BoxShape, Sweeps, BeforeBox
<1>7. Cardinality(DOMAIN boxes' \ orphans') <= Keep + 1
  <2> DEFINE before == DOMAIN boxes \ orphans
  <2>1. IsFiniteSet(before) /\ Cardinality(before) \in Nat /\ Cardinality(before) <= Keep
    BY <1>1, BoxesAreFinite DEF RoomForBox
  <2>2. DOMAIN boxes' \ orphans' = before \union {made + 1} /\ made + 1 \notin before
    BY <1>1, <1>3, <1>4
  <2> HIDE DEF before
  <2>3. Cardinality(before \union {made + 1}) = Cardinality(before) + 1
    BY <2>1, <2>2, FS_AddElement
  <2> QED
    BY <2>1, <2>2, <2>3, FirmwareAssumption
<1>8. PhaseShape' /\ ArtifactShape' /\ RoomForBox' /\ SandboxesBounded' /\ MarkerShape'
  BY <1>1, <1>7
     DEF PhaseShape, ArtifactShape, RoomForBox, SandboxesBounded, MarkerShape, Boot, Moves, Startup,
         Sweeps, BeforeBox, OnBox, Commands, IsActive, ActivePhases
<1> QED
  BY <1>5, <1>6, <1>8

\* The disk is full: the build fails with what it has made so far.
LEMMA DiskIsFullKeepsBuild ==
    ASSUME BuildInv, DiskIsFull
    PROVE  BuildInv'
<1> USE DEF BuildInv
<1>1. /\ UNCHANGED <<idf, tools, marker, idle, legacy, cut, phase, request, artifact, boxes, hasDir,
                     oldBoxes, box, made, aged, drain, orphans, kills>>
      /\ at \in {"unmark", "mark", "box", "fill"} /\ at' = "failed" /\ IsActive
  BY DEF DiskIsFull, idfVars, stateVars, boxVars, runVars, PhaseShape, BeforeBox, OnBox
<1>2. FirmwareTypeOK' /\ MarkerShape'
  BY <1>1 DEF FirmwareTypeOK, EspIdfTypeOK, MarkerShape, Places
<1>3. drain = "off"
  BY <1>1 DEF PhaseShape, Commands
<1>4. PhaseShape' /\ ArtifactShape' /\ RoomForBox' /\ SandboxesBounded'
  BY <1>1, <1>3
     DEF PhaseShape, ArtifactShape, RoomForBox, SandboxesBounded, Boot, Moves, Startup,
         Sweeps, BeforeBox, OnBox, Commands, IsActive, ActivePhases
<1>5. BoxShape'
  BY <1>1 DEF BoxShape, Sweeps, BeforeBox, OnBox, Commands, IsActive, ActivePhases
<1> QED
  BY <1>2, <1>4, <1>5

\* A sandbox on disk is changed by a step of the build it is of: what that step
\* makes of it, and where it leads.
LEMMA BoxChanges ==
    ASSUME BuildInv, NEW content \in Contents, boxes' = [boxes EXCEPT ![box] = content],
           box \in DOMAIN boxes
    PROVE  /\ DOMAIN boxes' = DOMAIN boxes
           /\ boxes' \in [DOMAIN boxes' -> Contents] /\ boxes'[box] = content
           /\ boxes' \in UNION {[T -> Contents] : T \in SUBSET Ids}
<1>1. /\ DOMAIN boxes' = DOMAIN boxes
      /\ boxes' \in [DOMAIN boxes' -> Contents] /\ boxes'[box] = content
  BY DEF BuildInv, BoxShape
<1> QED
  BY <1>1, BoxesAreFinite, BoxesTyped DEF BuildInv

LEMMA FillBoxKeepsBuild ==
    ASSUME BuildInv, FillBox
    PROVE  BuildInv'
<1> USE DEF BuildInv
<1>1. /\ UNCHANGED <<idf, tools, marker, idle, legacy, cut, request, artifact, hasDir, oldBoxes,
                     box, made, aged, orphans, kills>>
      /\ at = "fill" /\ IsActive /\ boxes' = [boxes EXCEPT ![box].key = request.key]
      /\ drain' = phase'
      /\ \/ at' = "target" /\ phase' = "preparing" /\ request.board = "esp32c3"
         \/ at' = "build" /\ phase' = "building" /\ request.board # "esp32c3"
  BY DEF FillBox, Launch, NeedsTarget, idfVars, stateVars, PhaseShape, OnBox
<1>2. /\ box \in DOMAIN boxes /\ box \notin orphans /\ boxes[box] = Empty /\ request \in Requests
  BY <1>1 DEF BoxShape, OnBox, IsActive, ActivePhases
<1> DEFINE content == [boxes[box] EXCEPT !.key = request.key]
<1>3. content \in Contents /\ boxes' = [boxes EXCEPT ![box] = content]
      /\ content.key = request.key /\ content.chip = "esp32"
  <2>1. boxes[box] \in Contents /\ boxes[box].chip = "esp32"
    BY <1>2 DEF Empty, Contents, Boards
  <2> QED
    BY <1>1, <1>2, <2>1 DEF Requests, Contents
<1> HIDE DEF content
<1>4. /\ DOMAIN boxes' = DOMAIN boxes
      /\ boxes' \in [DOMAIN boxes' -> Contents] /\ boxes'[box] = content
      /\ boxes' \in UNION {[T -> Contents] : T \in SUBSET Ids}
  BY <1>2, <1>3, BoxChanges
<1>5. FirmwareTypeOK' /\ MarkerShape'
  BY <1>1, <1>4 DEF FirmwareTypeOK, EspIdfTypeOK, MarkerShape, Places, Commands, ActivePhases
<1>6. PhaseShape' /\ ArtifactShape' /\ RoomForBox' /\ SandboxesBounded'
  BY <1>1, <1>4
     DEF PhaseShape, ArtifactShape, RoomForBox, SandboxesBounded, Boot, Moves, Startup,
         Sweeps, BeforeBox, OnBox, Commands, IsActive, ActivePhases
<1>7. request.board = "esp32c3" \/ request.board = "esp32"
  BY <1>2 DEF Requests, Boards
<1>8. BoxShape'
  BY <1>1, <1>2, <1>3, <1>4, <1>7 DEF BoxShape, Sweeps, BeforeBox, OnBox, Commands
<1> QED
  BY <1>5, <1>6, <1>8

LEMMA TargetKeepsBuild ==
    ASSUME BuildInv, Target
    PROVE  BuildInv'
<1> USE DEF BuildInv
<1>1. /\ UNCHANGED <<idf, tools, marker, idle, legacy, cut, request, artifact, hasDir, oldBoxes,
                     box, made, aged, orphans, kills>>
      /\ at = "target" /\ IsActive /\ boxes' = [boxes EXCEPT ![box].chip = request.board]
      /\ drain' = phase' /\ at' = "build" /\ phase' = "building"
  BY DEF Target, Launch, idfVars, stateVars, PhaseShape, OnBox, Commands
<1>2. /\ box \in DOMAIN boxes /\ box \notin orphans /\ request \in Requests
      /\ boxes[box] \in Contents /\ boxes[box].key = request.key
  BY <1>1 DEF BoxShape, OnBox, Commands, IsActive, ActivePhases
<1> DEFINE content == [boxes[box] EXCEPT !.chip = request.board]
<1>3. content \in Contents /\ boxes' = [boxes EXCEPT ![box] = content]
      /\ content.key = request.key /\ content.chip = request.board
  BY <1>1, <1>2 DEF Requests, Contents
<1> HIDE DEF content
<1>4. /\ DOMAIN boxes' = DOMAIN boxes
      /\ boxes' \in [DOMAIN boxes' -> Contents] /\ boxes'[box] = content
      /\ boxes' \in UNION {[T -> Contents] : T \in SUBSET Ids}
  BY <1>2, <1>3, BoxChanges
<1>5. FirmwareTypeOK' /\ MarkerShape'
  BY <1>1, <1>4 DEF FirmwareTypeOK, EspIdfTypeOK, MarkerShape, Places, Commands, ActivePhases
<1>6. PhaseShape' /\ ArtifactShape' /\ RoomForBox' /\ SandboxesBounded'
  BY <1>1, <1>4
     DEF PhaseShape, ArtifactShape, RoomForBox, SandboxesBounded, Boot, Moves, Startup,
         Sweeps, BeforeBox, OnBox, Commands, IsActive, ActivePhases
<1>7. BoxShape'
  BY <1>1, <1>2, <1>3, <1>4 DEF BoxShape, Sweeps, BeforeBox, OnBox, Commands
<1> QED
  BY <1>5, <1>6, <1>7

LEMMA BuildKeepsBuild ==
    ASSUME BuildInv, Build
    PROVE  BuildInv'
<1> USE DEF BuildInv
<1>1. /\ UNCHANGED <<idf, tools, marker, idle, legacy, cut, request, artifact, boxes, hasDir, oldBoxes,
                     box, made, aged, orphans, kills>>
      /\ at = "build" /\ IsActive /\ drain' = phase' /\ at' = "merge" /\ phase' = "merging"
  BY DEF Build, Launch, idfVars, stateVars, boxVars, PhaseShape, OnBox, Commands
<1>2. FirmwareTypeOK' /\ MarkerShape'
  BY <1>1 DEF FirmwareTypeOK, EspIdfTypeOK, MarkerShape, Places, Commands, ActivePhases
<1>3. PhaseShape' /\ ArtifactShape' /\ RoomForBox' /\ SandboxesBounded'
  BY <1>1
     DEF PhaseShape, ArtifactShape, RoomForBox, SandboxesBounded, Boot, Moves, Startup,
         Sweeps, BeforeBox, OnBox, Commands, IsActive, ActivePhases
<1>4. BoxShape'
  BY <1>1 DEF BoxShape, Sweeps, BeforeBox, OnBox, Commands, IsActive, ActivePhases
<1> QED
  BY <1>2, <1>3, <1>4

\* An image is offered: it has the key and the chip that were asked for.
LEMMA MergeKeepsBuild ==
    ASSUME BuildInv, Merge
    PROVE  BuildInv'
<1> USE DEF BuildInv
<1>1. PICK image \in BOOLEAN :
         /\ boxes' = [boxes EXCEPT ![box].image = image]
         /\ IF image
              THEN /\ phase' = "done"
                   /\ artifact' = box
                   /\ at' = "rest"
              ELSE at' = "failed" /\ UNCHANGED <<phase, artifact>>
  BY DEF Merge
<1>2. /\ UNCHANGED <<idf, tools, marker, idle, legacy, cut, request, hasDir, oldBoxes,
                     box, made, aged, orphans, kills>>
      /\ at = "merge" /\ IsActive /\ drain' = "off"
  BY DEF Merge, DrainEnds, idfVars, PhaseShape, OnBox, Commands
<1>3. /\ box \in DOMAIN boxes /\ box \notin orphans /\ request \in Requests
      /\ boxes[box] \in Contents /\ boxes[box].key = request.key /\ boxes[box].chip = request.board
  BY <1>2 DEF BoxShape, OnBox, Commands, IsActive, ActivePhases
<1> DEFINE content == [key |-> request.key, chip |-> request.board, image |-> image]
<1>4. content \in Contents /\ boxes' = [boxes EXCEPT ![box] = content]
  <2>1. request.key \in Keys /\ request.board \in Boards /\ content \in Contents
    BY <1>3 DEF Requests, Contents
  <2>2. [boxes[box] EXCEPT !.image = image] = content
    BY <1>3 DEF Contents
  <2> QED
    BY <1>1, <2>1, <2>2
<1>5. /\ DOMAIN boxes' = DOMAIN boxes
      /\ boxes' \in [DOMAIN boxes' -> Contents] /\ boxes'[box] = content
      /\ boxes' \in UNION {[T -> Contents] : T \in SUBSET Ids}
  <2> HIDE DEF content
  <2> QED
    BY <1>3, <1>4, BoxChanges
<1>6. FirmwareTypeOK' /\ MarkerShape'
  <2>1. box \in Ids
    BY <1>3, BoxesAreFinite
  <2> QED
    BY <1>1, <1>2, <1>5, <2>1 DEF FirmwareTypeOK, EspIdfTypeOK, MarkerShape, Places
<1>7. PhaseShape' /\ RoomForBox' /\ SandboxesBounded'
  BY <1>1, <1>2, <1>5
     DEF PhaseShape, RoomForBox, SandboxesBounded, Boot, Moves, Startup,
         Sweeps, BeforeBox, OnBox, Commands, IsActive, ActivePhases
<1>8. BoxShape'
  BY <1>1, <1>2, <1>5 DEF BoxShape, Sweeps, BeforeBox, OnBox, Commands, IsActive, ActivePhases
<1>9. ArtifactShape'
  BY <1>1, <1>2, <1>3, <1>5 DEF ArtifactShape, IsActive, ActivePhases
<1> QED
  BY <1>6, <1>7, <1>8, <1>9

\* A command fails: its sandbox may be written to from now on.
LEMMA CommandFailsKeepsBuild ==
    ASSUME BuildInv, CommandFails
    PROVE  BuildInv'
<1> USE DEF BuildInv
<1>1. /\ UNCHANGED <<idf, tools, marker, idle, legacy, cut, phase, request, artifact, boxes, hasDir,
                     oldBoxes, box, made, aged, kills>>
      /\ at \in Commands /\ at' = "failed" /\ drain' = "off" /\ IsActive
      /\ orphans' \in {orphans, orphans \union {box}}
  BY DEF CommandFails, DrainEnds, idfVars, stateVars, boxVars, PhaseShape, OnBox
<1>2. box \in DOMAIN boxes /\ DOMAIN boxes \subseteq Ids
  BY <1>1, BoxesAreFinite DEF BoxShape, OnBox
<1>3. FirmwareTypeOK' /\ MarkerShape'
  BY <1>1, <1>2 DEF FirmwareTypeOK, EspIdfTypeOK, MarkerShape, Places
<1>4. PhaseShape' /\ ArtifactShape' /\ RoomForBox'
  BY <1>1
     DEF PhaseShape, ArtifactShape, RoomForBox, Boot, Moves, Startup,
         Sweeps, BeforeBox, OnBox, Commands, IsActive, ActivePhases
<1>5. BoxShape'
  BY <1>1, <1>2 DEF BoxShape, Sweeps, BeforeBox, OnBox, Commands, IsActive, ActivePhases
<1>6. SandboxesBounded'
  <2>1. Cardinality(DOMAIN boxes \ orphans) <= Keep + 1
    BY <1>1 DEF SandboxesBounded, Startup, Commands
  <2>2. /\ DOMAIN boxes' \ orphans' \subseteq DOMAIN boxes \ orphans
        /\ IsFiniteSet(DOMAIN boxes \ orphans)
        /\ Cardinality(DOMAIN boxes \ orphans) \in Nat
        /\ Cardinality(DOMAIN boxes' \ orphans') \in Nat
    BY <1>1, BoxesAreFinite
  <2>3. Cardinality(DOMAIN boxes' \ orphans') <= Cardinality(DOMAIN boxes \ orphans)
    BY <2>2, FS_Subset
  <2> QED
    BY <2>1, <2>2, <2>3, FirmwareAssumption DEF SandboxesBounded
<1> QED
  BY <1>3, <1>4, <1>5, <1>6

LEMMA BuildFailsKeepsBuild ==
    ASSUME BuildInv, BuildFails
    PROVE  BuildInv'
<1> USE DEF BuildInv
<1>1. /\ UNCHANGED <<idf, tools, marker, idle, legacy, cut, request, artifact, boxes, hasDir, oldBoxes,
                     box, made, aged, drain, orphans, kills>>
      /\ at = "failed" /\ at' = "rest" /\ phase' = "error" /\ IsActive
  BY DEF BuildFails, idfVars, stateVars, boxVars, runVars, PhaseShape
<1>2. FirmwareTypeOK' /\ MarkerShape'
  BY <1>1 DEF FirmwareTypeOK, EspIdfTypeOK, MarkerShape, Places
<1>3. PhaseShape' /\ ArtifactShape' /\ RoomForBox' /\ SandboxesBounded'
  BY <1>1
     DEF PhaseShape, ArtifactShape, RoomForBox, SandboxesBounded, Boot, Moves, Startup,
         Sweeps, BeforeBox, OnBox, Commands, IsActive, ActivePhases
<1>4. BoxShape'
  BY <1>1 DEF BoxShape, Sweeps, BeforeBox, OnBox, Commands, IsActive, ActivePhases
<1> QED
  BY <1>2, <1>3, <1>4

\* A line of progress comes only while its command runs.
LEMMA ProgressKeepsBuild ==
    ASSUME BuildInv, Progress
    PROVE  BuildInv' /\ IsActive /\ IsActive' /\ at \in Commands
<1> USE DEF BuildInv
<1>1. /\ UNCHANGED <<idf, tools, marker, idle, legacy, cut, at, request, artifact, boxes, hasDir,
                     oldBoxes, box, made, aged, drain, orphans, kills>>
      /\ at \in Commands /\ IsActive /\ phase' = drain /\ IsActive'
  BY DEF Progress, idfVars, stateVars, boxVars, runVars, PhaseShape, OnBox, FirmwareTypeOK, IsActive
<1>2. FirmwareTypeOK' /\ MarkerShape'
  BY <1>1 DEF FirmwareTypeOK, EspIdfTypeOK, MarkerShape, IsActive
<1>3. PhaseShape' /\ ArtifactShape' /\ RoomForBox' /\ SandboxesBounded'
  BY <1>1
     DEF PhaseShape, ArtifactShape, RoomForBox, SandboxesBounded, Boot, Moves, Startup,
         Sweeps, BeforeBox, OnBox, Commands, IsActive, ActivePhases
<1>4. BoxShape'
  BY <1>1 DEF BoxShape, Sweeps, BeforeBox, OnBox, Commands, IsActive, ActivePhases
<1> QED
  BY <1>1, <1>2, <1>3, <1>4

\* What an orphan writes is not the running build's, and not what is offered.
LEMMA OrphanWritesKeepsBuild ==
    ASSUME BuildInv, OrphanWrites
    PROVE  /\ BuildInv'
           /\ UNCHANGED <<phase, request, artifact>>
           /\ phase = "done" => artifact \in DOMAIN boxes' /\ boxes'[artifact] = boxes[artifact]
<1> USE DEF BuildInv
<1>1. PICK b \in orphans \intersect DOMAIN boxes :
         boxes' = [boxes EXCEPT ![b].key = None, ![b].image = FALSE]
  BY DEF OrphanWrites
<1>2. /\ UNCHANGED <<idf, tools, marker, idle, legacy, cut, at, phase, request, artifact, hasDir, oldBoxes,
                     box, made, aged, drain, orphans, kills>>
  BY DEF OrphanWrites, idfVars, stateVars, runVars
<1>3. /\ DOMAIN boxes' = DOMAIN boxes /\ boxes' \in [DOMAIN boxes' -> Contents]
      /\ \A c \in DOMAIN boxes \ orphans : boxes'[c] = boxes[c]
  <2>1. boxes \in [DOMAIN boxes -> Contents]
    BY DEF BoxShape
  <2>2. boxes[b] \in Contents
    BY <2>1
  <2>3. [[boxes[b] EXCEPT !.key = None] EXCEPT !.image = FALSE] \in Contents
    BY <2>2 DEF Contents
  <2>4. boxes' = [boxes EXCEPT ![b] = [[boxes[b] EXCEPT !.key = None] EXCEPT !.image = FALSE]]
    BY <1>1, <2>1
  <2> QED
    BY <2>1, <2>3, <2>4
<1>4. FirmwareTypeOK'
  <2>1. boxes' \in UNION {[T -> Contents] : T \in SUBSET Ids}
    BY <1>3, BoxesAreFinite, BoxesTyped
  <2> QED
    BY <1>2, <2>1 DEF FirmwareTypeOK, EspIdfTypeOK
<1>5. BoxShape'
  BY <1>2, <1>3 DEF BoxShape, IsActive, OnBox, Commands
<1>6. PhaseShape' /\ ArtifactShape' /\ RoomForBox' /\ SandboxesBounded' /\ MarkerShape'
  BY <1>2, <1>3
     DEF PhaseShape, ArtifactShape, RoomForBox, SandboxesBounded, MarkerShape, IsActive
<1> QED
  BY <1>2, <1>3, <1>4, <1>5, <1>6 DEF ArtifactShape

LEMMA AgesKeepsBuild ==
    ASSUME BuildInv, Ages
    PROVE  BuildInv'
<1> USE DEF BuildInv
<1>1. /\ UNCHANGED <<idf, tools, marker, idle, legacy, cut, at, phase, request, artifact, boxes, hasDir,
                     oldBoxes, box, made, drain, orphans, kills>>
      /\ aged' \in 0 .. MaxBuilds
  BY FirmwareAssumption DEF Ages, idfVars, stateVars, boxVars, runVars, FirmwareTypeOK
<1>2. FirmwareTypeOK' /\ MarkerShape' /\ PhaseShape'
  BY <1>1 DEF FirmwareTypeOK, EspIdfTypeOK, MarkerShape, PhaseShape, IsActive
<1> QED
  BY <1>1, <1>2 DEF BoxShape, ArtifactShape, RoomForBox, SandboxesBounded, IsActive

\* The server is started again: nothing of its memory is left.
LEMMA KillKeepsBuild ==
    ASSUME BuildInv, Kill
    PROVE  BuildInv'
<1> USE DEF BuildInv
<1>1. /\ UNCHANGED <<idf, tools, marker, idle, legacy, boxes, hasDir, oldBoxes, made, aged>>
      /\ cut' \in BOOLEAN
      /\ at' = "move_idf" /\ phase' = "idle" /\ request' = None /\ artifact' = None
      /\ box' = None /\ drain' = "off" /\ orphans' = {} /\ kills' \in 0 .. MaxKills
  BY FirmwareAssumption DEF Kill, FirmwareTypeOK, EspIdfTypeOK
<1>2. FirmwareTypeOK' /\ MarkerShape'
  BY <1>1 DEF FirmwareTypeOK, EspIdfTypeOK, MarkerShape, Places
<1>3. PhaseShape' /\ ArtifactShape' /\ RoomForBox' /\ SandboxesBounded'
  BY <1>1
     DEF PhaseShape, ArtifactShape, RoomForBox, SandboxesBounded, Moves, Startup,
         Sweeps, BeforeBox, OnBox, Commands
<1>4. BoxShape'
  BY <1>1 DEF BoxShape, IsActive, ActivePhases, OnBox, Commands
<1> QED
  BY <1>2, <1>3, <1>4

LEMMA GoesIdleKeepsBuild ==
    ASSUME BuildInv, GoesIdle, UNCHANGED others
    PROVE  BuildInv'
<1> USE DEF BuildInv
<1>1. /\ UNCHANGED <<idf, tools, marker, legacy, cut, at, phase, request, artifact, boxes, hasDir,
                     oldBoxes, box, made, aged, drain, orphans, kills>>
      /\ idle' \in BOOLEAN
  BY DEF GoesIdle, others, stateVars, boxVars, runVars
<1>2. FirmwareTypeOK' /\ MarkerShape' /\ PhaseShape'
  BY <1>1 DEF FirmwareTypeOK, EspIdfTypeOK, MarkerShape, PhaseShape, IsActive
<1> QED
  BY <1>1, <1>2 DEF BoxShape, ArtifactShape, RoomForBox, SandboxesBounded, IsActive

LEMMA StutterKeepsBuild ==
    ASSUME BuildInv, UNCHANGED vars
    PROVE  BuildInv'
<1> USE DEF BuildInv
<1>1. /\ UNCHANGED <<idf, tools, marker, idle, legacy, cut, at, phase, request, artifact, boxes, hasDir,
                     oldBoxes, box, made, aged, drain, orphans, kills>>
  BY DEF vars, idfVars, stateVars, boxVars, runVars
<1>2. FirmwareTypeOK' /\ MarkerShape' /\ PhaseShape'
  BY <1>1 DEF FirmwareTypeOK, EspIdfTypeOK, MarkerShape, PhaseShape, IsActive
<1> QED
  BY <1>1, <1>2 DEF BoxShape, ArtifactShape, RoomForBox, SandboxesBounded, IsActive

LEMMA BuildInvInductive == BuildInv /\ [Next]_vars => BuildInv'
<1> SUFFICES ASSUME BuildInv, [Next]_vars
             PROVE  BuildInv'
  OBVIOUS
<1>1. CASE (Migrate \/ Provision) /\ UNCHANGED others
  BY <1>1, ToolchainKeepsBuild
<1>2. CASE MoveBuilds \/ CopyBuilds
  BY <1>2, StartupKeepsBuild
<1>3. CASE BootPrune \/ PruneForBuild
  BY <1>3, PruneKeepsBuild
<1>4. CASE Spawn \/ GetEnv \/ MakeBox \/ FillBox \/ DiskIsFull
  BY <1>4, SpawnKeepsBuild, GetEnvKeepsBuild, MakeBoxKeepsBuild, FillBoxKeepsBuild,
     DiskIsFullKeepsBuild
<1>5. CASE Target \/ Build \/ Merge \/ CommandFails \/ BuildFails
  BY <1>5, TargetKeepsBuild, BuildKeepsBuild, MergeKeepsBuild, CommandFailsKeepsBuild,
     BuildFailsKeepsBuild
<1>6. CASE \E r \in Requests : Start(r)
  BY <1>6, StartKeepsBuild
<1>7. CASE Progress \/ OrphanWrites \/ Ages \/ Kill
  BY <1>7, ProgressKeepsBuild, OrphanWritesKeepsBuild, AgesKeepsBuild, KillKeepsBuild
<1>8. CASE GoesIdle /\ UNCHANGED others
  BY <1>8, GoesIdleKeepsBuild
<1>9. CASE UNCHANGED vars
  BY <1>9, StutterKeepsBuild
<1> QED
  BY <1>1, <1>2, <1>3, <1>4, <1>5, <1>6, <1>7, <1>8, <1>9 DEF Next, Step

LEMMA BuildInvHolds == Spec => []BuildInv
BY InitBuildInv, BuildInvInductive, PTL DEF Spec

\* The builds, their sandboxes and the toolchain keep their type.
THEOREM FirmwareTypesHold == Spec => []FirmwareTypeOK
<1>1. BuildInv => FirmwareTypeOK
  BY DEF BuildInv
<1> QED
  BY <1>1, BuildInvHolds, PTL

\* The disk does not fill up: apart from what something still writes to, a
\* serving process has at most one sandbox more than it is told to keep,
\* however many builds, failures and restarts there were.
THEOREM SandboxesBoundedHolds == Spec => []SandboxesBounded
<1>1. BuildInv => SandboxesBounded
  BY DEF BuildInv
<1> QED
  BY <1>1, BuildInvHolds, PTL

-----------------------------------------------------------------------------
(* The toolchain of a build.                                               *)

LEMMA InitIdfInv == Init => IdfInv
<1> SUFFICES ASSUME Init
             PROVE  IdfInv
  OBVIOUS
<1>1. /\ idf = "none" /\ tools = "none" /\ marker = FALSE /\ at = "move_idf" /\ ~cut
      /\ legacy \in LegacyInstalls
  BY DEF Init, EspIdfInit
<1>2. /\ legacy.marker => legacy.idf = "whole"
      /\ legacy.idf # "none" => legacy.tools # "none"
  <2>1. CASE legacy = NoInstall
    BY <2>1 DEF NoInstall
  <2>2. CASE legacy = [idf |-> "whole", tools |-> "whole", marker |-> TRUE]
    BY <2>2
  <2>3. CASE legacy = [idf |-> "torn", tools |-> "torn", marker |-> FALSE]
    BY <2>3
  <2> QED
    BY <1>1, <2>1, <2>2, <2>3 DEF LegacyInstalls
<1> QED
  BY <1>1, <1>2
     DEF IdfInv, LegacyShape, MarkedIsWhole, ProvisionShape, WholeUnlessCut, WholeInstall, OnInstall, IsProvisioned,
         Moves, Commands

\* The old install is copied, or dropped, as a whole.
LEMMA MigrateKeepsIdf ==
    ASSUME BuildInv, IdfInv, Migrate
    PROVE  IdfInv'
<1> USE DEF BuildInv, IdfInv
<1>1. /\ marker => tools # "none"
      /\ legacy.marker => legacy.tools = "whole"
      /\ at \in Moves => phase = "idle"
      /\ legacy = [idf |-> legacy.idf, tools |-> legacy.tools, marker |-> legacy.marker]
      /\ legacy.marker \in BOOLEAN
  BY DEF FirmwareTypeOK, EspIdfTypeOK, Installs, MarkerShape, PhaseShape, Boot
<1>2. at \in Moves /\ at' \in Moves \union {"move_builds"} /\ phase' = phase
  BY DEF Migrate, MoveIdf, CopyIdf, MoveTools, CopyTools, Moves
<1>3. ProvisionShape' /\ WholeUnlessCut' /\ cut' = cut
  BY <1>2
     DEF Migrate, MoveIdf, CopyIdf, MoveTools, CopyTools, Moves, ProvisionShape, WholeUnlessCut,
         OnInstall, Commands
<1>4. CASE MoveIdf
  <2>1. CASE /\ legacy.idf = "none" \/ idf # "none"
             /\ legacy' = [legacy EXCEPT !.idf = "none"]
             /\ at' = "move_tools" /\ UNCHANGED idf
    <3>1. legacy.idf = "none" \/ cut
      BY <1>4, <2>1 DEF MoveIdf, LegacyShape
    <3>2. legacy'.idf = "none" /\ legacy'.tools = legacy.tools /\ legacy'.marker = legacy.marker
      BY <1>1, <2>1
    <3> QED
      BY <1>1, <1>2, <1>3, <1>4, <2>1, <3>1, <3>2
         DEF MoveIdf, LegacyShape, MarkedIsWhole, WholeInstall, IsProvisioned, Moves, Boot
  <2>2. CASE /\ legacy.idf # "none" /\ idf = "none" /\ idf' \in {"bare", "torn"}
             /\ at' = "copy_idf" /\ UNCHANGED legacy
    BY <1>1, <1>2, <1>3, <1>4, <2>2
       DEF MoveIdf, LegacyShape, MarkedIsWhole, WholeInstall, IsProvisioned, Moves, Boot
  <2> QED
    BY <1>4, <2>1, <2>2 DEF MoveIdf
<1>5. CASE CopyIdf
  <2>1. legacy'.idf = "none" /\ legacy'.tools = legacy.tools /\ legacy'.marker = legacy.marker
    BY <1>1, <1>5 DEF CopyIdf
  <2> QED
    BY <1>1, <1>2, <1>3, <1>5, <2>1
       DEF CopyIdf, LegacyShape, MarkedIsWhole, WholeInstall, IsProvisioned, Moves, Boot
<1>6. CASE MoveTools
  <2>1. CASE /\ legacy.tools = "none" \/ tools # "none"
             /\ legacy' = [legacy EXCEPT !.tools = "none", !.marker = FALSE]
             /\ at' = "move_builds" /\ UNCHANGED <<tools, marker, idle>>
    <3>1. legacy'.idf = legacy.idf /\ legacy'.tools = "none" /\ legacy'.marker = FALSE
      BY <1>1, <2>1
    <3> QED
      BY <1>1, <1>2, <1>3, <1>6, <2>1, <3>1
         DEF MoveTools, LegacyShape, MarkedIsWhole, WholeInstall, IsProvisioned, Moves, Boot, Startup
  <2>2. CASE /\ legacy.tools # "none" /\ tools = "none" /\ tools' = "torn"
             /\ marker' \in {FALSE, legacy.marker} /\ idle' \in BOOLEAN
             /\ at' = "copy_tools" /\ UNCHANGED legacy
    BY <1>1, <1>2, <1>3, <1>6, <2>2
       DEF MoveTools, LegacyShape, MarkedIsWhole, WholeInstall, IsProvisioned, Moves
  <2> QED
    BY <1>6, <2>1, <2>2 DEF MoveTools
<1>7. CASE CopyTools
  <2>1. legacy'.idf = legacy.idf /\ legacy'.tools = "none" /\ legacy'.marker = FALSE
    BY <1>1, <1>7 DEF CopyTools
  <2> QED
    BY <1>1, <1>2, <1>3, <1>7, <2>1
       DEF CopyTools, LegacyShape, MarkedIsWhole, WholeInstall, IsProvisioned, Moves, Boot, Startup
<1> QED
  BY <1>4, <1>5, <1>6, <1>7 DEF Migrate

\* The marker goes before what it is of is touched, and comes when that is done;
\* a sweep starts with the tree, but only of what the next start would sweep.
LEMMA ProvisionKeepsIdf ==
    ASSUME BuildInv, IdfInv, Provision
    PROVE  IdfInv'
<1> USE DEF BuildInv, IdfInv, LegacyShape, MarkedIsWhole, ProvisionShape, IsProvisioned, HasIdfPy,
            WholeUnlessCut, WholeInstall, OnInstall, Moves, Commands
<1>1. /\ legacy.idf = "none" /\ legacy.tools = "none" /\ ~legacy.marker
      /\ at \notin Moves
  BY DEF Provision, Sweep, SweepIdf, SweepTools, Look, Wipe, Unmark, Clone, Install, Mark,
         MarkerShape
<1>2. CASE Sweep
  BY <1>1, <1>2 DEF Sweep, AfterSweep, IsStale
<1>3. CASE SweepIdf
  BY <1>1, <1>3 DEF SweepIdf
<1>4. CASE SweepTools
  BY <1>1, <1>4 DEF SweepTools, AfterSweep
<1>5. CASE Look
  BY <1>1, <1>5 DEF Look, MarkUsed, Boot, Startup, PhaseShape
<1>6. CASE Wipe
  BY <1>1, <1>6 DEF Wipe
<1>7. CASE Unmark
  BY <1>1, <1>7 DEF Unmark
<1>8. CASE Clone
  BY <1>1, <1>8 DEF Clone
<1>9. CASE Install
  BY <1>1, <1>9 DEF Install
<1>10. CASE Mark
  BY <1>1, <1>10 DEF Mark, MarkUsed, MarkerShape
<1> QED
  BY <1>2, <1>3, <1>4, <1>5, <1>6, <1>7, <1>8, <1>9, <1>10 DEF Provision

\* The steps of a build only read the toolchain; a server that is killed finds it
\* as it was, and a move it was at is cut short.
LEMMA BuildKeepsIdf ==
    ASSUME BuildInv, IdfInv,
           \/ MoveBuilds \/ CopyBuilds \/ BootPrune
           \/ Spawn \/ GetEnv \/ PruneForBuild \/ MakeBox \/ FillBox \/ DiskIsFull
           \/ Target \/ Build \/ Merge \/ CommandFails \/ BuildFails
           \/ \E r \in Requests : Start(r)
           \/ Progress \/ OrphanWrites \/ Ages \/ Kill
    PROVE  IdfInv'
<1> USE DEF BuildInv, IdfInv, WholeInstall, OnInstall
<1>0. UNCHANGED <<idf, tools, marker, idle, legacy>> /\ (cut' = cut \/ Kill)
  BY DEF MoveBuilds, CopyBuilds, BootPrune, Prune, Spawn, GetEnv, PruneForBuild, MakeBox, FillBox,
         DiskIsFull, Target, Build, Merge, CommandFails, BuildFails, Start, Progress, OrphanWrites,
         Ages, Kill, idfVars
<1>1. CASE /\ at \in Startup /\ at' \in Startup \union {"sweep"}
           /\ phase = "idle" /\ phase' = phase /\ cut' = cut
  BY <1>0, <1>1
     DEF LegacyShape, MarkedIsWhole, ProvisionShape, WholeUnlessCut, IsProvisioned, Boot, Moves,
         Startup, Commands
<1>2. CASE at' = at /\ (phase' = phase \/ at \in Commands) /\ cut' = cut
  BY <1>0, <1>2
     DEF LegacyShape, MarkedIsWhole, ProvisionShape, WholeUnlessCut, IsProvisioned, Boot, Moves,
         Startup, Commands
<1>3. CASE /\ at \notin Boot \union Sweeps /\ cut' = cut
           /\ \/ at' \in {"rest", "failed", "spawn", "sweep"}
              \/ at' \in {"prune", "box", "fill"} \union Commands /\ (WholeInstall \/ cut)
  BY <1>0, <1>3
     DEF LegacyShape, MarkedIsWhole, ProvisionShape, WholeUnlessCut, IsProvisioned, Boot, Moves,
         Startup, Sweeps, Commands
<1>4. CASE /\ at' = "move_idf" /\ phase' = "idle"
           /\ cut' = (cut \/ at \in {"copy_idf", "copy_tools"})
  BY <1>0, <1>4
     DEF LegacyShape, MarkedIsWhole, ProvisionShape, WholeUnlessCut, IsProvisioned, Boot, Moves,
         Commands
<1>5. ASSUME MoveBuilds \/ CopyBuilds \/ BootPrune
      PROVE  IdfInv'
  <2>1. /\ at \in Startup /\ at' \in Startup \union {"sweep"}
        /\ phase = "idle" /\ phase' = phase /\ cut' = cut
    BY <1>5 DEF MoveBuilds, CopyBuilds, BootPrune, Prune, Startup, PhaseShape, Boot, idfVars
  <2> QED
    BY <1>1, <2>1
<1>6. ASSUME Progress \/ OrphanWrites \/ Ages
      PROVE  IdfInv'
  <2>1. at' = at /\ (phase' = phase \/ at \in Commands) /\ cut' = cut
    BY <1>6, ProgressKeepsBuild DEF Progress, OrphanWrites, Ages, idfVars
  <2> QED
    BY <1>2, <2>1
<1>7. ASSUME \/ Spawn \/ GetEnv \/ PruneForBuild \/ MakeBox \/ FillBox \/ DiskIsFull
             \/ Target \/ Build \/ Merge \/ CommandFails \/ BuildFails
      PROVE  IdfInv'
  <2>1. at \notin Boot \union Sweeps /\ cut' = cut
    BY <1>7
       DEF Spawn, GetEnv, PruneForBuild, Prune, MakeBox, FillBox, DiskIsFull, Target, Build, Merge,
           CommandFails, BuildFails, Boot, Moves, Startup, Sweeps, Commands, idfVars
  <2>2. ASSUME PruneForBuild \/ MakeBox \/ FillBox \/ Target \/ Build
        PROVE  at' \in {"prune", "box", "fill"} \union Commands /\ (WholeInstall \/ cut)
    BY <2>2
       DEF PruneForBuild, Prune, MakeBox, FillBox, Target, Build, Launch, WholeUnlessCut, Commands
  <2>3. ASSUME Spawn \/ GetEnv \/ DiskIsFull \/ Merge \/ CommandFails \/ BuildFails
        PROVE  \/ at' \in {"rest", "failed", "spawn", "sweep"}
               \/ at' \in {"prune", "box", "fill"} \union Commands /\ (WholeInstall \/ cut)
    BY <2>3 DEF Spawn, GetEnv, DiskIsFull, Merge, CommandFails, BuildFails
  <2> QED
    BY <1>3, <1>7, <2>1, <2>2, <2>3
<1>8. ASSUME NEW r \in Requests, Start(r)
      PROVE  IdfInv'
  <2>1. at = "rest" /\ at' = "spawn" /\ cut' = cut
    BY <1>8, StartKeepsBuild DEF Start, idfVars
  <2> QED
    BY <1>3, <2>1 DEF Boot, Moves, Startup, Sweeps
<1>9. ASSUME Kill
      PROVE  IdfInv'
  BY <1>4, <1>9 DEF Kill
<1> QED
  BY <1>5, <1>6, <1>7, <1>8, <1>9

LEMMA IdfInvInductive == BuildInv /\ IdfInv /\ [Next]_vars => IdfInv'
<1> SUFFICES ASSUME BuildInv, IdfInv, [Next]_vars
             PROVE  IdfInv'
  OBVIOUS
<1>1. CASE (Migrate \/ Provision) /\ UNCHANGED others
  BY <1>1, MigrateKeepsIdf, ProvisionKeepsIdf
<1>2. CASE GoesIdle \/ UNCHANGED vars
  <2>1. /\ UNCHANGED <<idf, tools, marker, legacy, cut, at, phase>>
        /\ idle => idle'
    BY <1>2 DEF GoesIdle, vars, idfVars
  <2> QED
    BY <2>1
       DEF IdfInv, LegacyShape, MarkedIsWhole, ProvisionShape, WholeUnlessCut, WholeInstall, OnInstall,
           IsProvisioned
<1>3. CASE ~UNCHANGED vars /\ ~GoesIdle /\ ~((Migrate \/ Provision) /\ UNCHANGED others)
  BY <1>3, BuildKeepsIdf DEF Next, Step
<1> QED
  BY <1>1, <1>2, <1>3

\* A build takes its environment and its commands from a complete install,
\* whatever clones, installs and sweeps were cut short before, by a failure or
\* by the end of the process at any step; unless a migration was cut short and
\* what it left has not been provisioned anew.
THEOREM WholeUnlessCutHolds == Spec => []WholeUnlessCut
<1>1. Init => BuildInv /\ IdfInv
  BY InitBuildInv, InitIdfInv
<1>2. BuildInv /\ IdfInv /\ [Next]_vars => (BuildInv /\ IdfInv)'
  BY BuildInvInductive, IdfInvInductive
<1>3. IdfInv => WholeUnlessCut
  BY DEF IdfInv
<1> QED
  BY <1>1, <1>2, <1>3, PTL DEF Spec

-----
(* The builds implement BuildJob.                                          *)

\* What the page shows, and what a download gets, of the phase.
ShownOfPhase ==
    /\ phase \in {"idle", "done", "error"} \/ IsActive
    /\ phase = "idle" => Status = "none"
    /\ IsActive => Status = "active" /\ phase # "done"
    /\ phase = "done" => Status = "done" /\ Served = request
    /\ phase = "error" => Status = "failed"
    /\ phase # "done" => Served = None

LEMMA PhaseIsShown == BuildInv => ShownOfPhase
<1> SUFFICES ASSUME BuildInv
             PROVE  ShownOfPhase
  OBVIOUS
<1>1. /\ phase = "idle" => Status = "none"
      /\ IsActive => Status = "active" /\ phase # "done"
      /\ phase = "done" => Status = "done"
      /\ phase = "error" => Status = "failed"
  BY DEF Status, IsActive, ActivePhases
<1>2. phase # "done" => Served = None
  BY DEF Served
<1>3. ASSUME phase = "done"
      PROVE  Served = request
  <2>1. /\ artifact \in DOMAIN boxes /\ request \in Requests
        /\ boxes[artifact] = [key |-> request.key, chip |-> request.board, image |-> TRUE]
    BY <1>3 DEF BuildInv, ArtifactShape, BoxShape
  <2>2. Served = [key |-> request.key, board |-> request.board]
    BY <1>3, <2>1 DEF Served
  <2> QED
    BY <2>1, <2>2 DEF Requests
<1>4. phase \in {"idle", "done", "error"} \/ IsActive
  BY DEF BuildInv, FirmwareTypeOK, IsActive
<1> QED
  BY <1>1, <1>2, <1>3, <1>4 DEF ShownOfPhase

LEMMA PhaseIsShownNext == BuildInv' => ShownOfPhase'
  BY PhaseIsShown, PTL

\* A step that ends no build and begins none is not seen.
LEMMA UnseenSteps ==
    ASSUME BuildInv, BuildInv', request' = request,
           phase' = phase \/ (IsActive /\ IsActive')
    PROVE  UNCHANGED <<Status, request, Served>>
<1>1. ShownOfPhase /\ ShownOfPhase'
  BY PhaseIsShown, PhaseIsShownNext
<1> QED
  BY <1>1 DEF ShownOfPhase, IsActive

\* A step of the toolchain is of a server that starts, or of a build.
LEMMA ToolchainIsUnseen ==
    ASSUME BuildInv, BuildInv', Migrate \/ Provision, UNCHANGED others
    PROVE  UNCHANGED <<Status, request, Served>>
<1>1. phase' = phase \/ (IsActive /\ IsActive')
  <2>1. CASE at \in Tooling /\ phase' \in {phase, "cloning", "installing_toolchain", "provisioning"}
    BY <2>1 DEF BuildInv, PhaseShape, Tooling, BeforeBox, IsActive, ActivePhases
  <2> QED
    BY <2>1, ToolchainMoves
<1>2. request' = request
  BY DEF others, stateVars
<1> QED
  BY <1>1, <1>2, UnseenSteps

\* Each step is one of BuildJob, or not seen.
LEMMA StepsOfBuildJob ==
    ASSUME BuildInv, BuildInv', [Next]_vars
    PROVE  [Job!Next]_(Job!vars)
<1> USE DEF BuildInv
<1>1. ShownOfPhase /\ ShownOfPhase'
  BY PhaseIsShown, PhaseIsShownNext
<1>2. SUFFICES Job!Next \/ UNCHANGED <<Status, request, Served>>
  BY DEF Job!vars
<1>3. ASSUME NEW r \in Requests, Start(r)
      PROVE  Job!Start(r)
  <2>1. ~IsActive /\ IsActive' /\ request' = r
    BY <1>3 DEF Start, IsActive, ActivePhases
  <2> QED
    BY <1>1, <2>1 DEF ShownOfPhase, Job!Start
<1>4. ASSUME Merge
      PROVE  Job!Finish \/ UNCHANGED <<Status, request, Served>>
  <2>1. IsActive /\ request' = request /\ (phase' = "done" \/ phase' = phase)
    BY <1>4 DEF Merge, PhaseShape, OnBox, Commands
  <2>2. CASE phase' = "done"
    BY <1>1, <2>1, <2>2 DEF ShownOfPhase, Job!Finish
  <2>3. CASE phase' = phase
    BY <2>1, <2>3, UnseenSteps
  <2> QED
    BY <2>1, <2>2, <2>3
<1>5. ASSUME BuildFails
      PROVE  Job!Fail
  <2>1. IsActive /\ request' = request /\ phase' = "error"
    BY <1>5 DEF BuildFails, stateVars, PhaseShape
  <2> QED
    BY <1>1, <2>1 DEF ShownOfPhase, Job!Fail
<1>6. ASSUME Kill
      PROVE  Job!Restart
  BY <1>1, <1>6 DEF Kill, ShownOfPhase, Job!Restart
<1>7. ASSUME Spawn \/ Progress \/ (FillBox \/ Target \/ Build)
      PROVE  UNCHANGED <<Status, request, Served>>
  <2>1. request' = request
    BY <1>7 DEF Spawn, Progress, FillBox, Target, Build, stateVars
  <2>2. IsActive /\ IsActive'
    BY <1>7, ProgressKeepsBuild
       DEF Spawn, FillBox, Target, Build, Launch, PhaseShape, BeforeBox, OnBox, Commands, IsActive,
           ActivePhases
  <2> QED
    BY <2>1, <2>2, UnseenSteps
<1>8. ASSUME \/ MoveBuilds \/ CopyBuilds \/ BootPrune \/ GetEnv \/ PruneForBuild \/ MakeBox
             \/ DiskIsFull \/ CommandFails \/ OrphanWrites \/ Ages \/ (GoesIdle /\ UNCHANGED others)
             \/ UNCHANGED vars
      PROVE  UNCHANGED <<Status, request, Served>>
  <2>1. request' = request /\ phase' = phase
    BY <1>8
       DEF MoveBuilds, CopyBuilds, BootPrune, GetEnv, PruneForBuild, Prune, MakeBox, DiskIsFull,
           CommandFails, OrphanWrites, Ages, GoesIdle, others, vars, stateVars
  <2> QED
    BY <2>1, UnseenSteps
<1>9. CASE \E r \in Requests : Start(r)
  BY <1>3, <1>9 DEF Job!Next
<1>10. CASE Merge \/ BuildFails \/ Kill
  BY <1>4, <1>5, <1>6, <1>10 DEF Job!Next
<1>11. CASE (Migrate \/ Provision) /\ UNCHANGED others
  BY <1>11, ToolchainIsUnseen
<1> QED
  BY <1>7, <1>8, <1>9, <1>10, <1>11 DEF Next, Step

\* Each step of the builds, of the toolchain and of the server that starts is a
\* step of BuildJob or leaves what the page shows alone: one build at a time, none
\* revived by a late line of progress, and the image that is offered is the one
\* that was asked for last.  (That a build ends is left to TLC.)
THEOREM BuildsImplementJob == Spec => Job!Init /\ [][Job!Next]_(Job!vars)
<1>1. Init => Job!Init
  <2> SUFFICES ASSUME Init
               PROVE  Job!Init
    OBVIOUS
  <2>1. phase = "idle" /\ request = None
    BY DEF Init
  <2> QED
    BY <2>1 DEF Job!Init, Status, Served
<1>2. BuildInv /\ BuildInv' /\ [Next]_vars => [Job!Next]_(Job!vars)
  BY StepsOfBuildJob
<1> QED
  BY <1>1, <1>2, BuildInvHolds, PTL DEF Spec
=============================================================================
