----------------------------- MODULE NodeChecks -----------------------------
(***************************************************************************)
(* What chpc measures: the baseline and the starter checks.conf, written   *)
(* in place by `chpc install` and `chpc baseline recapture` (which may be  *)
(* killed at any point), and the built-in checks, which hold a node that   *)
(* changes under them to both.  What follows from a failed check is        *)
(* ChpcCycle's.  A write that is cut leaves an empty file.                 *)
(***************************************************************************)
EXTENDS Naturals, Sequences

CONSTANTS
    Nodes,         \* the conditions the node can be in
    MemTolerance,  \* --tolerance-percent of check_real_memory
    CpuTolerance,  \* --tolerance of check_cpu_count
    AdminFile,     \* a checks.conf that an administrator wrote
    MaxKills       \* bound of the model

VARIABLES
    node,              \* the hardware, and what is wrong with it
    baseline, checks,  \* baseline.yaml and checks.conf
    pc, draft, force,  \* `chpc install`, `chpc baseline recapture`
    base, specs,       \* the cycle: ctx.baseline, the lines to evaluate
    failed,            \* whether the line last evaluated failed
    kills, captures    \* commands killed; whether one captured and none was
                       \* killed while capturing since

files == <<baseline, checks>>
command == <<pc, draft, force>>
cycle == <<base, specs, failed>>
vars == <<node, files, command, cycle, kills, captures>>

-----------------------------------------------------------------------------
(* The node: its units (mem in any unit), whether nvidia-smi answers,      *)
(* whether its network file system is mounted, and one thing that may be   *)
(* wrong with it.                                                          *)

Troubles ==
    {"none", "load high", "root full", "root inodes gone", "mount full",
     "tmp large", "tmp beyond the scan", "tmp unreadable", "tmp missing",
     "mounted locally", "zombies", "proc unreadable", "process misnamed",
     "meminfo unreadable", "swap used",
     "interface down", "interface absent", "command fails", "command hangs"}

Healthy(n) == n.smi /\ n.mounted /\ n.trouble = "none"

ASSUME NodeChecksAssumption ==
    /\ MemTolerance \in Nat /\ CpuTolerance \in Nat /\ MaxKills \in Nat
    /\ Nodes \subseteq [mem : Nat \ {0}, cpus : Nat, gpus : Nat,
                        smi : BOOLEAN, mounted : BOOLEAN, trouble : Troubles]

-----------------------------------------------------------------------------
(* baseline.capture, baseline.load: the file is named by what the capture  *)
(* had before it; what it made of that is read off it.                     *)

Missing == [state |-> "missing"]
Empty == [state |-> "empty"]
Captured(n) ==
    [state |-> "captured",
     of |-> IF n.trouble = "meminfo unreadable" THEN n
            ELSE [n EXCEPT !.trouble = "none",
                           !.mounted = n.mounted /\ n.trouble # "mounted locally"]]
Baselines == {Missing, Empty} \cup {Captured(n) : n \in Nodes}

\* What a cycle knows of the baseline.
NotLoaded == [state |-> "not loaded"]
Bases == Baselines \cup {NotLoaded}

IsCaptured(b) == b.state = "captured"
HasMemory(b) == IsCaptured(b) /\ b.of.trouble # "meminfo unreadable"
\* A probe that fails is a node without GPUs.
GpuCount(b) == IF b.of.smi THEN b.of.gpus ELSE 0

Far(x, y, tolerance) == x > y + tolerance \/ y > x + tolerance

-----------------------------------------------------------------------------
(* The built-in checks: whether the check fails on node n.                 *)

RealMemoryFails(b, n) ==
    /\ HasMemory(b)
    /\ \/ n.trouble = "meminfo unreadable"
       \/ Far(100 * n.mem, 100 * b.of.mem, MemTolerance * b.of.mem)

CpuCountFails(b, n) == IsCaptured(b) /\ Far(n.cpus, b.of.cpus, CpuTolerance)

\* Mutant of GpuCountFails: a field that was not captured counts as zero.
GpuCountFailsUncaptured(b, n) ==
    LET c == IF IsCaptured(b) THEN GpuCount(b) ELSE 0 IN
    IF n.smi THEN n.gpus # c ELSE c # 0

\* Mutant of GpuCountFails: a failing nvidia-smi is taken for its absence.
GpuCountPassesBlind(b, n) == IsCaptured(b) /\ n.smi /\ n.gpus # GpuCount(b)

GpuCountFails(b, n) ==
    /\ IsCaptured(b)
    /\ IF n.smi THEN n.gpus # GpuCount(b) ELSE GpuCount(b) # 0

RootUsageFails(n) == n.trouble \in {"root full", "root inodes gone"}

\* The line asks for the type of the file system, too.
MountPresentFails(n) == ~n.mounted \/ n.trouble = "mounted locally"

\* Without the mount the path lies on the root file system; this line has
\* no --max-inode-percent.
MountUsageFails(n) == n.trouble = (IF n.mounted THEN "mount full" ELSE "root full")

\* A tree too big to scan passes; os.walk passes over what it cannot read.
DirSizeFails(n) == n.trouble \in {"tmp large", "tmp missing"}

\* Without MemTotal and SwapTotal there is no swap.
SwapUsageFails(n) == n.trouble = "swap used"

\* The name of a process that is not UTF-8 raises UnicodeDecodeError, and a
\* check that raises has failed.
ZombiesFail(n) == n.trouble \in {"zombies", "proc unreadable", "process misnamed"}

InterfaceFails(n) == n.trouble \in {"interface down", "interface absent"}

CommandFails(n) == n.trouble \in {"command fails", "command hangs"}

\* BUILTIN_CHECKS, by line of checks.conf.
Fails(b, n) ==
    [real_memory |-> RealMemoryFails(b, n),
     cpu_count |-> CpuCountFails(b, n),
     load_average |-> n.trouble = "load high",
     disk_usage_root |-> RootUsageFails(n),
     dir_size_tmp |-> DirSizeFails(n),
     zombie_processes |-> ZombiesFail(n),
     gpu_count |-> GpuCountFails(b, n),
     mount_present |-> MountPresentFails(n),
     disk_usage_mount |-> MountUsageFails(n),
     swap_usage |-> SwapUsageFails(n),
     network_interface |-> InterfaceFails(n),
     command |-> CommandFails(n)]

CheckNames ==
    {"real_memory", "cpu_count", "load_average", "disk_usage_root",
     "dir_size_tmp", "zombie_processes", "gpu_count", "mount_present",
     "disk_usage_mount", "swap_usage", "network_interface", "command"}

ASSUME AdminFileAssumption == AdminFile \in Seq(CheckNames)

\* DEFAULT_CHECKS_TEMPLATE, and the lines for what the baseline names.
Template ==
    <<"real_memory", "cpu_count", "load_average", "disk_usage_root",
      "dir_size_tmp", "zombie_processes">>

GpuLines(b) == IF GpuCount(b) # 0 THEN <<"gpu_count">> ELSE <<>>

MountLines(b) ==
    IF b.of.mounted THEN <<"mount_present", "disk_usage_mount">> ELSE <<>>

Starter(b) == Template \o IF IsCaptured(b) THEN GpuLines(b) \o MountLines(b) ELSE <<>>

Lines(s) == {s[i] : i \in DOMAIN s}
Files == {<<>>, AdminFile} \cup {Starter(b) : b \in Baselines}

-----------------------------------------------------------------------------

NoFile == [present |-> FALSE, lines |-> <<>>]
File(s) == [present |-> TRUE, lines |-> s]

Init ==
    /\ node \in Nodes
    /\ baseline = Missing /\ checks = NoFile
    /\ pc = "idle" /\ draft = Missing /\ force = FALSE
    /\ base = NotLoaded /\ specs = <<>> /\ failed = FALSE
    /\ kills = 0 /\ captures = FALSE

\* Hardware breaks and is mended; troubles come and go.
Change(n) ==
    /\ node' = n /\ n # node
    /\ UNCHANGED <<files, command, cycle, kills, captures>>

(* cmd_install and cmd_baseline.  Nothing but the node is read before the  *)
(* file is truncated, so that capturing and truncating are one step.       *)

CaptureAndTruncate(then) ==
    /\ pc' = then /\ draft' = Captured(node) /\ baseline' = Empty
    /\ UNCHANGED <<node, checks, cycle, kills, captures>>

Install(f) ==
    /\ pc = "idle" /\ force' = f
    /\ baseline = Missing \/ f
    /\ CaptureAndTruncate("save")

\* A baseline that exists is left as it is, without a look into it.
InstallOverBaseline ==
    /\ pc = "idle" /\ baseline # Missing
    /\ pc' = "starter"
    /\ UNCHANGED <<node, files, draft, force, cycle, kills, captures>>

Recapture ==
    /\ pc = "idle"
    /\ CaptureAndTruncate("recapture") /\ UNCHANGED force

\* Mutant of Save: a recapture is announced and not saved.
SaveOnInstall ==
    /\ pc \in {"save", "recapture"}
    /\ baseline' = (IF pc = "save" THEN draft ELSE baseline)
    /\ captures' = TRUE /\ draft' = Missing
    /\ pc' = IF pc = "save" THEN "starter" ELSE "idle"
    /\ UNCHANGED <<node, checks, force, cycle, kills>>

Save ==
    /\ pc \in {"save", "recapture"}
    /\ baseline' = draft /\ captures' = TRUE /\ draft' = Missing
    /\ pc' = IF pc = "save" THEN "starter" ELSE "idle"
    /\ UNCHANGED <<node, checks, force, cycle, kills>>

KeepChecks ==
    /\ pc = "starter" /\ checks.present /\ ~force
    /\ pc' = "idle" /\ force' = FALSE
    /\ UNCHANGED <<node, files, draft, cycle, kills, captures>>

\* The extra lines come from the baseline as it is now on disk.
OpenChecks ==
    /\ pc = "starter" /\ (~checks.present \/ force)
    /\ checks' = File(<<>>) /\ draft' = baseline /\ pc' = "write"
    /\ UNCHANGED <<node, baseline, force, cycle, kills, captures>>

WriteChecks ==
    /\ pc = "write"
    /\ checks' = File(Starter(draft))
    /\ pc' = "idle" /\ draft' = Missing /\ force' = FALSE
    /\ UNCHANGED <<node, baseline, cycle, kills, captures>>

\* The command is killed.
Kill ==
    /\ pc # "idle" /\ kills < MaxKills
    /\ pc' = "idle" /\ draft' = Missing /\ force' = FALSE /\ kills' = kills + 1
    /\ captures' = (captures /\ pc \notin {"save", "recapture"})
    /\ UNCHANGED <<node, files, cycle>>

Edit ==
    /\ pc = "idle" /\ checks # File(AdminFile)
    /\ checks' = File(AdminFile)
    /\ UNCHANGED <<node, baseline, command, cycle, kills, captures>>

(* A cycle of the daemon, or `chpc check`: it asks the resource manager,   *)
(* too, between the two files, which is ChpcCycle's.                       *)

LoadBaseline ==
    /\ base = NotLoaded
    /\ base' = baseline
    /\ UNCHANGED <<node, files, command, specs, failed, kills, captures>>

LoadChecks ==
    /\ base # NotLoaded /\ specs = <<>> /\ checks.present
    /\ specs' = checks.lines
    /\ UNCHANGED <<node, files, command, base, failed, kills, captures>>

\* The lines do not depend on one another: their order is left open.
Evaluate(l) ==
    /\ failed' = Fails(base, node)[l]
    /\ UNCHANGED <<node, files, command, base, specs, kills, captures>>

\* The lines are done, or there are none.
EndCycle ==
    /\ base # NotLoaded /\ (specs # <<>> \/ checks.lines = <<>>)
    /\ base' = NotLoaded /\ specs' = <<>> /\ failed' = FALSE
    /\ UNCHANGED <<node, files, command, kills, captures>>

Next ==
    \/ \E n \in Nodes : Change(n)
    \/ \E f \in BOOLEAN : Install(f)
    \/ InstallOverBaseline
    \/ Recapture
    \/ Save
    \/ KeepChecks
    \/ OpenChecks
    \/ WriteChecks
    \/ Kill
    \/ Edit
    \/ LoadBaseline
    \/ LoadChecks
    \/ \E l \in Lines(specs) : Evaluate(l)
    \/ EndCycle

Spec == Init /\ [][Next]_vars

-----------------------------------------------------------------------------
(* Properties *)

\* Every variable holds a value of its kind, and every line of a checks.conf
\* is the name of a check.
TypeOK ==
    /\ node \in Nodes
    /\ baseline \in Baselines /\ draft \in Baselines /\ base \in Bases
    /\ checks \in {NoFile} \cup {File(s) : s \in Files}
    /\ pc \in {"idle", "save", "recapture", "starter", "write"}
    /\ force \in BOOLEAN /\ captures \in BOOLEAN /\ kills \in 0..MaxKills
    /\ Lines(specs) \subseteq CheckNames
    /\ failed \in BOOLEAN

SameUnits(n, m) == n.mem = m.mem /\ n.cpus = m.cpus /\ n.gpus = m.gpus

\* No line fails on a node in health, with any checks.conf and with any
\* baseline a cycle can have loaded: none, one cut short, or one captured from
\* the same units with every probe answering.  A gap in the set-up never drains
\* a node (checks/builtin.py:9-13).  A process whose name is not UTF-8 counts as a
\* trouble of the node.
FailuresAreReal ==
    [][(/\ failed' /\ ~failed
        /\ IsCaptured(base) => SameUnits(node, base.of) /\ base.of.smi)
       => ~Healthy(node)]_vars

Lost(n, m) ==
    \/ 100 * n.mem < (100 - MemTolerance) * m.mem
    \/ n.cpus + CpuTolerance < m.cpus
    \/ n.gpus < m.gpus

\* What a cycle over all checks may pass over.
Overlooked(b) ==
    {"none", "tmp beyond the scan", "tmp unreadable"}
        \cup IF HasMemory(b) THEN {} ELSE {"meminfo unreadable"}

\* A cycle that loads a file with every check has one that fails while the node
\* lacks its mount, has any trouble but those, or has lost memory, processors or
\* GPUs since it was captured in health: no loss hides behind another one, such
\* as a full mount that is not mounted or GPUs that take nvidia-smi with them.
LossIsNoticed ==
    /\ specs = AdminFile
    /\ \/ ~node.mounted
       \/ node.trouble \notin Overlooked(base)
       \/ IsCaptured(base) /\ Healthy(base.of) /\ Lost(node, base.of)
    => \E l \in Lines(specs) : Fails(base, node)[l]

\* Once an install or a recapture has captured the node, there is a baseline to
\* check against, except while a later one writes it and after one was killed
\* doing so.
CaptureLasts ==
    captures /\ pc \notin {"save", "recapture"} => IsCaptured(baseline)

=============================================================================
