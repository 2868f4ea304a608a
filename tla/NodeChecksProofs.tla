--------------------------- MODULE NodeChecksProofs ---------------------------
(***************************************************************************)
(* Proofs about NodeChecks, for any set of conditions of the node, any     *)
(* tolerances and any administrator's checks.conf.                         *)
(***************************************************************************)
EXTENDS NodeChecks, SequenceTheorems, TLAPS

\* The table of checks, name by name.
LEMMA Table ==
    ASSUME NEW b, NEW n
    PROVE  /\ Fails(b, n)["real_memory"] = RealMemoryFails(b, n)
           /\ Fails(b, n)["cpu_count"] = CpuCountFails(b, n)
           /\ Fails(b, n)["load_average"] = (n.trouble = "load high")
           /\ Fails(b, n)["disk_usage_root"] = RootUsageFails(n)
           /\ Fails(b, n)["dir_size_tmp"] = DirSizeFails(n)
           /\ Fails(b, n)["zombie_processes"] = ZombiesFail(n)
           /\ Fails(b, n)["gpu_count"] = GpuCountFails(b, n)
           /\ Fails(b, n)["mount_present"] = MountPresentFails(n)
           /\ Fails(b, n)["disk_usage_mount"] = MountUsageFails(n)
           /\ Fails(b, n)["swap_usage"] = SwapUsageFails(n)
           /\ Fails(b, n)["network_interface"] = InterfaceFails(n)
           /\ Fails(b, n)["command"] = CommandFails(n)
BY DEF Fails

\* It has a verdict for each name.
LEMMA TableIsTotal ==
    ASSUME NEW b, NEW n, NEW l \in CheckNames
    PROVE  Fails(b, n)[l] \in BOOLEAN
<1>1. RealMemoryFails(b, n) \in BOOLEAN
  BY DEF RealMemoryFails
<1>2. CpuCountFails(b, n) \in BOOLEAN
  BY DEF CpuCountFails
<1>3. GpuCountFails(b, n) \in BOOLEAN
  BY DEF GpuCountFails
<1>4. /\ RootUsageFails(n) \in BOOLEAN /\ MountUsageFails(n) \in BOOLEAN
      /\ DirSizeFails(n) \in BOOLEAN /\ SwapUsageFails(n) \in BOOLEAN
      /\ ZombiesFail(n) \in BOOLEAN /\ InterfaceFails(n) \in BOOLEAN
      /\ CommandFails(n) \in BOOLEAN
  BY DEF RootUsageFails, MountUsageFails, DirSizeFails, SwapUsageFails, ZombiesFail,
         InterfaceFails, CommandFails
<1>5. (n.trouble = "load high") \in BOOLEAN /\ MountPresentFails(n) \in BOOLEAN
  BY DEF MountPresentFails
<1>6. /\ Fails(b, n)["real_memory"] \in BOOLEAN
      /\ Fails(b, n)["cpu_count"] \in BOOLEAN
      /\ Fails(b, n)["load_average"] \in BOOLEAN
      /\ Fails(b, n)["disk_usage_root"] \in BOOLEAN
      /\ Fails(b, n)["dir_size_tmp"] \in BOOLEAN
      /\ Fails(b, n)["zombie_processes"] \in BOOLEAN
      /\ Fails(b, n)["gpu_count"] \in BOOLEAN
      /\ Fails(b, n)["mount_present"] \in BOOLEAN
      /\ Fails(b, n)["disk_usage_mount"] \in BOOLEAN
      /\ Fails(b, n)["swap_usage"] \in BOOLEAN
      /\ Fails(b, n)["network_interface"] \in BOOLEAN
      /\ Fails(b, n)["command"] \in BOOLEAN
  BY <1>1, <1>2, <1>3, <1>4, <1>5, Table, ZenonT(60)
<1> QED BY <1>6, Zenon DEF CheckNames

\* Every file that chpc or an administrator writes is made of names of checks.
LEMMA FilesNameChecks == Files \subseteq Seq(CheckNames)
<1>1. Template \in Seq(CheckNames)
  BY DEF Template, CheckNames
<1>2. ASSUME NEW b
      PROVE  Starter(b) \in Seq(CheckNames)
  <2>4. /\ <<>> \in Seq(CheckNames)
        /\ <<"gpu_count">> \in Seq(CheckNames)
        /\ <<"mount_present", "disk_usage_mount">> \in Seq(CheckNames)
    BY DEF CheckNames
  <2>1. GpuLines(b) \in Seq(CheckNames)
    BY <2>4, Zenon DEF GpuLines
  <2>2. MountLines(b) \in Seq(CheckNames)
    BY <2>4, Zenon DEF MountLines
  <2>3. GpuLines(b) \o MountLines(b) \in Seq(CheckNames)
    BY <2>1, <2>2, ConcatProperties
  <2> QED BY <1>1, <2>3, <2>4, ConcatProperties DEF Starter
<1>3. <<>> \in Seq(CheckNames)
  OBVIOUS
<1> QED BY <1>2, <1>3, AdminFileAssumption DEF Files

LEMMA LinesAreChecks ==
    ASSUME NEW s \in Files
    PROVE  Lines(s) \subseteq CheckNames
<1>1. s \in Seq(CheckNames)
  BY FilesNameChecks
<1> QED BY <1>1 DEF Lines

\* What a baseline says of the node it was captured from.
LEMMA CapturedIsNode ==
    ASSUME NEW b \in Bases, IsCaptured(b)
    PROVE  b.of \in [mem : Nat \ {0}, cpus : Nat, gpus : Nat,
                     smi : BOOLEAN, mounted : BOOLEAN, trouble : Troubles]
<1>1. PICK n \in Nodes : b = Captured(n)
  <2>1. ~IsCaptured(Missing) /\ ~IsCaptured(Empty) /\ ~IsCaptured(NotLoaded)
    BY DEF Missing, Empty, NotLoaded, IsCaptured
  <2> QED BY <2>1, Zenon DEF Bases, Baselines
<1>2. b.of = IF n.trouble = "meminfo unreadable" THEN n
             ELSE [n EXCEPT !.trouble = "none",
                            !.mounted = n.mounted /\ n.trouble # "mounted locally"]
  BY <1>1 DEF Captured
<1>3. n \in [mem : Nat \ {0}, cpus : Nat, gpus : Nat,
             smi : BOOLEAN, mounted : BOOLEAN, trouble : Troubles]
  BY NodeChecksAssumption
<1>4. CASE n.trouble = "meminfo unreadable"
  BY <1>2, <1>3, <1>4
<1>5. CASE n.trouble # "meminfo unreadable"
  <2> DEFINE mounted == n.mounted /\ n.trouble # "mounted locally"
  <2>1. mounted \in BOOLEAN
    OBVIOUS
  <2>2. "none" \in Troubles
    BY DEF Troubles
  <2>3. b.of = [n EXCEPT !.trouble = "none", !.mounted = mounted]
    BY <1>2, <1>5
  <2> HIDE DEF mounted
  <2> QED BY <1>3, <2>1, <2>2, <2>3
<1> QED BY <1>4, <1>5

-----------------------------------------------------------------------------
\* A command in the middle of a capture holds what it captured; between
\* captures, the last one stands.
CaptureInv ==
    /\ pc \in {"save", "recapture"} => IsCaptured(draft)
    /\ CaptureLasts

NodeChecksInv == TypeOK /\ CaptureInv

LEMMA TypeStep == TypeOK /\ [Next]_vars => TypeOK'
<1> SUFFICES ASSUME TypeOK, [Next]_vars
             PROVE  TypeOK'
  OBVIOUS
<1> USE DEF TypeOK
<1>m. /\ Missing \in Baselines /\ Empty \in Baselines /\ Captured(node) \in Baselines
      /\ NotLoaded \in Bases /\ baseline \in Bases
  BY DEF Baselines, Bases
<1>l. Lines(<<>>) = {}
  BY DEF Lines
<1>1. ASSUME NEW n \in Nodes, Change(n)
      PROVE  TypeOK'
  BY <1>1 DEF Change, files, command, cycle
<1>2. ASSUME NEW f \in BOOLEAN, Install(f)
      PROVE  TypeOK'
  BY <1>2, <1>m DEF Install, CaptureAndTruncate, cycle
<1>3. CASE InstallOverBaseline
  BY <1>3 DEF InstallOverBaseline, files, cycle
<1>4. CASE Recapture
  BY <1>4, <1>m DEF Recapture, CaptureAndTruncate, cycle
<1>5. CASE Save
  BY <1>5, <1>m DEF Save, cycle
<1>6. CASE KeepChecks
  BY <1>6 DEF KeepChecks, files, cycle
<1>7. CASE OpenChecks
  <2>1. <<>> \in Files
    BY DEF Files
  <2> QED BY <1>7, <2>1 DEF OpenChecks, cycle
<1>8. CASE WriteChecks
  <2>1. Starter(draft) \in Files
    BY DEF Files
  <2> QED BY <1>8, <1>m, <2>1 DEF WriteChecks, cycle
<1>9. CASE Kill
  <2>1. kills' \in 0..MaxKills
    BY <1>9, NodeChecksAssumption DEF Kill
  <2>2. captures' \in BOOLEAN
    BY <1>9 DEF Kill
  <2> QED BY <1>9, <1>m, <2>1, <2>2 DEF Kill, files, cycle
<1>10. CASE Edit
  <2>1. AdminFile \in Files
    BY DEF Files
  <2> QED BY <1>10, <2>1 DEF Edit, command, cycle
<1>15. CASE LoadBaseline
  <2>1. Lines(specs)' = Lines(specs)
    BY <1>15 DEF LoadBaseline, Lines
  <2> QED BY <1>15, <1>m, <2>1 DEF LoadBaseline, files, command
<1>11. CASE LoadChecks
  <2>1. PICK s \in Files : checks = File(s)
    BY <1>11 DEF LoadChecks, NoFile
  <2>2. specs' = s
    BY <1>11, <2>1 DEF LoadChecks, File
  <2>3. Lines(specs)' \subseteq CheckNames
    BY <2>2, LinesAreChecks DEF Lines
  <2> QED BY <1>11, <2>3 DEF LoadChecks, files, command
<1>12. ASSUME NEW l \in Lines(specs), Evaluate(l)
       PROVE  TypeOK'
  <2>1. failed' \in BOOLEAN
    <3>1. l \in CheckNames
      OBVIOUS
    <3>2. Fails(base, node)[l] \in BOOLEAN
      BY <3>1, TableIsTotal
    <3> QED BY <1>12, <3>2 DEF Evaluate
  <2>2. UNCHANGED <<node, files, command, base, specs, kills, captures>>
    BY <1>12 DEF Evaluate
  <2>3. Lines(specs)' = Lines(specs)
    BY <2>2 DEF Lines
  <2> QED BY <2>1, <2>2, <2>3 DEF files, command
<1>13. CASE EndCycle
  <2>1. Lines(specs)' = {}
    BY <1>13 DEF EndCycle, Lines
  <2> QED BY <1>13, <1>m, <2>1 DEF EndCycle, files, command
<1>14. CASE UNCHANGED vars
  BY <1>14 DEF vars, files, command, cycle, Lines
<1> QED BY <1>1, <1>2, <1>3, <1>4, <1>5, <1>6, <1>7, <1>8, <1>9, <1>10, <1>11,
           <1>12, <1>13, <1>14, <1>15 DEF Next

\* A baseline is only ever replaced by way of a capture.
LEMMA CaptureStep == CaptureInv /\ [Next]_vars => CaptureInv'
<1> SUFFICES ASSUME CaptureInv, [Next]_vars
             PROVE  CaptureInv'
  OBVIOUS
<1> USE DEF CaptureInv, CaptureLasts
<1>c. IsCaptured(Captured(node))
  BY DEF Captured, IsCaptured
<1>1. CASE \E f \in BOOLEAN : Install(f)
  BY <1>1, <1>c DEF Install, CaptureAndTruncate, IsCaptured
<1>2. CASE Recapture
  BY <1>2, <1>c DEF Recapture, CaptureAndTruncate, IsCaptured
<1>3. CASE Save
  BY <1>3 DEF Save, IsCaptured
<1>4. CASE Kill
  BY <1>4 DEF Kill, files, IsCaptured
<1>5. CASE InstallOverBaseline \/ KeepChecks \/ OpenChecks \/ WriteChecks
  BY <1>5 DEF InstallOverBaseline, KeepChecks, OpenChecks, WriteChecks, files, IsCaptured
<1>6. CASE \/ \E n \in Nodes : Change(n)
           \/ Edit \/ LoadBaseline \/ LoadChecks \/ (\E l \in Lines(specs) : Evaluate(l)) \/ EndCycle
           \/ UNCHANGED vars
  <2>1. UNCHANGED <<pc, draft, baseline, captures>>
    BY <1>6 DEF Change, Edit, LoadBaseline, LoadChecks, Evaluate, EndCycle, vars, files, command
  <2> QED BY <2>1 DEF IsCaptured
<1> QED BY <1>1, <1>2, <1>3, <1>4, <1>5, <1>6 DEF Next

LEMMA InvInit == Init => NodeChecksInv
<1> SUFFICES ASSUME Init
             PROVE  NodeChecksInv
  OBVIOUS
<1>1. Missing \in Baselines /\ NotLoaded \in Bases
  BY DEF Baselines, Bases
<1>2. Lines(specs) = {}
  BY DEF Init, Lines
<1>3. TypeOK
  <2>1. kills \in 0..MaxKills
    BY NodeChecksAssumption DEF Init
  <2>2. node \in Nodes /\ baseline = Missing /\ base = NotLoaded /\ draft = Missing
    BY DEF Init
  <2>3. /\ checks = NoFile /\ pc = "idle" /\ force = FALSE
        /\ captures = FALSE /\ failed = FALSE
    BY DEF Init
  <2> QED BY <1>1, <1>2, <2>1, <2>2, <2>3 DEF TypeOK
<1>4. CaptureInv
  BY DEF Init, CaptureInv, CaptureLasts
<1> QED BY <1>3, <1>4 DEF NodeChecksInv

\* Every reachable state of node, files, commands and cycle is well formed: a
\* cycle evaluates only lines that name a check.
THEOREM TypeCorrect == Spec => []TypeOK
BY InvInit, TypeStep, PTL DEF Spec, NodeChecksInv

\* Once captured, there is a baseline until one is being written or was cut.
THEOREM CapturesLast == Spec => []CaptureLasts
<1>1. CaptureInv => CaptureLasts
  BY DEF CaptureInv
<1> QED BY <1>1, InvInit, CaptureStep, PTL DEF Spec, NodeChecksInv

-----------------------------------------------------------------------------
\* Nothing is far from itself.
LEMMA NotFarFromItself ==
    ASSUME NEW x \in Nat, NEW tolerance \in Nat
    PROVE  ~Far(x, x, tolerance)
BY DEF Far

\* No line of any file fails on a node in health, held to no baseline or to one
\* of the same units.
LEMMA HealthPasses ==
    ASSUME NEW b \in Bases, NEW n \in Nodes, Healthy(n), NEW l \in CheckNames,
           IsCaptured(b) => SameUnits(n, b.of) /\ b.of.smi
    PROVE  ~Fails(b, n)[l]
<1>1. n \in [mem : Nat \ {0}, cpus : Nat, gpus : Nat,
             smi : BOOLEAN, mounted : BOOLEAN, trouble : Troubles]
  BY NodeChecksAssumption
<1>2. n.smi /\ n.mounted /\ n.trouble = "none"
  BY DEF Healthy
<1>3. ~RealMemoryFails(b, n)
  <2> SUFFICES ASSUME IsCaptured(b)
               PROVE  ~Far(100 * n.mem, 100 * n.mem, MemTolerance * n.mem)
    BY <1>2 DEF RealMemoryFails, HasMemory, SameUnits
  <2>1. 100 * n.mem \in Nat /\ MemTolerance * n.mem \in Nat
    BY <1>1, NodeChecksAssumption
  <2> QED BY <2>1, NotFarFromItself
<1>4. ~CpuCountFails(b, n)
  <2>1. n.cpus \in Nat /\ CpuTolerance \in Nat
    BY <1>1, NodeChecksAssumption
  <2> QED BY <2>1, NotFarFromItself DEF CpuCountFails, SameUnits
<1>5. ~GpuCountFails(b, n)
  BY <1>2 DEF GpuCountFails, GpuCount, SameUnits
<1>6. /\ ~RootUsageFails(n) /\ ~MountUsageFails(n) /\ ~DirSizeFails(n) /\ ~SwapUsageFails(n)
      /\ ~ZombiesFail(n) /\ ~InterfaceFails(n) /\ ~CommandFails(n)
      /\ ~(n.trouble = "load high") /\ ~MountPresentFails(n)
  BY <1>2 DEF RootUsageFails, MountUsageFails, DirSizeFails, SwapUsageFails, ZombiesFail,
              InterfaceFails, CommandFails, MountPresentFails
<1> QED BY <1>3, <1>4, <1>5, <1>6, Table, ZenonT(60) DEF CheckNames

\* A cycle that evaluates any line against any baseline it can have loaded
\* fails only of a node that is not as it was captured.
THEOREM FailuresReal == Spec => FailuresAreReal
<1>1. TypeOK /\ [Next]_vars =>
        [(/\ failed' /\ ~failed
          /\ IsCaptured(base) => SameUnits(node, base.of) /\ base.of.smi)
         => ~Healthy(node)]_vars
  <2> SUFFICES ASSUME TypeOK, Next, failed', ~failed, Healthy(node),
                      IsCaptured(base) => SameUnits(node, base.of) /\ base.of.smi
               PROVE  FALSE
    OBVIOUS
  <2>1. PICK l \in Lines(specs) : Evaluate(l)
    BY DEF Next, Change, Install, InstallOverBaseline, Recapture, CaptureAndTruncate,
           Save, KeepChecks, OpenChecks, WriteChecks, Kill, Edit, LoadBaseline, LoadChecks, EndCycle,
           cycle
  <2>2. l \in CheckNames /\ base \in Bases /\ node \in Nodes
    BY DEF TypeOK
  <2>3. ~Fails(base, node)[l]
    BY <2>2, HealthPasses
  <2>4. failed' = Fails(base, node)[l]
    BY <2>1 DEF Evaluate
  <2> QED BY <2>3, <2>4
<1> QED BY <1>1, TypeCorrect, PTL DEF Spec, FailuresAreReal

-----------------------------------------------------------------------------
\* Every trouble but those that chpc is bound to overlook fails a check.
LEMMA TroubleFails ==
    ASSUME NEW b \in Bases, NEW n \in Nodes, n.trouble \notin Overlooked(b)
    PROVE  \E l \in CheckNames : Fails(b, n)[l]
<1>1. n.trouble \in Troubles
  BY NodeChecksAssumption
<1>2. CASE n.trouble = "meminfo unreadable"
  <2>1. RealMemoryFails(b, n)
    BY <1>2 DEF Overlooked, RealMemoryFails
  <2> QED BY <2>1 DEF Fails, CheckNames
<1>3. CASE n.trouble = "mount full"
  <2>1. Fails(b, n)["mount_present"] \/ Fails(b, n)["disk_usage_mount"]
    BY <1>3, Table DEF MountUsageFails, MountPresentFails
  <2> QED BY <2>1 DEF CheckNames
<1>4. CASE n.trouble = "load high"
  BY <1>4 DEF Fails, CheckNames
<1>5. CASE n.trouble \in {"root full", "root inodes gone"}
  BY <1>5 DEF Fails, CheckNames, RootUsageFails
<1>6. CASE n.trouble \in {"tmp large", "tmp missing"}
  BY <1>6 DEF Fails, CheckNames, DirSizeFails
<1>7. CASE n.trouble \in {"zombies", "proc unreadable", "process misnamed"}
  BY <1>7 DEF Fails, CheckNames, ZombiesFail
<1>8. CASE n.trouble = "swap used"
  BY <1>8 DEF Fails, CheckNames, SwapUsageFails
<1>9. CASE n.trouble \in {"interface down", "interface absent"}
  BY <1>9 DEF Fails, CheckNames, InterfaceFails
<1>10. CASE n.trouble \in {"command fails", "command hangs"}
  BY <1>10 DEF Fails, CheckNames, CommandFails
<1>11. CASE n.trouble = "mounted locally"
  BY <1>11 DEF Fails, CheckNames, MountPresentFails
<1> QED BY <1>1, <1>2, <1>3, <1>4, <1>5, <1>6, <1>7, <1>8, <1>9, <1>10, <1>11
        DEF Troubles, Overlooked

\* The tolerance is a share of what was captured.
LEMMA Share ==
    ASSUME NEW t \in Nat, NEW x \in Nat
    PROVE  (100 - t) * x = 100 * x - t * x
OBVIOUS

\* So does any loss since a capture in health, also when nvidia-smi or
\* /proc/meminfo is lost along with the units it would report.
LEMMA LossFails ==
    ASSUME NEW b \in Bases, NEW n \in Nodes,
           IsCaptured(b), Healthy(b.of), Lost(n, b.of)
    PROVE  \E l \in CheckNames : Fails(b, n)[l]
<1> DEFINE m == b.of
<1>1. n \in [mem : Nat \ {0}, cpus : Nat, gpus : Nat,
             smi : BOOLEAN, mounted : BOOLEAN, trouble : Troubles]
  BY NodeChecksAssumption
<1>2. m \in [mem : Nat \ {0}, cpus : Nat, gpus : Nat,
             smi : BOOLEAN, mounted : BOOLEAN, trouble : Troubles]
  BY CapturedIsNode
<1>3. m.smi /\ m.trouble = "none"
  BY DEF Healthy
<1>4. CASE 100 * n.mem < (100 - MemTolerance) * m.mem
  <2>1. n.mem \in Nat /\ m.mem \in Nat /\ MemTolerance \in Nat
    BY <1>1, <1>2, NodeChecksAssumption
  <2>2. (100 - MemTolerance) * m.mem = 100 * m.mem - MemTolerance * m.mem
    BY <2>1, Share
  <2>3. MemTolerance * m.mem \in Nat /\ 100 * m.mem \in Nat /\ 100 * n.mem \in Nat
    BY <2>1
  <2>4. 100 * m.mem > 100 * n.mem + MemTolerance * m.mem
    BY <1>4, <2>2, <2>3
  <2>5. RealMemoryFails(b, n)
    BY <1>3, <2>4 DEF RealMemoryFails, HasMemory, Far
  <2> QED BY <2>5 DEF Fails, CheckNames
<1>5. CASE n.cpus + CpuTolerance < m.cpus
  <2>1. CpuCountFails(b, n)
    BY <1>5, <1>1, <1>2, NodeChecksAssumption DEF CpuCountFails, Far
  <2> QED BY <2>1 DEF Fails, CheckNames
<1>6. CASE n.gpus < m.gpus
  <2>1. GpuCount(b) = m.gpus
    BY <1>3 DEF GpuCount
  <2>2. n.gpus # m.gpus /\ m.gpus # 0
    BY <1>6, <1>1, <1>2
  <2>3. GpuCountFails(b, n)
    BY <2>1, <2>2 DEF GpuCountFails
  <2> QED BY <2>3 DEF Fails, CheckNames
<1> QED BY <1>4, <1>5, <1>6 DEF Lost

\* With a checks.conf that has every check, no loss and no trouble within
\* chpc's reach passes a cycle, whatever the baseline and whatever else is
\* wrong with the node.
THEOREM LossNoticed ==
    ASSUME CheckNames \subseteq Lines(AdminFile)
    PROVE  Spec => []LossIsNoticed
<1>1. TypeOK => LossIsNoticed
  <2> SUFFICES ASSUME TypeOK, specs = AdminFile,
                      \/ ~node.mounted
                      \/ node.trouble \notin Overlooked(base)
                      \/ IsCaptured(base) /\ Healthy(base.of) /\ Lost(node, base.of)
               PROVE  \E l \in CheckNames : Fails(base, node)[l]
    BY DEF LossIsNoticed
  <2>1. base \in Bases /\ node \in Nodes
    BY DEF TypeOK
  <2>2. CASE ~node.mounted
    BY <2>2 DEF Fails, CheckNames, MountPresentFails
  <2> QED BY <2>1, <2>2, TroubleFails, LossFails
<1> QED BY <1>1, TypeCorrect, PTL

=============================================================================
