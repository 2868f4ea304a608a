------------------------------- MODULE Cluster -------------------------------
(***************************************************************************)
(* chpc and slurm_monitor at work on the same node: the chpc daemon runs   *)
(* its cycle there (ChpcCycle), the agent polls it with all the others     *)
(* (Monitor).  They never speak to each other; they meet in the state and  *)
(* the Reason= Slurm keeps of the node.  What chpc sees of the agent is    *)
(* somebody else's hand; what the agent sees of chpc is a reason that      *)
(* classify sorts into one of its categories like any other.               *)
(*                                                                         *)
(* `node` is the node as ChpcCycle keeps it, rm[Host] as the agent's model *)
(* does.  Each step of one tool changes its own view by its own rules and  *)
(* the other's by what the change looks like from there.                   *)
(***************************************************************************)
EXTENDS Monitor, Sequences

CONSTANTS
    Host,             \* the node chpc runs on
    Keys, Human, Mode, MaxCount, Lines, ChecksFiles, NameOf, AutoResume,
    FailureThreshold, \* chpc's failure_threshold, of cycles
    CategoryOf,       \* what classify makes of the reason chpc writes
                      \* (recovery.py, build_reason) on account of a check
    MaxMoves          \* bound of the model: moves by anybody else

VARIABLES
    node, fails, active, daemonPc, specs, pos, count, evidence,
    moves,            \* how often others have moved the node
    drainListed,      \* history: the drain chpc has in force was in force
                      \* already when the agent's last poll listed the nodes
    forced            \* history: the agent has forced the node out, and nobody
                      \* else has moved it since, nor anything put it back

ASSUME HostAssumption == Host \in Nodes
ASSUME HumanAssumption == Human \notin Keys
ASSUME CategoryOfAssumption == CategoryOf \in [Keys -> Categories]
ASSUME MovesAssumption == MaxMoves \in Nat

Daemon == INSTANCE ChpcCycle WITH pc <- daemonPc, Threshold <- FailureThreshold

daemonVars == <<fails, active, daemonPc, specs, pos, count, evidence>>
clusterVars == <<vars, node, daemonVars, moves, drainListed, forced>>

ClusterTypeOK ==
    /\ TypeOK
    /\ Daemon!CycleTypeOK
    /\ moves \in 0..MaxMoves
    /\ drainListed \in BOOLEAN /\ forced \in BOOLEAN
    \* the two views are of one node
    /\ node.up = rm[Host].up
    /\ ~node.up /\ node.by \in Keys => rm[Host] = OutFor(CategoryOf[node.by])

ClusterInit ==
    /\ Init
    /\ Daemon!CycleInit
    /\ moves = 0
    /\ drainListed = FALSE /\ forced = FALSE

DrainedByChpc == ~node.up /\ node.by \in Keys

\* What a drain or a resume by chpc leaves for the agent to read.
SeenByAgent(state) ==
    IF state.up THEN InService ELSE OutFor(CategoryOf[state.by])

\* Whatever moves the node but chpc itself is somebody else to chpc.
SeenByChpc ==
    node' = IF rm'[Host] = rm[Host] THEN node ELSE [up |-> rm'[Host].up, by |-> Human]

NotListed == drainListed' = (drainListed /\ node' = node)

DaemonStep ==
    /\ Daemon!CycleStep
    /\ rm' = IF node' = node THEN rm ELSE [rm EXCEPT ![Host] = SeenByAgent(node')]
    /\ NotListed
    /\ forced' = (forced /\ ~node'.up)
    /\ UNCHANGED <<occurrences, quarantined, fixes, agentVars, crashes, moves>>

DaemonCrash ==
    /\ crashes < MaxCrashes
    /\ Daemon!Abort
    /\ crashes' = crashes + 1
    /\ UNCHANGED <<rm, occurrences, quarantined, fixes, agentVars, moves, drainListed, forced>>

AgentAct ==
    /\ Agent \/ Crash \/ Resolve(Host)
    /\ SeenByChpc
    /\ drainListed' = IF pc = "idle" /\ pc' = "pick" THEN DrainedByChpc
                      ELSE drainListed /\ node' = node
    /\ forced' = (~node'.up /\ (forced \/ rm'[Host].note))
    /\ UNCHANGED <<daemonVars, moves>>

OthersMove ==
    /\ moves < MaxMoves
    /\ moves' = moves + 1
    /\ \E n \in Nodes : Move(n)
    /\ SeenByChpc
    /\ NotListed
    /\ forced' = (forced /\ rm'[Host] = rm[Host])
    /\ UNCHANGED daemonVars

ClusterNext == DaemonStep \/ DaemonCrash \/ AgentAct \/ OthersMove

ClusterSpec == ClusterInit /\ [][ClusterNext]_clusterVars

\* Both services are kept running by systemd, and neither is kept from its
\* commands for ever (see Chpc!Fairness and Monitor!Fairness).
ClusterFairness ==
    /\ WF_clusterVars(DaemonStep)
    /\ WF_clusterVars(AgentAct /\ Agent)
    /\ SF_clusterVars(DaemonStep /\ \E answer \in {"yes", "no"} : Daemon!Ask(answer))
    /\ SF_clusterVars(DaemonStep /\ Daemon!Load(TRUE))
    /\ SF_clusterVars(DaemonStep /\ Daemon!DrainEnds([ok |-> TRUE, done |-> TRUE]))

FairClusterSpec == ClusterSpec /\ ClusterFairness

-----------------------------------------------------------------------------
\* The agent ends a drain of chpc's only on account of a self-healing reason,
\* unless that drain is younger than the listing the agent works from: a
\* drain for hardware that it has seen, it leaves in force (classifier.py,
\* CATEGORY_INFO).
ListedDrainStands ==
    [][DrainedByChpc /\ drainListed /\ node'.up /\ node'.by = Human
       => moves' # moves \/ CategoryOf[node.by] \in AutoFixable]_clusterVars

\* A node the agent has forced out stays out until a human moves it, although
\* the agent itself takes its own note for health and chpc may drain the node
\* over it, for a reason of its own that the agent no longer knows for its
\* doing.  Two things may still put it back: chpc on account of an opted-in
\* check, and the agent when chpc has written over its note and the reason of
\* some check is one that it heals (it acts on the reason it has listed, and
\* chpc may have drained again for another check since).
ForcedOutStays ==
    [][forced /\ node'.up
       => \/ moves' # moves
          \/ \E k \in Keys : node' = [up |-> TRUE, by |-> k] /\ Daemon!OptedIn(k)
          \/ DrainedByChpc /\ \E k \in Keys : CategoryOf[k] \in AutoFixable]_clusterVars

\* A check that keeps failing for a cause the agent does not heal ends with
\* the node out of service for good, once everybody else leaves it alone: the
\* two tools do not put it in and out for ever.
ToolsConverge ==
    \A k \in Keys :
        /\ CategoryOf[k] \notin AutoFixable
        /\ <>[](evidence[k] > 0)
        => <>[](~node.up)

=============================================================================
