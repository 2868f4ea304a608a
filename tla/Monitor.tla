------------------------------- MODULE Monitor -------------------------------
(***************************************************************************)
(* slurm_monitor: the agent's polls (MonitorAgent), beside Slurm and the   *)
(* administrators, who move nodes at any time, beside `slurm-monitor       *)
(* resolve` (cli.py, cmd_resolve), which clears quarantines in a process   *)
(* of its own, and beside crashes of the agent.                            *)
(***************************************************************************)
EXTENDS MonitorAgent

CONSTANT MaxCrashes  \* bound of the model

VARIABLE crashes

ASSUME CrashesAssumption == MaxCrashes \in Nat

vars == <<rm, occurrences, quarantined, fixes, agentVars, crashes>>

TypeOK == AgentTypeOK /\ crashes \in 0..MaxCrashes

Init == AgentInit /\ crashes = 0

\* Slurm, a health check or an administrator takes the node out of service,
\* rewrites the reason, or returns the node to service.
Move(n) ==
    /\ \E state \in {InService} \cup {OutFor(c) : c \in Categories} :
          /\ state # rm[n]
          /\ rm' = [rm EXCEPT ![n] = state]
    /\ UNCHANGED <<occurrences, quarantined, fixes, agentVars, crashes>>

\* With a category, or without one for all of them.
Resolve(n) ==
    /\ \/ ClearQuarantine(n)
       \/ \E c \in Categories : ClearQuarantineOf(<<n, c>>)
    /\ UNCHANGED <<rm, occurrences, fixes, agentVars, crashes>>

Crash == crashes < MaxCrashes /\ Abort /\ crashes' = crashes + 1

Agent == AgentStep /\ UNCHANGED crashes

Next ==
    \/ Agent
    \/ Crash
    \/ \E n \in Nodes : Move(n) \/ Resolve(n)

Spec == Init /\ [][Next]_vars

\* systemd keeps the agent running, and now and then a listing works.
Fairness ==
    /\ WF_vars(Agent)
    /\ SF_vars(Agent /\ \E elapsed \in 1..(Window + 1) : Poll(elapsed, TRUE))

FairSpec == Spec /\ Fairness

-----------------------------------------------------------------------------
\* A category is given at most Threshold - 1 automated fixes on a node within
\* any window, crashes and `slurm-monitor resolve` notwithstanding.
FixesAreRare == \A p \in Pairs : Cardinality(fixes[p]) < Threshold

\* The agent refines what slurm_monitor promises: a drain only for a problem
\* sighted Threshold times within the window, a resume only after a fix.
Policy == INSTANCE MonitorPolicy
ImplementsPolicy == Policy!Spec

\* From some time on every poll lists the nodes, and comes well within the
\* window of the one before (poll_interval is a minute, the window a day).
PollsOnTime == <>[][Agent /\ pc = "idle" => Poll(1, TRUE)]_vars

\* Once polls are on time, a problem that stays on a node ends with the node
\* drained on the agent's note, or in quarantine.
PersistentProblemHeld ==
    PollsOnTime =>
        \A n \in Nodes : \A c \in Categories \ {AdminDrain} :
            <>[](rm[n].category = c)
            => []<>(rm[n].note \/ <<n, c>> \in quarantined)

\* A node that stays in service leaves quarantine.
RecoveredNodeReleased ==
    \A n \in Nodes : <>[](rm[n].up) => <>[](~\E c \in Categories : <<n, c>> \in quarantined)

=============================================================================
