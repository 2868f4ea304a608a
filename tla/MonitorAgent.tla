---------------------------- MODULE MonitorAgent ----------------------------
(***************************************************************************)
(* The agent's poll (agent.py, Agent.poll_once and _handle_node, with      *)
(* remediation.py).  A poll reads every node at once and then deals with   *)
(* them one by one, so what it acts on may be old.  Each step below is one *)
(* transaction of the history or one command; reads of the history are     *)
(* taken with the write they lead to.  Diagnostics, notifications and the  *)
(* audit log change nothing the agent decides by and are left out.         *)
(***************************************************************************)
EXTENDS MonitorHistory

CONSTANT Threshold  \* recurrence_threshold

VARIABLES
    pc,     \* "idle" between polls, "pick" between nodes
    todo,   \* nodes of this poll still to be handled
    seen,   \* what this poll read of each node
    cur,    \* the node being handled
    fixes   \* history: ages of the fix attempts for each (node, category)

ASSUME ThresholdAssumption == Threshold \in Nat \ {0}

agentVars == <<pc, todo, seen, cur>>

Readings == Categories \cup {Fine}

AgentTypeOK ==
    /\ RmTypeOK
    /\ HistoryTypeOK
    /\ pc \in {"idle", "pick", "quarantine", "drain", "fix", "resume"}
    /\ todo \in SUBSET Nodes
    /\ pc # "idle" => todo # {}
    /\ seen \in [Nodes -> Readings]
    /\ cur \in Nodes
    /\ pc \in {"quarantine", "drain", "fix", "resume"} => cur \in todo
    /\ pc \in {"quarantine", "drain"} => seen[cur] \in Categories \ {AdminDrain}
    /\ pc \in {"fix", "resume"} => seen[cur] \in AutoFixable
    /\ fixes \in [Pairs -> SUBSET (0..Window)]

AgentInit ==
    /\ RmInit /\ HistoryInit
    /\ pc = "idle" /\ todo = {}
    /\ seen = [n \in Nodes |-> Fine] /\ cur \in Nodes
    /\ fixes = [p \in Pairs |-> {}]

Sighting == <<cur, seen[cur]>>

\* Mutant of Done: the poll does not end with its last node.
DoneWithoutEnd(n) ==
    /\ todo' = todo \ {n}
    /\ pc' = "pick"
    /\ UNCHANGED <<seen, cur>>

Done(n) ==
    /\ todo' = todo \ {n}
    /\ pc' = IF todo' = {} THEN "idle" ELSE "pick"
    /\ UNCHANGED <<seen, cur>>

\* now = datetime.utcnow(); states = get_node_states().  A listing that
\* fails is empty, and so is the poll.
Poll(elapsed, listed) ==
    /\ pc = "idle"
    /\ occurrences' = [p \in Pairs |-> Older(occurrences[p], elapsed)]
    /\ fixes' = [p \in Pairs |-> Older(fixes[p], elapsed)]
    /\ IF listed
       THEN pc' = "pick" /\ todo' = Nodes /\ seen' = [n \in Nodes |-> Read(n)]
       ELSE UNCHANGED <<pc, todo, seen>>
    /\ UNCHANGED <<rm, quarantined, cur>>

StartPoll == \E elapsed \in 1..(Window + 1), listed \in BOOLEAN : Poll(elapsed, listed)

Pick(n) == pc = "pick" /\ n \in todo

\* Mutant of Recovered: it clears the category of what was read only.
RecoveredOneCategory(n) ==
    /\ Pick(n)
    /\ seen[n] = Fine
    /\ ClearQuarantineOf(<<n, seen[n]>>)
    /\ Done(n)
    /\ UNCHANGED <<rm, occurrences, fixes>>

\* not is_problem
Recovered(n) ==
    /\ Pick(n)
    /\ seen[n] = Fine
    /\ ClearQuarantine(n)
    /\ Done(n)
    /\ UNCHANGED <<rm, occurrences, fixes>>

\* An administrator's drain, or a pair in quarantine.
LeaveAlone(n) ==
    /\ Pick(n)
    /\ seen[n] = AdminDrain \/ <<n, seen[n]>> \in quarantined
    /\ Done(n)
    /\ UNCHANGED <<rm, occurrences, quarantined, fixes>>

ToHandle(n) ==
    /\ Pick(n)
    /\ seen[n] \notin {Fine, AdminDrain}
    /\ <<n, seen[n]>> \notin quarantined

\* Mutant of Recurring: one sighting too early.
RecurringEarly(p) == Cardinality(Prior(p)) + 2 >= Threshold

\* occurrence_count >= recurrence_threshold
Recurring(p) == Cardinality(Prior(p)) + 1 >= Threshold

Recurrence(n) ==
    /\ ToHandle(n)
    /\ Recurring(<<n, seen[n]>>)
    /\ Record(<<n, seen[n]>>)
    /\ pc' = "quarantine" /\ cur' = n
    /\ UNCHANGED <<rm, quarantined, fixes, todo, seen>>

MarkQuarantined ==
    /\ pc = "quarantine"
    /\ Quarantine(Sighting)
    /\ pc' = "drain"
    /\ UNCHANGED <<rm, occurrences, fixes, todo, seen, cur>>

ForceDrain ==
    /\ pc = "drain"
    /\ \E outcome \in Outcomes : SetNode(cur, ForcedOutFor(seen[cur]), outcome)
    /\ Done(cur)
    /\ UNCHANGED <<occurrences, quarantined, fixes>>

\* Mutant of FirstSighting: nothing is recorded before the fix is tried.
UnrecordedSighting(n) ==
    /\ ToHandle(n)
    /\ ~Recurring(<<n, seen[n]>>)
    /\ IF seen[n] \in AutoFixable
       THEN pc' = "fix" /\ cur' = n /\ UNCHANGED <<todo, seen>>
       ELSE Done(n)
    /\ UNCHANGED <<rm, occurrences, quarantined, fixes>>

\* Mutant of FirstSighting: a fix is tried whatever the category.
FirstSightingFixingAll(n) ==
    /\ ToHandle(n)
    /\ ~Recurring(<<n, seen[n]>>)
    /\ Record(<<n, seen[n]>>)
    /\ pc' = "fix" /\ cur' = n
    /\ UNCHANGED <<rm, quarantined, fixes, todo, seen>>

FirstSighting(n) ==
    /\ ToHandle(n)
    /\ ~Recurring(<<n, seen[n]>>)
    /\ Record(<<n, seen[n]>>)
    /\ IF seen[n] \in AutoFixable
       THEN pc' = "fix" /\ cur' = n /\ UNCHANGED <<todo, seen>>
       ELSE Done(n)
    /\ UNCHANGED <<rm, quarantined, fixes>>

\* `systemctl restart slurmd` or `scontrol reconfigure`; dry_run or not.
AttemptFix(ok) ==
    /\ pc = "fix"
    /\ fixes' = [fixes EXCEPT ![Sighting] = @ \cup {0}]
    /\ IF ok THEN pc' = "resume" /\ UNCHANGED <<todo, seen, cur>> ELSE Done(cur)
    /\ UNCHANGED <<rm, occurrences, quarantined>>

TryFix == \E ok \in BOOLEAN : AttemptFix(ok)

ResumeFixed ==
    /\ pc = "resume"
    /\ \E outcome \in Outcomes : SetNode(cur, InService, outcome)
    /\ Done(cur)
    /\ UNCHANGED <<occurrences, quarantined, fixes>>

Handle(n) == Recovered(n) \/ LeaveAlone(n) \/ Recurrence(n) \/ FirstSighting(n)

AgentStep ==
    \/ StartPoll
    \/ \E n \in Nodes : Handle(n)
    \/ MarkQuarantined \/ ForceDrain \/ TryFix \/ ResumeFixed

\* The process dies, or an exception ends the poll for the remaining nodes.
Abort ==
    /\ pc # "idle"
    /\ pc' = "idle" /\ todo' = {}
    /\ UNCHANGED <<rm, occurrences, quarantined, fixes, seen, cur>>

=============================================================================
