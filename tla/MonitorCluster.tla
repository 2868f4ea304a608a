--------------------------- MODULE MonitorCluster ---------------------------
(***************************************************************************)
(* The nodes as Slurm keeps them (external), and what slurm_monitor's      *)
(* client (slurm_client.py, models.py, classifier.py) makes of them.  Of a *)
(* Reason= text the model keeps the category classify gives it, and        *)
(* whether it is a drain note the agent wrote itself.                      *)
(***************************************************************************)
EXTENDS Naturals

CONSTANTS
    Nodes,
    Categories,  \* the categories classify may return
    AdminDrain,  \* the category of administrators' own drains
    AutoFixable, \* categories with CATEGORY_INFO[...]["auto_fixable"]
    DryRun       \* Config.dry_run

VARIABLE
    rm           \* [up, category, note] of each node

ASSUME CategoriesAssumption ==
    /\ AdminDrain \in Categories
    /\ AutoFixable \subseteq Categories \ {AdminDrain}

\* What NodeState.is_problem and classify say of a node that needs no care.
Fine == "fine"

ASSUME FineAssumption == Fine \notin Categories

InService == [up |-> TRUE, category |-> Fine, note |-> FALSE]
OutFor(c) == [up |-> FALSE, category |-> c, note |-> FALSE]
ForcedOutFor(c) == [up |-> FALSE, category |-> c, note |-> TRUE]

RmStates ==
    {InService} \cup {OutFor(c) : c \in Categories}
                \cup {ForcedOutFor(c) : c \in Categories}

RmTypeOK == rm \in [Nodes -> RmStates]

RmInit == rm = [n \in Nodes |-> InService]

\* One line of `scontrol show node -o` as parse_node_line reads it: its
\* Key=Value scan runs over the reason too, so the "State=RESUME" that a drain
\* note quotes replaces the node's State, which is then no problem state.
Read(n) == IF rm[n].note THEN Fine ELSE rm[n].category

\* How an `scontrol update` may end: reported ok and obeyed, reported failed
\* (by the timeout) although obeyed, or failed; a dry run reports success.
Outcomes ==
    IF DryRun THEN {[ok |-> TRUE, done |-> FALSE]}
    ELSE {[ok |-> TRUE, done |-> TRUE], [ok |-> FALSE, done |-> TRUE],
          [ok |-> FALSE, done |-> FALSE]}

SetNode(n, state, outcome) ==
    rm' = IF outcome.done THEN [rm EXCEPT ![n] = state] ELSE rm

=============================================================================
