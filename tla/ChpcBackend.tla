----------------------------- MODULE ChpcBackend -----------------------------
(***************************************************************************)
(* One compute node as the resource manager (Slurm or PBS) keeps it, and   *)
(* chpc's view of it through backends/slurm.py, backends/pbs.py and        *)
(* backends/base.py.  The resource manager itself is external: the model   *)
(* keeps whether the node is in service and on whose account it last       *)
(* changed, which is what the Reason= text tells an administrator.         *)
(***************************************************************************)
EXTENDS ChpcState

CONSTANTS
    Human,       \* anyone but the chpc daemon: admin, Slurm, another tool
    Mode         \* "live", "dry_run" or "none" (no resource manager found)

VARIABLE
    node         \* [up, by]: in service?  last moved on account of which key

ASSUME HumanAssumption == Human \notin Keys
ASSUME ModeAssumption == Mode \in {"live", "dry_run", "none"}

NodeTypeOK == node \in [up : BOOLEAN, by : Keys \cup {Human}]

NodeInit == node = [up |-> TRUE, by |-> Human]

\* How one drain or resume command may end: `ok` is what the caller is told,
\* `done` whether the node changed.  Without a backend the daemon uses False;
\* a dry run reports success and runs nothing; a live command succeeds,
\* fails, or is killed by its timeout after the resource manager obeyed it.
Outcomes ==
    CASE Mode = "none" -> {[ok |-> FALSE, done |-> FALSE]}
      [] Mode = "dry_run" -> {[ok |-> TRUE, done |-> FALSE]}
      [] OTHER -> {[ok |-> TRUE, done |-> TRUE], [ok |-> FALSE, done |-> TRUE],
                   [ok |-> FALSE, done |-> FALSE]}

DrainNode(who, outcome) ==
    node' = IF outcome.done THEN [up |-> FALSE, by |-> who] ELSE node

ResumeNode(who, outcome) ==
    node' = IF outcome.done THEN [up |-> TRUE, by |-> who] ELSE node

\* is_drained: the truth, or "unknown" when the command fails, its output
\* does not parse, or there is no backend.
IsDrainedAnswers ==
    {"unknown"} \cup (IF Mode = "none" THEN {} ELSE {IF node.up THEN "no" ELSE "yes"})

=============================================================================
