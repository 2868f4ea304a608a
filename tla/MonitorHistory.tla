--------------------------- MODULE MonitorHistory ---------------------------
(***************************************************************************)
(* slurm_monitor's SQLite history (history.py): the occurrences of each    *)
(* (node, category), and its quarantine.  Times are ages, counted back     *)
(* from the `now` of the current poll; an occurrence older than the window *)
(* is in no answer ever again and is dropped.  Two occurrences of one pair *)
(* never have the same time: a poll records at most one.                   *)
(***************************************************************************)
EXTENDS MonitorCluster, FiniteSets

CONSTANT Window  \* recurrence_window_hours, in steps of the model's clock

VARIABLES
    occurrences, \* ages of each (node, category)'s rows of occurrences
    quarantined  \* the pairs with a row of quarantine not yet cleared

ASSUME WindowAssumption == Window \in Nat \ {0}

Pairs == Nodes \X Categories

HistoryTypeOK ==
    /\ occurrences \in [Pairs -> SUBSET (0..Window)]
    /\ quarantined \in SUBSET Pairs

HistoryInit ==
    /\ occurrences = [p \in Pairs |-> {}]
    /\ quarantined = {}

\* Ages after `elapsed`, without those that have left the window.
Older(ages, elapsed) == {a \in elapsed..Window : a - elapsed \in ages}

\* detected_at >= now - window and detected_at < now
Prior(p) == occurrences[p] \ {0}

Record(p) == occurrences' = [occurrences EXCEPT ![p] = @ \cup {0}]

\* Mutant of Quarantine: the row is stored under a name of the category that
\* no later lookup uses.
QuarantineNothing(p) == quarantined' = quarantined

Quarantine(p) == quarantined' = quarantined \cup {p}

ClearQuarantine(n) == quarantined' = quarantined \ ({n} \X Categories)

ClearQuarantineOf(p) == quarantined' = quarantined \ {p}

=============================================================================
