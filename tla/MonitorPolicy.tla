---------------------------- MODULE MonitorPolicy ----------------------------
(***************************************************************************)
(* What slurm_monitor promises to do to nodes without a human: it puts a   *)
(* node back in service only when it has just attempted a fix of one of    *)
(* the self-healing categories, which it does only for a problem sighted   *)
(* fewer than Threshold times within the window; and it forces a node out  *)
(* only for a problem sighted that often.                                  *)
(***************************************************************************)
EXTENDS MonitorHistory

CONSTANT Threshold

VARIABLE fixes

Init ==
    /\ RmInit /\ HistoryInit
    /\ fixes = [p \in Pairs |-> {}]

TimePasses ==
    /\ \E elapsed \in 1..(Window + 1) :
          /\ occurrences' = [p \in Pairs |-> Older(occurrences[p], elapsed)]
          /\ fixes' = [p \in Pairs |-> Older(fixes[p], elapsed)]
    /\ UNCHANGED rm

Sight(p) == Record(p) /\ UNCHANGED <<rm, fixes>>

Fix(p) ==
    /\ p[2] \in AutoFixable
    /\ 0 \in occurrences[p]
    /\ Cardinality(occurrences[p]) < Threshold
    /\ fixes' = [fixes EXCEPT ![p] = @ \cup {0}]
    /\ UNCHANGED <<rm, occurrences>>

Resume(n) ==
    /\ \E c \in AutoFixable : 0 \in fixes[<<n, c>>]
    /\ rm' = [rm EXCEPT ![n] = InService]
    /\ UNCHANGED <<occurrences, fixes>>

Drain(n, c) ==
    /\ c # AdminDrain
    /\ 0 \in occurrences[<<n, c>>]
    /\ Cardinality(occurrences[<<n, c>>]) >= Threshold
    /\ rm' = [rm EXCEPT ![n] = ForcedOutFor(c)]
    /\ UNCHANGED <<occurrences, fixes>>

Move(n) ==
    /\ \E state \in {InService} \cup {OutFor(c) : c \in Categories} :
          rm' = [rm EXCEPT ![n] = state]
    /\ UNCHANGED <<occurrences, fixes>>

\* Quarantine is the agent's own business: it may change with any step.
Next ==
    \/ TimePasses
    \/ \E p \in Pairs : Sight(p) \/ Fix(p)
    \/ \E n \in Nodes : Resume(n) \/ Move(n) \/ \E c \in Categories : Drain(n, c)

Spec == Init /\ [][Next]_<<rm, occurrences, fixes>>

=============================================================================
