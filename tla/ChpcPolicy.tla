------------------------------ MODULE ChpcPolicy ------------------------------
(***************************************************************************)
(* What chpc promises about one node, without saying how it keeps track:   *)
(* it drains on account of a check only when that check has failed in      *)
(* Threshold cycles in a row, it returns the node to service only on       *)
(* account of an opted-in check that has passed, and otherwise the node    *)
(* moves only by somebody else's hand.                                     *)
(***************************************************************************)
EXTENDS Naturals

CONSTANTS Keys, Human, Optable, Threshold

VARIABLES node, evidence

Init ==
    /\ node = [up |-> TRUE, by |-> Human]
    /\ evidence = [k \in Keys |-> 0]

\* One more recorded result of check k.
Observe(k) ==
    /\ \E n \in {0, evidence[k], evidence[k] + 1} :
          evidence' = [evidence EXCEPT ![k] = n]
    /\ UNCHANGED node

Drain(k) ==
    /\ evidence[k] >= Threshold
    /\ node' = [up |-> FALSE, by |-> k]
    /\ UNCHANGED evidence

Resume(k) ==
    /\ k \in Optable
    /\ evidence[k] = 0
    /\ node' = [up |-> TRUE, by |-> k]
    /\ UNCHANGED evidence

Intervene ==
    /\ \E up \in BOOLEAN : node' = [up |-> up, by |-> Human]
    /\ UNCHANGED evidence

Next ==
    \/ \E k \in Keys : Observe(k) \/ Drain(k) \/ Resume(k)
    \/ Intervene

Spec == Init /\ [][Next]_<<node, evidence>>

=============================================================================
