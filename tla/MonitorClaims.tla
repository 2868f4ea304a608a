---------------------------- MODULE MonitorClaims ----------------------------
(***************************************************************************)
(* Monitor with the history variable that what its README and agent.py say *)
(* of quarantine is about.                                                 *)
(***************************************************************************)
EXTENDS Monitor

VARIABLE released  \* nodes seen in service since they were last quarantined

claimsVars == <<vars, released>>

ClaimsInit == Init /\ released = {}

Marking(n) == pc = "quarantine" /\ pc' = "drain" /\ n = cur

ClaimsNext ==
    /\ Next
    /\ released' = {n \in Nodes : \/ rm'[n].up
                                  \/ n \in released /\ ~Marking(n)}

ClaimsSpec == ClaimsInit /\ [][ClaimsNext]_claimsVars

\* The agent ends a quarantine only when the node has been back in service.
QuarantineHolds ==
    [][Agent => \A p \in quarantined \ quarantined' : p[1] \in released]_claimsVars

=============================================================================
