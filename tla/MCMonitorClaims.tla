--------------------------- MODULE MCMonitorClaims ---------------------------
(* Small instances of MonitorClaims, as in MCMonitor. *)
EXTENDS MonitorClaims

MCTwoCategories == {"low_real_memory", "admin_drain"}
MCNone == {}

=============================================================================
