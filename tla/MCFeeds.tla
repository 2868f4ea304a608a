------------------------------ MODULE MCFeeds ------------------------------
(***************************************************************************)
(* Small instances of Feeds: both Windows versions beside RHEL and Rocky.  *)
(***************************************************************************)
EXTENDS Feeds

MCWindows == {"windows10", "windows11"}

=============================================================================
