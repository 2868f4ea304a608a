---------------------------- MODULE MCHardening ----------------------------
(***************************************************************************)
(* Small instances of Hardening.                                           *)
(***************************************************************************)
EXTENDS Hardening
=============================================================================
