----------------------------- MODULE MCJacamar -----------------------------
(***************************************************************************)
(* Small instances of Jacamar.                                             *)
(***************************************************************************)
EXTENDS Jacamar
=============================================================================
