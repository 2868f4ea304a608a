------------------------------- MODULE MCBilling -------------------------------
(***************************************************************************)
(* A template with two rows for statements of none to three lines: charges *)
(* and payments, and amounts mistyped.                                     *)
(***************************************************************************)
EXTENDS Billing

MCAmounts == {0, 5}
MCEntries ==
    {[charge |-> 3, payment |-> NoAmount], [charge |-> NoAmount, payment |-> 10],
     [charge |-> Garbled, payment |-> NoAmount]}

=============================================================================
