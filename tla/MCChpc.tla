-------------------------------- MODULE MCChpc --------------------------------
(***************************************************************************)
(* A small instance of Chpc: a memory check nobody opted in and a mount    *)
(* check opted into auto-resume, with checks.conf contents that keep,      *)
(* drop or misspell a line.                                                *)
(***************************************************************************)
EXTENDS Chpc

MCKeys == {"mem", "mnt"}
MCLines == MCKeys \cup {"typo"}
MCFiles == {<<"mem", "mnt">>, <<"mnt", "typo">>}
MCNameOf == [k \in MCKeys |-> k]
MCAutoResume == {"mnt"}
MCOneOfEach == [crash |-> 1, cli |-> 1, human |-> 1]

=============================================================================
