------------------------------ MODULE ChpcState ------------------------------
(***************************************************************************)
(* The SQLite state of the chpc daemon (chpc/state.py): the debounce       *)
(* counters of table check_state and the active drains of table            *)
(* drain_state.  Every operation is one transaction of its own, except     *)
(* record_result, whose SELECT runs before the transaction its INSERT      *)
(* opens: ChpcCycle takes the two as separate steps.                       *)
(*                                                                         *)
(* A key without a row reads exactly like a row with no failures and no    *)
(* active drain, so both tables are total functions of the keys.           *)
(***************************************************************************)
EXTENDS Naturals

CONSTANTS
    Keys,        \* CheckSpec.key values ("name:args") of the builtin checks
    MaxCount     \* bound of the model: counters stop counting here

VARIABLES
    fails,       \* check_state.consecutive_fails
    active       \* keys whose drain_state row has active = 1

ASSUME MaxCountAssumption == MaxCount \in Nat \ {0}

stateVars == <<fails, active>>

StateTypeOK ==
    /\ fails \in [Keys -> 0..MaxCount]
    /\ active \in SUBSET Keys

StateInit ==
    /\ fails = [k \in Keys |-> 0]
    /\ active = {}

\* A counter going up by one; MaxCount is above every threshold the code
\* compares a counter with, so a counter that stays there loses nothing.
Bump(c) == IF c < MaxCount THEN c + 1 ELSE MaxCount

\* What record_result computes from the row it has just read.
NextCount(k, ok) == IF ok THEN 0 ELSE Bump(fails[k])

\* Mutant of StoreResult: the UPDATE has lost its WHERE clause.
StoreResultOfEveryKey(k, count) ==
    /\ fails' = [j \in Keys |-> count]
    /\ UNCHANGED active

StoreResult(k, count) ==
    /\ fails' = [fails EXCEPT ![k] = count]
    /\ UNCHANGED active

MarkDrained(k) ==
    /\ active' = active \cup {k}
    /\ UNCHANGED fails

ClearDrained(k) ==
    /\ active' = active \ {k}
    /\ fails' = [fails EXCEPT ![k] = 0]

ClearAllDrained ==
    /\ active' = {}
    /\ fails' = [k \in Keys |-> 0]

=============================================================================
