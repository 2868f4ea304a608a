------------------------------ MODULE ChpcCycle ------------------------------
(***************************************************************************)
(* One process running chpc's check/decide/act cycle (chpc/daemon.py,      *)
(* Daemon.run_once and _evaluate).  Each step below is one access to the   *)
(* shared state: a resource manager command or one SQLite statement        *)
(* sequence, so that everything other processes do in between is seen.     *)
(*                                                                         *)
(* A check's verdict is chosen freely at each evaluation; a check that     *)
(* raises counts as a failure, exactly as in _evaluate.  The text of       *)
(* reasons, details and instructions is left out.                          *)
(***************************************************************************)
EXTENDS ChpcBackend, Sequences

CONSTANTS
    Lines,       \* keys a matching line of checks.conf may name; a line
                 \* outside Keys names no builtin check
    ChecksFiles, \* the contents checks.conf may have when it is loaded: the
                 \* sequence of the lines whose hostmask matches this node
    NameOf,      \* the check name of each key
    AutoResume,  \* auto_resume_categories: check names
    Threshold    \* failure_threshold

VARIABLES
    pc,          \* where run_once is; "idle" between cycles
    specs,       \* the lines this cycle loaded
    pos,         \* the line being evaluated
    count,       \* `consecutive` of that line; 0 exactly when it passed
    evidence     \* history: cycles in a row in which k's result, as
                 \* recorded, was a failure; only a recorded pass resets it

ASSUME CycleAssumption ==
    /\ Keys \subseteq Lines
    /\ ChecksFiles \subseteq Seq(Lines)
    /\ DOMAIN NameOf = Keys
    /\ Threshold \in 1..MaxCount

localVars == <<pc, specs, pos, count>>
cycleVars == <<node, fails, active, pc, specs, pos, count, evidence>>

PCs == {"idle", "reconcile", "clear", "load", "check", "record", "decide",
        "resume", "clear_key", "drain", "mark"}

AtLine == {"check", "record", "decide", "resume", "clear_key", "drain", "mark"}
AfterCheck == AtLine \ {"check"}

CycleTypeOK ==
    /\ NodeTypeOK
    /\ StateTypeOK
    /\ pc \in PCs
    /\ specs \in ChecksFiles \cup {<<>>}
    /\ pos \in Nat
    /\ pc \in AtLine => pos \in 1..Len(specs)
    /\ pc \in AfterCheck => specs[pos] \in Keys
    /\ count \in 0..MaxCount
    /\ evidence \in [Keys -> 0..MaxCount]

CycleInit ==
    /\ NodeInit
    /\ StateInit
    /\ pc = "idle" /\ specs = <<>> /\ pos = 0 /\ count = 0
    /\ evidence = [k \in Keys |-> 0]

Key == specs[pos]
Passed == count = 0
OptedIn(k) == NameOf[k] \in AutoResume

EndCycle == pc' = "idle" /\ specs' = <<>> /\ pos' = 0 /\ count' = 0

\* Mutant of StartLine: the loop runs one line too far.
StartLinePastTheEnd(file, i) ==
    IF i <= Len(file) + 1
    THEN pc' = "check" /\ specs' = file /\ pos' = i /\ count' = 0
    ELSE EndCycle

StartLine(file, i) ==
    IF i <= Len(file)
    THEN pc' = "check" /\ specs' = file /\ pos' = i /\ count' = 0
    ELSE EndCycle

NextLine == StartLine(specs, pos + 1)

Goto(from, to) ==
    /\ pc = from
    /\ pc' = to
    /\ UNCHANGED <<specs, pos, count>>

-----------------------------------------------------------------------------
\* Mutant of Ask: anything but "drained" counts as "in service".
AskTakingUnknownForNo(answer) ==
    /\ answer \in IsDrainedAnswers
    /\ Goto("idle", IF answer # "yes" THEN "reconcile" ELSE "load")
    /\ UNCHANGED <<node, fails, active, evidence>>

\* rm_drained = backend.is_drained(node)
Ask(answer) ==
    /\ answer \in IsDrainedAnswers
    /\ Goto("idle", IF answer = "no" THEN "reconcile" ELSE "load")
    /\ UNCHANGED <<node, fails, active, evidence>>

AskResourceManager == \E answer \in {"yes", "no", "unknown"} : Ask(answer)

\* Mutant of ReadActiveDrains: books are kept whatever the node does.
ReadNoDrains ==
    /\ Goto("reconcile", "load")
    /\ UNCHANGED <<node, fails, active, evidence>>

\* `rm_drained is False and self.state.active_drains()`
ReadActiveDrains ==
    /\ Goto("reconcile", IF active # {} THEN "clear" ELSE "load")
    /\ UNCHANGED <<node, fails, active, evidence>>

Reconcile ==
    /\ Goto("clear", "load")
    /\ ClearAllDrained
    /\ UNCHANGED <<node, evidence>>

\* A file that cannot be read or parsed ends the cycle.
Load(ok) ==
    /\ pc = "load"
    /\ IF ok THEN \E file \in ChecksFiles : StartLine(file, 1) ELSE EndCycle
    /\ UNCHANGED <<node, fails, active, evidence>>

LoadSpecs == \E ok \in BOOLEAN : Load(ok)

SkipUnknownCheck ==
    /\ pc = "check"
    /\ Key \notin Keys
    /\ NextLine
    /\ UNCHANGED <<node, fails, active, evidence>>

\* The checker runs, then record_result reads the row.
RunCheck ==
    /\ pc = "check"
    /\ Key \in Keys
    /\ \E ok \in BOOLEAN : count' = NextCount(Key, ok)
    /\ pc' = "record"
    /\ UNCHANGED <<specs, pos, node, fails, active, evidence>>

\* A line repeated in one cycle is still one failed cycle.
RepeatedLine == \E i \in 1..(pos - 1) : specs[i] = Key

RecordResult ==
    /\ Goto("record", "decide")
    /\ StoreResult(Key, count)
    /\ evidence' = [evidence EXCEPT ![Key] =
                       IF Passed THEN 0 ELSE IF RepeatedLine THEN @ ELSE Bump(@)]
    /\ UNCHANGED node

\* Mutant of MustResume: only when no other drain is booked.
MustResumeAlone == Passed /\ active = {Key} /\ OptedIn(Key)

\* Mutant of MustResume: no check needs opting in.
MustResumeUnasked == Passed /\ Key \in active

\* Mutants of MustDrain: one failure early; only at the very threshold.
MustDrainEarly == ~Passed /\ Key \notin active /\ count >= Threshold - 1
MustDrainOnce == ~Passed /\ Key \notin active /\ count = Threshold

\* is_active, and the branches of _evaluate that act on what it says.
MustResume == Passed /\ Key \in active /\ OptedIn(Key)
MustDrain == ~Passed /\ Key \notin active /\ count >= Threshold

DecideResume ==
    /\ Goto("decide", "resume")
    /\ MustResume
    /\ UNCHANGED <<node, fails, active, evidence>>

DecideDrain ==
    /\ Goto("decide", "drain")
    /\ MustDrain
    /\ UNCHANGED <<node, fails, active, evidence>>

\* ok, recovered_manual, already_drained, monitoring
DecideNothing ==
    /\ pc = "decide"
    /\ ~MustResume /\ ~MustDrain
    /\ NextLine
    /\ UNCHANGED <<node, fails, active, evidence>>

\* A resume that reports failure leaves the drain active for the next cycle.
ResumeEnds(outcome) ==
    /\ pc = "resume"
    /\ outcome \in Outcomes
    /\ ResumeNode(Key, outcome)
    /\ IF outcome.ok THEN Goto("resume", "clear_key") ELSE NextLine
    /\ UNCHANGED <<fails, active, evidence>>

BackendResume == \E outcome \in Outcomes : ResumeEnds(outcome)

ClearResumed ==
    /\ pc = "clear_key"
    /\ ClearDrained(Key)
    /\ NextLine
    /\ UNCHANGED <<node, evidence>>

\* Mutant of DrainEnds: a drain is booked only when its command succeeded.
DrainEndsBookingSuccess(outcome) ==
    /\ pc = "drain"
    /\ outcome \in Outcomes
    /\ DrainNode(Key, outcome)
    /\ IF outcome.ok THEN Goto("drain", "mark") ELSE NextLine
    /\ UNCHANGED <<fails, active, evidence>>

\* The drain is booked next whether or not the command worked.
DrainEnds(outcome) ==
    /\ Goto("drain", "mark")
    /\ outcome \in Outcomes
    /\ DrainNode(Key, outcome)
    /\ UNCHANGED <<fails, active, evidence>>

BackendDrain == \E outcome \in Outcomes : DrainEnds(outcome)

BookDrain ==
    /\ pc = "mark"
    /\ MarkDrained(Key)
    /\ NextLine
    /\ UNCHANGED <<node, evidence>>

\* The process dies, or an exception abandons the cycle (run_forever logs it
\* and sleeps): either way the next thing it does is start a new cycle.
Abort ==
    /\ pc # "idle"
    /\ EndCycle
    /\ UNCHANGED <<node, fails, active, evidence>>

CycleStep ==
    \/ AskResourceManager \/ ReadActiveDrains \/ Reconcile
    \/ LoadSpecs \/ SkipUnknownCheck \/ RunCheck \/ RecordResult
    \/ DecideResume \/ DecideDrain \/ DecideNothing
    \/ BackendResume \/ ClearResumed \/ BackendDrain \/ BookDrain

=============================================================================
