-------------------------------- MODULE Chpc --------------------------------
(***************************************************************************)
(* chpc on one node: the daemon's cycle (ChpcCycle) beside the             *)
(* administrator's `chpc resume` (chpc/cli.py, cmd_resume), which runs in  *)
(* a process of its own on the same state, beside everyone who moves the   *)
(* node without chpc, and beside crashes of either of them.                *)
(***************************************************************************)
EXTENDS ChpcCycle

CONSTANT
    MaxDisruptions  \* bound of the model: how often each of them acts

VARIABLES
    cliPc,       \* "idle", "clear_all" or "clear_keys"
    cliTodo,     \* keys `chpc resume <check_name>` has still to clear
    disruptions  \* how often each disruptor has acted

Disruptors == {"crash", "cli", "human"}

ASSUME DisruptionsAssumption == MaxDisruptions \in [Disruptors -> Nat]

cliVars == <<cliPc, cliTodo>>
vars == <<node, fails, active, pc, specs, pos, count, evidence,
          cliPc, cliTodo, disruptions>>

TypeOK ==
    /\ CycleTypeOK
    /\ cliPc \in {"idle", "clear_all", "clear_keys"}
    /\ cliTodo \in SUBSET Keys
    /\ disruptions \in [Disruptors -> Nat]
    /\ \A who \in Disruptors : disruptions[who] <= MaxDisruptions[who]

Init ==
    /\ CycleInit
    /\ cliPc = "idle"
    /\ cliTodo = {}
    /\ disruptions = [who \in Disruptors |-> 0]

Disrupt(who) ==
    /\ disruptions[who] < MaxDisruptions[who]
    /\ disruptions' = [disruptions EXCEPT ![who] = @ + 1]

KeysNamed(name) == {k \in Keys : NameOf[k] = name}

\* backend.resume(node); whatever it reports, the bookkeeping is cleared next:
\* all of it without a name or with --all, else the rows with that name.
CliResume ==
    /\ cliPc = "idle"
    /\ Disrupt("cli")
    /\ \E outcome \in Outcomes : ResumeNode(Human, outcome)
    /\ \/ cliPc' = "clear_all" /\ cliTodo' = {}
       \/ \E name \in {NameOf[k] : k \in Keys} :
             cliPc' = "clear_keys" /\ cliTodo' = KeysNamed(name)
    /\ UNCHANGED <<fails, active, localVars, evidence>>

CliClearAll ==
    /\ cliPc = "clear_all"
    /\ ClearAllDrained
    /\ cliPc' = "idle"
    /\ UNCHANGED <<node, localVars, evidence, cliTodo, disruptions>>

\* One transaction per row.
CliClearKey(k) ==
    /\ cliPc = "clear_keys"
    /\ k \in cliTodo
    /\ ClearDrained(k)
    /\ cliTodo' = cliTodo \ {k}
    /\ cliPc' = IF cliTodo' = {} THEN "idle" ELSE cliPc
    /\ UNCHANGED <<node, localVars, evidence, disruptions>>

\* The command is interrupted before its remaining updates.
CliKilled ==
    /\ cliPc # "idle"
    /\ Disrupt("crash")
    /\ cliPc' = "idle"
    /\ cliTodo' = {}
    /\ UNCHANGED <<node, fails, active, localVars, evidence>>

\* An admin, Slurm itself or another tool drains, downs or resumes the node.
Intervene ==
    /\ Disrupt("human")
    /\ \E up \in BOOLEAN : node' = [up |-> up, by |-> Human]
    /\ UNCHANGED <<fails, active, localVars, evidence, cliVars>>

Crash == Abort /\ Disrupt("crash") /\ UNCHANGED cliVars

Daemon == CycleStep /\ UNCHANGED <<cliVars, disruptions>>

Cli == CliClearAll \/ \E k \in Keys : CliClearKey(k)

Next == Daemon \/ Crash \/ CliResume \/ Cli \/ CliKilled \/ Intervene

Spec == Init /\ [][Next]_vars

-----------------------------------------------------------------------------
\* systemd keeps the daemon running and a started command finishes, so both
\* are weakly fair.  The resource manager may be unreachable for as long as it
\* likes, but not for ever: asked, told to drain or told to resume again and
\* again, it eventually obeys; and checks.conf is eventually readable.
Fairness ==
    /\ WF_vars(Daemon)
    /\ WF_vars(Cli)
    /\ SF_vars(Daemon /\ \E answer \in {"yes", "no"} : Ask(answer))
    /\ SF_vars(Daemon /\ Load(TRUE))
    /\ SF_vars(Daemon /\ DrainEnds([ok |-> TRUE, done |-> TRUE]))
    /\ SF_vars(Daemon /\ ResumeEnds([ok |-> TRUE, done |-> TRUE]))

FairSpec == Spec /\ Fairness

-----------------------------------------------------------------------------
\* The stored counter, and the one the daemon acts on, never claim more
\* failures in a row than the check really had, whatever `chpc resume` or a
\* crash did between the read and the write of record_result.
CountsAreEvidence ==
    /\ \A k \in Keys : fails[k] <= evidence[k]
    /\ pc \in {"decide", "resume", "drain", "mark"} => count <= evidence[Key]

\* When reconciliation wipes the books, no drain chpc imposed itself is in
\* force: what it saw earlier in the cycle still justifies the wipe although
\* others have moved since (daemon.py reads rm_drained, then clears).
WipeSparesOwnDrains == pc = "clear" => node.up \/ node.by = Human

\* As long as the daemon has not been killed in mid-cycle and nobody has run
\* `chpc resume`, a drain chpc imposed is on its books or about to be written
\* there, also one whose command timed out after it took effect (daemon.py
\* calls mark_drained whatever the backend reports).
DrainIsBooked ==
    disruptions["crash"] = 0 /\ disruptions["cli"] = 0 /\ ~node.up /\ node.by # Human
    => node.by \in active \/ (pc = "mark" /\ Key = node.by)

\* The daemon refines what chpc promises about a node: no drain without
\* Threshold failed cycles in a row, no resume but for an opted-in check that
\* passed.
Policy == INSTANCE ChpcPolicy WITH Optable <- {k \in Keys : OptedIn(k)}
ImplementsPolicy == Policy!Spec

\* A line of check k is evaluated; it is again and again as long as
\* checks.conf goes on naming the check.
Evaluated(k) == pc = "record" /\ Key = k

\* A check that is evaluated again and again and from some time on never
\* passes takes the node out of service again and again, whatever the drain
\* commands and restarts did before.
PersistentFailureDrains ==
    \A k \in Keys : []<>Evaluated(k) /\ <>[](evidence[k] > 0) => []<>(~node.up)

\* While the node stays in service, no drain stays on chpc's books for ever,
\* not even one whose check has left checks.conf.
BooksFollowNode == <>[](node.up) => []<>(active = {})

\* An opted-in check that is evaluated again and again and keeps passing does
\* not stay booked as a drain.
AutoResumeCompletes ==
    \A k \in Keys :
        OptedIn(k) /\ []<>Evaluated(k) /\ <>[](evidence[k] = 0) => <>[](k \notin active)

=============================================================================
