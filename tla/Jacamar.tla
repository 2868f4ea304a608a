------------------------------ MODULE Jacamar ------------------------------
(***************************************************************************)
(* install_jacamar_ci.sh: an administrator's script that installs GitLab   *)
(* Runner and Jacamar CI on one host, a command at a time, under `set -e`. *)
(* A run may stop after any command (a failure, or a kill), and is then    *)
(* started again, perhaps with other answers.  What a command does to the  *)
(* host (dnf, git, make, setcap, gitlab-runner) is modelled from how the   *)
(* script uses it; scheduler checks and prompts only print.                *)
(***************************************************************************)
EXTENDS Naturals, Sequences

CONSTANTS
    Names,             \* runner descriptions
    MaxRuns, MaxStops  \* bounds of the model

VARIABLES
    host,              \* what the commands change
    pc, ans, dry, bin, \* the script: next command, answers, DRY_RUN, JACAMAR_BIN
    runs, stops        \* runs started, and stopped before their end

vars == <<host, pc, ans, dry, bin, runs, stops>>

ASSUME JacamarAssumption == MaxRuns \in Nat /\ MaxStops \in Nat

-----------------------------------------------------------------------------
(* The host. *)

Built == {"jacamar-auth", "jacamar"}      \* under JACAMAR_PREFIX/bin
Binaries == Built \cup {"own"}            \* JACAMAR_EXISTING_BINARY
Modes == {"setuid", "sudo", "none"}

\* The answers; usersValid: sudo can parse SUDO_ALLOWED_USERS, where it is read.
Answers ==
    {a \in [binary : {"build", "existing"}, mode : Modes,
            usersValid : BOOLEAN, name : Names] :
        a.mode # "sudo" => a.usersValid}

Absent == [present |-> FALSE, capable |-> FALSE, restricted |-> FALSE]
Installed == [Absent EXCEPT !.present = TRUE]

\* A file is truncated before it is filled.
NoFile == [state |-> "missing"]
TornFile == [state |-> "torn"]
Rule(b, v) == [state |-> "complete", bin |-> b, valid |-> v]
Toml(m) == [state |-> "complete", mode |-> m]

\* One [[runners]] entry, with the binary of each [runners.custom] table.
Entry(n) == [name |-> n, custom |-> <<>>]
HasEntry(config, n) == \E i \in DOMAIN config : config[i].name = n

Binary == [present : BOOLEAN, capable : BOOLEAN, restricted : BOOLEAN]
Sudoers == {NoFile, TornFile} \cup {Rule(b, v) : b \in Binaries, v \in BOOLEAN}
Tomls == {NoFile, TornFile} \cup {Toml(m) : m \in Modes}
Sources == {"none", "partial", "cloned"}
Runner == [name : Names, custom : Seq(Binaries)]

Hosts ==
    [packages : BOOLEAN, runner : BOOLEAN, service : BOOLEAN, source : Sources,
     binaries : [Binaries -> Binary], sudoers : Sudoers, toml : Tomls,
     config : Seq(Runner)]

Fresh(own) ==
    [packages |-> FALSE, runner |-> FALSE, service |-> FALSE, source |-> "none",
     binaries |-> [b \in Binaries |-> IF b = "own" /\ own THEN Installed ELSE Absent],
     sudoers |-> NoFile, toml |-> NoFile, config |-> <<>>]

-----------------------------------------------------------------------------
(* The script. *)

Places ==
    {"idle", "packages", "runner", "build", "make", "resolve", "downscope",
     "chown", "chmod", "sudoers", "visudo", "toml", "filltoml", "register",
     "append", "start", "done"}

Init ==
    /\ \E own \in BOOLEAN : host = Fresh(own)
    /\ pc = "idle" /\ bin = "own" /\ dry = FALSE
    /\ ans \in Answers
    /\ runs = 0 /\ stops = 0

script == <<ans, dry, bin, runs, stops>>

\* run and write_file: under --dry-run the command is only printed.
Run(h) == host' = IF dry THEN host ELSE h
Do(from, to, h) == pc = from /\ pc' = to /\ Run(h) /\ UNCHANGED script

\* die: the run ends where it is.
Die(from) == pc = from /\ pc' = "idle" /\ UNCHANGED <<host, script>>

Start(a, d) ==
    /\ pc = "idle" /\ runs < MaxRuns
    /\ pc' = "packages" /\ ans' = a /\ dry' = d /\ runs' = runs + 1
    /\ UNCHANGED <<host, bin, stops>>

InstallPackages == Do("packages", "runner", [host EXCEPT !.packages = TRUE])

InstallRunner == Do("runner", "build", [host EXCEPT !.runner = TRUE])

UseExisting ==
    /\ pc = "build" /\ ans.binary = "existing"
    /\ host.binaries["own"].present \/ dry
    /\ bin' = "own" /\ pc' = "downscope"
    /\ UNCHANGED <<host, ans, dry, runs, stops>>

NoExisting ==
    /\ ans.binary = "existing" /\ ~host.binaries["own"].present /\ ~dry
    /\ Die("build")

Clone ==
    /\ ans.binary = "build" /\ host.source = "none"
    /\ Do("build", "make", [host EXCEPT !.source = "cloned"])

\* A pull into the remains of a clone that was killed fails.
Pull ==
    /\ ans.binary = "build" /\ host.source # "none"
    /\ IF host.source = "cloned" \/ dry THEN Do("build", "make", host)
                                        ELSE Die("build")

\* make replaces what it installs, with a file that has no capabilities.
Make ==
    \E made \in SUBSET Built :
        Do("make", "resolve",
           [host EXCEPT !.binaries = [b \in Binaries |->
                IF b \in made THEN Installed ELSE host.binaries[b]]])

\* Mutant of Resolve: jacamar-auth is taken without a look.
ResolveUnchecked ==
    /\ pc = "resolve" /\ pc' = "downscope" /\ bin' = "jacamar-auth"
    /\ UNCHANGED <<host, ans, dry, runs, stops>>

\* jacamar-auth if it is there, else jacamar.
Resolve ==
    /\ pc = "resolve"
    /\ \/ dry \/ \E b \in Built : host.binaries[b].present
    /\ bin' = IF dry \/ host.binaries["jacamar-auth"].present
              THEN "jacamar-auth" ELSE "jacamar"
    /\ pc' = "downscope"
    /\ UNCHANGED <<host, ans, dry, runs, stops>>

NothingBuilt ==
    /\ ~dry /\ \A b \in Built : ~host.binaries[b].present
    /\ Die("resolve")

-----------------------------------------------------------------------------
(* configure_downscope *)

Setcap ==
    /\ ans.mode = "setuid"
    /\ Do("downscope", "chown", [host EXCEPT !.binaries[bin].capable = TRUE])

\* The kernel removes a file's capabilities when its owner is set.
Chown == Do("chown", "chmod", [host EXCEPT !.binaries[bin].capable = FALSE])

Chmod == Do("chmod", "toml", [host EXCEPT !.binaries[bin].restricted = TRUE])

OpenSudoers ==
    /\ ans.mode = "sudo"
    /\ Do("downscope", "sudoers", [host EXCEPT !.sudoers = TornFile])

\* Mutant of FillSudoers: the file is written under --dry-run too.
FillSudoersAlways ==
    /\ pc = "sudoers" /\ pc' = "visudo"
    /\ host' = [host EXCEPT !.sudoers = Rule(bin, ans.usersValid)]
    /\ UNCHANGED script

FillSudoers ==
    Do("sudoers", "visudo", [host EXCEPT !.sudoers = Rule(bin, ans.usersValid)])

\* Mutant of Visudo: a refusal is only a warning.
VisudoWarning == Do("visudo", "toml", host)

\* The file that visudo refuses stays where it is.
Visudo ==
    IF dry \/ ans.usersValid THEN Do("visudo", "toml", host) ELSE Die("visudo")

NoDownscope == ans.mode = "none" /\ Do("downscope", "toml", host)

-----------------------------------------------------------------------------
(* write_jacamar_toml, register_runner, verify_and_start *)

OpenToml == Do("toml", "filltoml", [host EXCEPT !.toml = TornFile])

FillToml == Do("filltoml", "register", [host EXCEPT !.toml = Toml(ans.mode)])

\* Mutant of SkipRegistration: a runner found is wired all the same.
SkipToWiring ==
    /\ ~dry /\ HasEntry(host.config, ans.name)
    /\ Do("register", "append", host)

\* The early return leaves out the wiring as well.
SkipRegistration ==
    /\ ~dry /\ HasEntry(host.config, ans.name)
    /\ Do("register", "start", host)

Register ==
    /\ dry \/ ~HasEntry(host.config, ans.name)
    /\ Do("register", "append", [host EXCEPT !.config = Append(@, Entry(ans.name))])

\* In TOML the table belongs to the last [[runners]] entry above it.
AppendCustom ==
    Do("append", "start",
       IF dry THEN host
       ELSE [host EXCEPT !.config[Len(host.config)].custom = Append(@, bin)])

RestartService == Do("start", "done", [host EXCEPT !.service = TRUE])

Finish == Do("done", "idle", host)

-----------------------------------------------------------------------------
(* A failing command ends the run (set -e), a kill does at any place; a    *)
(* killed clone may leave its directory behind.                            *)

Stop ==
    /\ pc \notin {"idle", "done"} /\ stops < MaxStops
    /\ pc' = "idle" /\ stops' = stops + 1
    /\ \/ UNCHANGED host
       \/ /\ pc = "build" /\ ans.binary = "build" /\ host.source = "none" /\ ~dry
          /\ host' = [host EXCEPT !.source = "partial"]
    /\ UNCHANGED <<ans, dry, bin, runs>>

\* The administrator removes an entry, as the script's warning asks.
RemoveEntry(i) ==
    /\ pc = "idle"
    /\ host' = [host EXCEPT !.config =
                    SubSeq(@, 1, i - 1) \o SubSeq(@, i + 1, Len(@))]
    /\ UNCHANGED <<pc, script>>

Next ==
    \/ \E a \in Answers, d \in BOOLEAN : Start(a, d)
    \/ InstallPackages \/ InstallRunner
    \/ UseExisting \/ NoExisting \/ Clone \/ Pull \/ Make \/ Resolve \/ NothingBuilt
    \/ Setcap \/ Chown \/ Chmod
    \/ OpenSudoers \/ FillSudoers \/ Visudo \/ NoDownscope
    \/ OpenToml \/ FillToml
    \/ SkipRegistration \/ Register \/ AppendCustom \/ RestartService \/ Finish
    \/ Stop
    \/ \E i \in DOMAIN host.config : RemoveEntry(i)

Spec == Init /\ [][Next]_vars

-----------------------------------------------------------------------------
(* Properties *)

\* Every variable holds a value of its kind.
TypeOK ==
    /\ host \in Hosts /\ pc \in Places /\ ans \in Answers
    /\ dry \in BOOLEAN /\ bin \in Binaries
    /\ runs \in 0..MaxRuns /\ stops \in 0..MaxStops

\* However often the script is stopped and run again, whatever the answers,
\* and whichever entries the administrator takes out in between, no runner is
\* registered twice and none has two [runners.custom] tables, which
\* GitLab Runner could not read (register_runner: a name found in the file
\* skips the wiring together with the registration).
ConfigStaysReadable ==
    \A i, j \in DOMAIN host.config :
        /\ host.config[i].name = host.config[j].name => i = j
        /\ Len(host.config[i].custom) <= 1

\* A runner is wired to Jacamar unless a run was cut between registering it
\* and appending its table, and never to a binary that was not installed.
WiredUnlessCut ==
    \A i \in DOMAIN host.config : LET c == host.config[i].custom IN
        /\ c = <<>> => stops > 0 \/ (pc = "append" /\ i = Len(host.config))
        /\ \A k \in DOMAIN c : host.binaries[c[k]].present

\* A run that reaches its end has installed what its answers ask for, whatever
\* earlier runs left: a usable binary, restricted to gitlab-runner or named by
\* a sudo rule that parses, a complete jacamar.toml with the same mode, a
\* registered runner and a service restarted with them.
FinishedIsConfigured ==
    pc = "done" /\ ~dry =>
        /\ host.packages /\ host.runner /\ host.service
        /\ host.binaries[bin].present
        /\ ans.mode = "setuid" => host.binaries[bin].restricted
        /\ ans.mode = "sudo" => host.sudoers = Rule(bin, TRUE)
        /\ host.toml = Toml(ans.mode)
        /\ HasEntry(host.config, ans.name)

\* A run with --dry-run leaves the host as it found it, wherever it ends.
DryRunChangesNothing == [][dry /\ pc # "idle" => host' = host]_vars

\* JACAMAR_CI_SETUP.md:58-60: the setuid mode "grants cap_setuid,cap_setgid to
\* the binary".  The chown that follows setcap takes them away again.
SetuidHasCapabilities ==
    pc = "done" /\ ~dry /\ ans.mode = "setuid" => host.binaries[bin].capable

=============================================================================
