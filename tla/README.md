# A TLA+ verification project for the HPC operations tools

The repository is a collection of operations tools for HPC clusters. Two of
them act on compute nodes by themselves, with nobody watching: `chpc`, a health
check daemon on every node that drains the node it runs on, and
`slurm_monitor`, an agent beside the Slurm controller that fixes, resumes or
drains any node. A third, the security-vulnerability helper, keeps vulnerability
feeds, collects what hosts look like and reports what is wrong with them. A
fourth installs a CI runner with elevated privileges; a suite of helpers writes
scripts from templates, and a form writes billing statements. What these keep in
step across processes, crashes and commands of uncertain outcome, and what they
conclude from what they could read, is modelled here in TLA+ and checked with
TLC; of every one of these models the safety properties are theorems, proved with
TLAPS for every value of the parameters.

## 1. The system

### 1.1 Components

| Component | Source | State it keeps | Operations |
|---|---|---|---|
| chpc daemon | `chpc/daemon.py`, `chpc/checks/base.py` | local variables of a cycle | ask the resource manager, reconcile the books, load checks.conf, run each check, record, decide, drain or resume |
| chpc state database | `chpc/state.py` | SQLite: `check_state` (consecutive failures of each check), `drain_state` (drains in force) | `record_result`, `mark_drained`, `clear_drained`, `clear_all_drained`, `is_active`, `active_drains` |
| chpc backends | `chpc/backends/*.py` | none; the node lives in Slurm or PBS | `drain`, `resume`, `is_drained` through a runner with a timeout |
| chpc checks.conf | `chpc/checks/parser.py` | a file | parse the lines whose host mask matches |
| chpc command line | `chpc/cli.py` | none | `run [--once]`, `resume`, and commands that only read or install |
| chpc checks and baseline | `chpc/checks/builtin.py`, `chpc/baseline.py`, `cmd_install` | `baseline.yaml`, `checks.conf` | capture what the node has; generate checks; measure and compare |
| chpc recovery, configuration, CPU pinning | `chpc/recovery.py`, `config.py`, `cpuaffinity.py` | none | advise, load, pin |
| slurm_monitor agent | `slurm_monitor/agent.py`, `remediation.py` | local variables of a poll | list all nodes, then for each: recognise recovery, respect quarantine, count, fix and resume, or drain and quarantine |
| slurm_monitor history | `slurm_monitor/history.py` | SQLite: `occurrences`, `quarantine`, `actions` | `record`, `prior_occurrences`, `mark_quarantined`, `clear_quarantine`, audit log |
| slurm_monitor client and classifier | `slurm_client.py`, `models.py`, `classifier.py` | none | parse `scontrol show node`, drain, resume, classify a reason |
| slurm_monitor command line, diagnostics, notifications | `cli.py`, `diagnostics.py`, `notify.py` | none | `resolve` clears quarantines; the rest reads or reports |
| sec-vuln helper: feeds | `feeds/feed_store.py`, `feeds/updater.py`, `cli.py` | one JSON file for each system | prompt, download or import, save, read |
| sec-vuln helper: normalisers | `feeds/normalize_*.py` | none | turn an OVAL document or an MSRC export into records |
| sec-vuln helper: matching | `feeds/matcher.py`, `rpmver.py` | none | compare versions and builds |
| sec-vuln helper: collectors and rules | `collectors/`, `rules/` | the collected JSON | read settings as far as permitted; judge them |
| sec-vuln helper: reports | `report/`, `cli.py` | none | group findings, give fix steps, lay out |
| helper suite | `chpc_helper_core/`, `chpc_{bash,python,ansible}_helper/` | the output file | ask by wizard or take flags, prepare, render, write in place, check the syntax |
| billing statement builder | `billing-statement-builder/` | a form; the decoded template, the document and the settings, a file each | edit and preview, generate, remember, reset |
| Jacamar CI installer | `jacamar/install_jacamar_ci.sh` | files and a runner registration | install, build, grant, register, wire, restart; may be cut and run again |
| systemd units, examples | `systemd/`, `config/` | none | restart the two loops |

### 1.2 How they interact

* The chpc daemon and `chpc resume` (and `chpc run --once`) are separate
  processes on one SQLite file and one node. Each method of `State` commits by
  itself; nothing spans two of them. `record_result` reads in one statement and
  writes in another, and a `SELECT` of Python's sqlite3 opens no transaction.
* The daemon and the resource manager disagree for a while after every
  administrator's action and after every command that timed out or failed. The
  daemon closes its books only when the resource manager says "not drained".
* The agent lists all nodes first and then handles them one by one; in between
  they move. `slurm-monitor resolve` deletes quarantines in a process of its own.
* chpc and slurm_monitor meet on the node and nowhere else: the agent classifies
  the reason chpc has written as one of its own categories, and what the agent
  does is to chpc some administrator's doing.
* A scan reads a feed three times (prompt, report, matching) while another
  process may be truncating and refilling it; one OVAL download is saved as two
  feeds, one MSRC export as up to two.
* The daemon loads `baseline.yaml` and `checks.conf` anew each cycle, while
  `chpc install` and `chpc baseline recapture` write both in place.
* The collector's JSON is all the rules and the matcher know of a host: `None`
  there is no finding, but not all that could not be read is `None`.
* The installer's runs meet in the files earlier runs left, above all in
  `config.toml`, which only ever grows by appending.
* Wizard and flags of a helper are two ways to the same rendering; the script is
  written over the one that is there before it is checked.
* The billing form's preview and `build_statement` take the sums from the same
  function, but at different times; template, document, logo and settings are
  written one after the other, and what earlier runs left of them is taken up.

### 1.3 What is hard, and what makes each part correct

| Part | Hard because of | Correct when |
|---|---|---|
| chpc books | commands of unknown outcome, crashes between command and record, other hands on the node | a drain in force is on the books; reconciliation never forgets one |
| chpc counter | two processes, a read apart from its write, crashes in mid-cycle, clearing in between | it never claims more failures in a row than there were; the node is drained at the threshold, not before, and in the end |
| chpc auto-resume | books of several checks for one node | only for an opted-in check that passed; finished in the end |
| agent: fixes | a crash between fix and record, resolve in between, a sliding window | fewer than the threshold in any window |
| agent: drains | stale listing, recurrence counted across restarts | only for a problem that recurred; administrators' drains untouched |
| agent: quarantine | entered before the drain, left on a reading | held until the node has been back in service; left then |
| feeds | files written in place, killed processes, one download for two feeds | a copy is never newer than its original; what was announced is what is used |
| checks and baseline | files read while they are written, probes that fail together with what they measure, one trouble hiding another | no failure of a healthy node, no loss passed over |
| normalisers and matching | rpm's order of versions, criteria flattened, several versions installed at once | every vulnerability the host has is found, none is made up, updating never adds one |
| collectors and rules | sources that are closed or mute, what is made of them, defaults and precedence, steps that change something else | a finding is true of the host; what can be read is not missed; following the report helps |
| chpc beside the agent | each takes the other for somebody else; the agent acts on a listing that may be older than chpc's drain | neither undoes what the other was right to do, and together they come to rest |
| helpers | templates in templates of flat text, values that look like markers, two ways of asking, a file written in place | the script is what the template means; flags and wizard agree; nothing is given up for a script that cannot be written |
| billing | edits in any order, amounts mistyped, a table to be made longer or shorter, files written one by one | what is shown is what is written and adds up; what is remembered has worked |
| installer | runs cut anywhere and repeated with other answers | its files stay readable and belong together; a run that ends has done what it was asked |

`PROJECT.json` lists every hazard at its line with the properties that cover it.

## 2. The models

Each model keeps every guard, branch, early return and state change of the code
and the order they come in, and takes one step for each access to something
shared: a command to the resource manager, a SQLite statement with its
transaction, a file truncated, a file filled. Two things that take longer are one
step in `NodeChecks`: a capture with the truncation of its file, and a check,
which may look at the node several times. Reasons, logs, e-mails, layouts
are left out.

### 2.1 chpc

    ChpcState <- ChpcBackend <- ChpcCycle <- Chpc <- MCChpc, ChpcProofs
                                                |
                                           ChpcPolicy (refined by Chpc)

| Module | Models | Correspondence |
|---|---|---|
| `ChpcState` | `chpc/state.py` | `fails[k]` is `consecutive_fails`, `active` the rows with `active = 1`; a missing row reads as zero and inactive, so both are total. `NextCount` is the read of `record_result`, `StoreResult` its write. |
| `ChpcBackend` | `chpc/backends/` and the node | `node.up` is whether the node is in service, `node.by` on whose account it last moved (what `Reason=` tells). `Outcomes` are the three ends of a command: reported and obeyed, reported failed though obeyed (timeout), failed. `Mode` is live, dry run or no backend. |
| `ChpcCycle` | `Daemon.run_once`, `_evaluate` | `pc` names the next shared access; `specs`, `pos`, `count` are the loop's locals (`count = 0` exactly when the check passed). `evidence` is a history variable: how many cycles in a row really failed, as recorded. |
| `Chpc` | `run_forever`, `chpc resume`, crashes, everyone else | `cliPc`, `cliTodo` are the other process; `disruptions` counts how often each kind of disturbance has happened, within `MaxDisruptions`. |
| `ChpcPolicy` | what chpc promises | `Drain(k)` needs `Threshold` failed cycles in a row of `k`, `Resume(k)` an opted-in `k` that has just passed; anything else that moves the node is someone else |

The abstract specification has no counter, no books and no cycle: two
variables, `node` and `evidence`. That the daemon implements it means that
whatever crashes, stale answers and `chpc resume` do to its books, they never
lead it to drain early or to resume on its own. In `ChpcCycle` a check passes
or fails freely; what makes it pass or fail is `NodeChecks`.

### 2.2 slurm_monitor

    MonitorCluster <- MonitorHistory <- MonitorAgent <- Monitor <- MCMonitor, MonitorProofs
                            ^                              ^
                       MonitorPolicy (refined)        MonitorClaims <- MCMonitorClaims

| Module | Models | Correspondence |
|---|---|---|
| `MonitorCluster` | Slurm's nodes; `slurm_client.py`, `classifier.py` | a reason is the category `classify` gives it, plus `note`: whether the agent wrote it. `Read` is `parse_node_line` on that: the note quotes `State=RESUME`, which the Key=Value scan takes for the node's state. |
| `MonitorHistory` | `history.py` | `occurrences[p]` holds the ages of the rows of pair `p`, counted back from the `now` of the current poll; ages above the window appear in no answer again and are dropped. `quarantined` are the uncleared rows. |
| `MonitorAgent` | `Agent.poll_once`, `_handle_node`, `attempt_fix` | one action per branch of `_handle_node`; `Recurrence`, `MarkQuarantined`, `ForceDrain` and `FirstSighting`, `TryFix`, `ResumeFixed` are separate steps, as they are separate commits and commands. `seen` is the listing the poll works from. `fixes` is a history variable. |
| `Monitor` | loop, crashes, `resolve`, everyone who moves nodes | |
| `MonitorClaims` | history variables for what the documents say of quarantine | |
| `MonitorPolicy` | what slurm_monitor promises | a fix only for a problem sighted just now and fewer than `Threshold` times in the window; a resume only after a fix of this poll; a forced drain only for a problem sighted `Threshold` times |

### 2.3 Feeds of the sec-vuln helper

    FeedStore <- Feeds <- MCFeeds, FeedsProofs

`FeedStore` is `feed_store.py`: a file is missing, torn (truncated and not yet
filled: not JSON) or complete with the number of its update and whether it is
too old. `Feeds` is `cmd_scan`, `cmd_update_feed` and `updater.py`: a run is
`scan`, `update` or `import`, and moves from its prompt over the question,
saving (`OpenFeed` truncates, `FillFeed` fills, `Confirm` reads the feed back as
`get_feed_info` does after the last one) to the two reads of a scan. Kills and
failed writes may come at any point. `RHEL` is saved before `Rocky`; the
versions of an MSRC export come in the order of its rows.

### 2.4 What chpc measures

    NodeChecks <- MCNodeChecks, NodeChecksProofs

`node` is what the hardware is and at most one trouble it has; a check is a
predicate `...Fails` of the baseline loaded and the node, and `Fails` the table
`BUILTIN_CHECKS`. A check that raises has failed, as in `_evaluate`: the name of a
process that is not UTF-8 does that to `check_zombie_processes`. A baseline is missing, empty (being written, or cut short) or
captured, and then named by the node it was captured from; `GpuCount` and
`HasMemory` say what the capture made of probes that did not answer. `pc` and
`draft` are the one command that is running (`CaptureAndTruncate`, `Save`,
`OpenChecks`, `WriteChecks` are its reads and writes; `Kill` may fall between
any two), `base` and `specs` the cycle that goes on meanwhile: it loads one file
after the other (`LoadBaseline`, `LoadChecks`). Limits of the
checks on load, disk, inodes, swap and zombies are a trouble each, as the
properties ask only whether they are exceeded; memory, processors and GPUs are
numbers.

### 2.5 Known vulnerabilities

    RpmVersion <- VulnFeed <- VulnScan <- MCVulnScan, SecVulnProofs

`RpmVersion` is `rpmver.py` on versions already cut into runs of digits and
letters, each with the tilde or the caret before it, at which the code does not
look. `VulnFeed` turns the two vendors' documents into records: an OVAL
definition has its criteria in disjunctive form, of which `parse_oval` keeps
the tests and forgets the form. `VulnScan` is the scan: `match_linux`,
`match_windows`, the filtering and grouping of `cmd_scan`; its actions are the
updates of the host (`DnfUpdate` with packages of which rpm keeps old versions,
`WindowsUpdate`, `FeatureUpdate`). What is right is defined independently of the
code: `RpmOrder` is rpm's own comparison, with both marks (`MarkRank`), `Applies` OVAL's reading of the criteria, `OlderThan` the export's.

### 2.6 Hardening

    Hardening <- MCHardening, SecVulnProofs

All 31 rules. `host` has for each rule the value in each place its setting lies
in (`Layout`): `/etc/passwd` and `/etc/shadow`, the two files of PAM, drop-ins and
main file of sshd, a policy and a preference of Windows. `Of(best, fine, open)` are
the values a place can have and, as the reference, which of them leave a host
open, written down from what settings mean and not from the rules. `status` says
of each source whether it is read, closed, or a command that prints nothing;
`launch` with which execution policy Windows started the collector.

`Collected(r)` is the set of what the JSON says of the setting, empty for `None`,
by one operator for each way of collecting: from one place (`CollectValue`), from
a place that overrides another (`CollectLayered`), from PAM, sudoers, the
accounts, the registry. `Taken` is what the collector takes a value for, as when
only services are listed. `LinuxCheckFails` and `WindowsCheckFails` are the
rules' conditions. `Fix` follows the fix steps of a finding and does what they
say, which is not always to set the best value: `Mend` has those that change one
place of several or set what only a restart completes (`Settle`), `Changes` those
that leave the reader a choice. A scan reads and writes nothing on the host, so
that the collectors and the rules are operators and the actions are the host's.

The properties name what the code does not keep, rule by rule:

* `Guessed`, excepted from `NoFalseFailure` and `FixesHold`: a unit about which
  `systemctl` prints nothing is inactive; of sshd's files, those that can be read
  are all there is; PAM files that exist and cannot be read have no
  `pam_faillock` (`linux_collector.py:316-317`); a value of the registry that cannot be
  read is like one that is not set (NLA, SmartScreen, AutoPlay:
  `windows_collector.ps1:104-108`, `161-167`, `185-186`). For automatic updates the same
  guess (`115-123`) is that they are on, which is no finding; a source was not read,
  so `NoMissedSetting` does not speak of it.
* `Overlooked`, excepted from `NoMissedSetting`: a `minlen` or a `PASS_MAX_DAYS`
  that is not set or is no number; sockets, as only units of `--type=service` are
  listed (line 138) while the rule looks for `telnet.socket` and `tftp.socket`
  (`linux_rules.py:135`); faillock in one file of two, or in a comment; an empty
  password in `/etc/passwd` itself; a keyword of sshd in another case, or under
  `Match`; SMBv1 until the restart; updates that are paused; BitLocker with its
  protection suspended; the policy `Bypass`, on the host or by the launcher.
* `NotMended` and `Remains`, excepted from `FixesHold`: the steps for automatic
  updates and AutoPlay change what the collector does not look at; those for
  sshd edit the main file and those for SmartScreen a preference, which a drop-in
  or a policy overrides; files, NOPASSWD entries and accounts may be kept or, of
  more than five, not be shown; an encryption goes on for a while.

(`HardeningSpec`, `RuleFindings` and the like bear such names because the proofs
take the module together with `VulnScan`; `auto_updates_off` stands for the Windows
rule `auto_updates_disabled`, an id the Linux rules have as well.)

### 2.7 The Jacamar CI installer

    Jacamar <- MCJacamar, JacamarProofs

One action per command that changes the host, `Do(from, to, host)` for those
that go through `run` or `write_file` and so leave a dry run alone. A file is
truncated and then filled; `config` is the sequence of `[[runners]]` entries,
each with the `[runners.custom]` tables that follow it. `Stop` is a failing
command (`set -e`) or a kill, at any place.

### 2.8 chpc and slurm_monitor on one node

    ChpcCycle, Monitor <- Cluster <- MCCluster, MonitorProofs

`Cluster` is the agent's model with one of its nodes, `Host`, run by chpc:
`node` is that node as `ChpcCycle` keeps it, `rm[Host]` as `MonitorCluster`
does. Each step of a tool changes its own view by its own rules and the other's
by what the change looks like from there: a drain by chpc is to the agent a
reason of the category `CategoryOf` (what `classify` makes of the text
`build_reason` writes), a move by the agent is to chpc the hand of somebody
else. `drainListed` and `forced` are history: whether the drain in force was
there when the agent listed the nodes, and whether the agent has forced the node
out and nobody put it back.

### 2.9 The helper suite

    ScriptTemplate <- ScriptBuild <- MCScriptBuild, ScriptProofs

`ScriptTemplate` is `engine.py` on text cut into tokens: a text is a function from
places to tokens, and what a pass takes out leaves its place empty. `Pass` is one
pass of the regular expression over the flat text: `Found` are the blocks it
finds, from the left, each up to the nearest end (`End`) and none within another;
`Gone` is what goes of each. `Resolve` is the loop over passes, `Substituted`
puts in the values. `Meaning` is the reference: a template also has `ends`, where
each block ends to its author's mind; a place counts if every block around it is
on, and of what counts the markers go. `ScriptBuild` is `build` from the command line to the exit status:
`phase` is where it is, `asked` counts the questions the wizard has put
(`VariableAnswers`, `GroupAnswers` are what it takes), flags are taken at once;
rendering, the confirmation, truncating, filling and `chmod` of the file, and
the syntax check follow, and the process may be killed before each. `reader` says
whether somebody reads the output (`HangUp` ends it): a print may then raise
BrokenPipeError, which `main` turns into status 0 (`SayAndExit`), and output that
waits in the buffer cannot be flushed, upon which Python exits with 120 (`Exit`).
`Choke` is an answer that `isdigit()` takes for a number and `int()` does not.

### 2.10 Billing

    Statement <- Billing <- MCBilling, BillingProofs

`Statement` is `statement_builder.py`: the sums, and the activity table made to
measure from the template's rows by cloning and removing them, with the indices
of the code (`Grown` and `Shrunk` are the two loops). `Billing` has one action for each handler of the form; Tk runs one
at a time. Generate is cut into its accesses to files (`pc`), as the program may
die between them. `data` is what Generate collected, `preview` the totals shown,
`behind` is history: a recalculation was given up over a past due nobody could
read.

## 3. The runs

Passing runs:

| Run | Instance | What it checks |
|---|---|---|
| `chpc` | two checks, two contents of checks.conf (one with a misspelt name), threshold 2, one crash of the daemon or kill of `chpc resume`, one use of `chpc resume`, one intervention; 0.20 M states | `TypeOK`; `CountsAreEvidence`: the counter stored and the one acted on never exceed the failed cycles in a row; `WipeSparesOwnDrains`: when reconciliation wipes the books no drain of chpc's own is in force, although the answer it acts on is old; `DrainIsBooked`: undisturbed by a crash or `chpc resume`, every drain imposed is on the books; `ImplementsPolicy`: refinement of `ChpcPolicy`; `PersistentFailureDrains`, `BooksFollowNode`, `AutoResumeCompletes`: what must happen in the end does |
| `monitor` | two nodes, a self-healing category and administrators' drains, window 1, threshold 2, one crash; 44 K states | `TypeOK`; `FixesAreRare`; `ImplementsPolicy`: refinement of `MonitorPolicy`; `PersistentProblemHeld`: once polls are on time, a problem that stays ends with the node drained on the agent's note or in quarantine; `RecoveredNodeReleased` |
| `cluster` | one node with both tools, one check whose reason the agent takes for unknown, a self-healing category and administrators' drains, one crash of either tool, one move by somebody else; 0.12 M states | `ListedDrainStands`: the agent ends a drain of chpc's that it has listed only for a reason it heals; `ForcedOutStays`: a node the agent has forced out is put back only by a human, for an opted-in check, or for a reason the agent heals written over its note; `ToolsConverge`: a lasting failure the agent does not heal ends with the node out for good, not put in and out for ever |
| `helper` | 27 templates of blocks in blocks and one with a choice, two applications, wizard and 72 command lines, a file that is there or not, a reader that may hang up; 0.38 M states | `RenderIsMeaning`: the passes over flat text render what the blocks mean; `OneBranchPerGroup`; `FlagsMatchWizard`: a variable, toggle or group given by flag has the value the same answer gives it, one left out that of Enter; `OverwritesOnlyToSucceed`: no refusal and no template that does not render costs the script that is there; `SuccessIsWhole`: status 0 means the whole script, or that nobody read the output and the file is untouched |
| `billing` | a template of two rows, statements of none to three lines, amounts mistyped, kills and failures at each file; 0.32 M states | `PreviewAgrees`; `StatementAddsUp`: table and summary agree whatever rows were cloned or removed; `SavedIsWhole`: "saved" is said of a whole document with the lines, figures and logo of the form; `RemembersWhatWorked` |
| `feeds_safety` | four systems, three updates, two kills or failed writes; 1.4 M states | `RockyNeverAhead`: the feed of Rocky, a copy, is never of a later update than a complete one of RHEL; `UpdateIsUsed`: a scan that told its user of an update evaluates that update |
| `node_checks` | a node of three sizes with fifteen troubles, nvidia-smi silent, a file system not mounted; a file of all checks; one kill; 1.0 M states | `FailuresAreReal`: a check fails only of a node that is not in health or not as captured, with a baseline that is missing, empty or stale on disk; `LossIsNoticed`: with a file of all checks no loss passes them all; `CaptureLasts`: after a capture there is a baseline, save while or after another is cut |
| `vuln_scan` | two packages, eight versions that differ in each part or by a tilde or a caret, some 300 OVAL documents; three builds with three revisions, all exports of two rows; 0.47 M states | `NoMissedVulnerability`; `NoFoundlessFinding`; `UpdatesNeverExpose`: no update adds a finding |
| `hardening` | 31 rules, two settings or sources astray at once; 8.7 K states | `NoFalseFailure`: a finding is true of the host; `NoMissedSetting`: what leaves a host open and can be read is found; `FixesHold`: following the steps of a finding closes it; each but for the exceptions of 2.6 |
| `jacamar_safety` | two names, all answers, three runs, one of them cut; 1.4 M states | `ConfigStaysReadable`: no runner twice, none with two tables; `WiredUnlessCut`: every runner has its table unless a run was cut; `FinishedIsConfigured`; `DryRunChangesNothing` |

The type invariants are checked for chpc and slurm_monitor, the two at the bottom
of compositions. The other modules state theirs as documentation of their
variables; those of the feeds, of the checks, of the scan, of the installer and of
the helper suite are proved.

Runs that end in a counterexample, each of one statement of the repository that
the code does not keep (`findings` in `PROJECT.json` quotes the statements):

| Run | Property | What happens |
|---|---|---|
| `monitor_quarantine` | `QuarantineHolds` | the agent's own note makes the drained node look recovered at the next poll, which ends the quarantine |
| `jacamar_caps` | `SetuidHasCapabilities` | the script sets the capabilities and then the owner, and with that the kernel removes them: under `setuid` the runner ends with a binary that can change to no user |

Further disagreements met while modelling, without a run of their own.

chpc:
* The drain belongs to the node, the books to checks: when an opted-in check
  passes, its auto-resume lifts the drain another check has imposed that nobody
  opted in (`daemon.py:108`, against the docstring in lines 7-9: chpc "never
  auto-resumes a node on its own unless a specific check name is explicitly
  opted", and "by default a human always closes the loop").
* `chpc run --once` beside the daemon (`CHPC_MANUAL.md` offers it for testing
  the real decision logic): one process reads the counter, the other records a
  pass, the first writes its old count plus one, and the node is drained without
  a streak. `chpc resume` in the same place is undone in the same way.
* With one line twice in checks.conf a single failed cycle counts twice. The
  theorems carry the assumption `NoRepeatedLine` for this reason, and the
  instances have no such file.
* `check_dir_size` passes a tree too big to scan even when what it has counted
  exceeds a limit; it counts files where its text says entries, and passes over
  subtrees it cannot read. `LossIsNoticed` excepts both.
* A process whose name is not UTF-8 makes `check_zombie_processes` raise
  (`builtin.py:299`), which counts as a failure and may drain a node in health
  (`checks/builtin.py:9-13`). `FailuresAreReal` counts such a name among the troubles.
* A check skipped for want of a baseline is a pass and resets the counter. A
  probe of GPUs that fails during a capture is recorded as no GPUs.

slurm_monitor:
* All nodes are listed before the first is handled, so that a drain an
  administrator sets meanwhile can be resumed or overwritten (`README.md`:
  "Admin-initiated drains are left alone, always").
* The command of an automated fix is run as if it only read, past the dry-run
  switch (`config/slurm_monitor.example.yaml`: "every state-changing scontrol
  command" is logged).
* Ending a quarantine keeps the occurrences that led to it: within the window
  the next sighting forces the drain at once, and is no "fresh first sighting".
* A problem nobody has touched counts as recurring at every poll.

* The two together: when the agent has forced a node out and chpc drains it over
  the agent's note, for a reason the agent heals, the agent no longer knows the
  drain for its own and may resume the node. `ForcedOutStays` excepts it.

sec-vuln helper:
* `prompt_update_if_stale` "never raises", but an interrupted transfer, a
  truncated archive, malformed XML or a torn feed does; `save_feed` leaves a
  torn feed when killed.
* A tilde sorts before everything for rpm, a caret before everything but the
  end; both are separators in `rpmver.py`, whose docstring has it compare "exactly
  the same way `rpm`/`dnf` themselves" do (lines 1-15): `1.0~rc1` counts as newer
  than `1.0`, `1.0^20240101` as newer than `1.0.1`. The instance has such versions; the
  properties of `VulnScan` except the tests and updates they take part in, and
  fail without the exception.
* What cannot be checked is "skipped and noted, never guessed"
  (`linux_collector.py:6-7`, `windows_collector.ps1:7-9`): the guesses listed in 2.6
  are such checks. A finding that follows from one is false on a hardened host.
* What the collectors overlook and what fix steps leave as it is, likewise
  listed in 2.6. "Automatic Windows Updates are disabled or paused"
  (`windows_rules.py:55`) is never said of updates that are paused, and its steps
  do not undo the policy that it is said of.
* A file that is not UTF-8 raises UnicodeDecodeError in the Linux collector,
  which catches OSError only: there is no JSON then. A listing of world-writable
  files of which the rule's evidence shows five is closed one scan after another.

Helper suite:
* Values typed or given by flags that hold a block marker fail the rendering,
  but one that holds `{{X}}` ships it literally (`engine.py:27-31`: never).
* Flags are not validated: choices, limits and empty values the wizard refuses
  are taken, unknown names are ignored, `--var N=` gives an empty text where
  Enter gives the default, and a `--toggle-group` of no known value turns every
  branch of the group off. `FlagsMatchWizard` and `OneBranchPerGroup` are
  conditioned accordingly. With `--yes` a variable without a default is empty.
* The wizard ends with status 0 when the syntax check fails (`cli.py:194`), and
  does not catch a rendering that fails; flags end with 1. The script stays
  although its check has failed. A checker that is not installed has passed.
* The script is written in place: a kill leaves part of it, and a value that
  cannot be encoded, which is found while the file is filled, costs the old one.
* A BrokenPipeError anywhere in a command ends it with status 0 (`cli.py:230-235`,
  meant for `list | head`): with its output a closed pipe, a `build` that was
  refused, cancelled or could not render reports success without a script.
  Where the output is buffered the status is 120, because the interpreter cannot
  flush it, and so it may be of a build that went well.
  `SuccessIsWhole` excepts a command nobody reads, and only if the file is untouched.
* A superscript digit as the number of a choice passes `isdigit()` and raises
  ValueError in `int()` (`wizard.py:112`), which ends the wizard.

Billing:
* While the past due cannot be read every recalculation is given up, and putting
  it right starts none: the preview stays behind what Generate then writes
  (`billing_app.py:376-380` and `statement_builder.py:114-116`: the two "can never
  disagree"). `PreviewAgrees` and `SavedIsWhole` are conditioned on `behind`.
* Reset leaves a half-typed line, methods of payment, the payee and the due date
  although its dialog says it clears the form (`billing_app.py:472-473`).
* A template cut short while it is decoded is taken for the template ever after
  (`billing_app.py:42-59`): Generate then fails until the file is removed.
* A logo that cannot be read is reported as "could not build", but leaves a whole
  document with the default logo. "nan" and "inf" are amounts.

Jacamar installer:
* The sudoers file is "validated with `visudo -c` before being left in place"
  (`JACAMAR_CI_SETUP.md:65-66`): one that fails validation is left in place, and the
  script ends (`install_jacamar_ci.sh:461-463`). `FinishedIsConfigured` speaks of the
  runs that end well.
* A run cut between registering a runner and appending its table is not mended
  by the next ("Re-running this script is safe"): `WiredUnlessCut` excepts it.

### 3.1 Bounds, and why they are enough

* `MaxCount` = 3 with `Threshold` = 2: one below, at and one above the
  threshold. The code compares a counter with the threshold and with nothing
  else, so a counter that stays at the cap decides as a larger one would.
* `MaxDisruptions` allows one of each kind of disturbance of chpc: a crash (of the
  daemon, or of `chpc resume`), a `chpc resume`, an intervention. The
  interleavings that matter need two of different kinds: a crash and an
  intervention, or `chpc resume` started and killed. The cycle itself is not
  bounded: every run explores any number of cycles.
* `Window` = 1 and `Threshold` = 2 for the two nodes of `monitor`, with polls up
  to two apart: a sighting is on the window's edge or just outside. `cluster` has
  `Window` = 2, with sightings inside as well. `MaxCrashes` = 1, at any of the
  points between two commits.
* `cluster` has one check and one move by others. A second check would add what
  `chpc` explores already; what it would change between the two tools is covered
  by the theorems, which hold for any checks and any number of moves.
* `MaxPasses` = 3 for `helper`, where the code has 20: blocks two deep take two
  passes and a third finds none, and no template of the three libraries nests
  deeper. What the model assumes of a library (`TemplatesAssumption`: blocks
  properly nested, none in one of its own name; `NamesAssumption`: names and
  values that differ, a group's default among its values; `DefaultsAssumption`:
  defaults spelt as they are written out) holds of all 48 templates of the three
  libraries, as far as it is about them. The texts typed are empty, a number in two spellings, a
  name, a choice in the wrong case, and one with a marker in it.
* `billing` has a template of two rows with none to three lines: fewer, as many
  and more lines than rows. Two amounts, a charge, a payment and a garbled charge
  are enough to tell sums apart.
* `MaxUpdates` = 3 with the last number used again, `MaxAccidents` = 2: an older
  update is overtaken by a newer one while a torn file of an accident lies about.
  One process updates: `OneAtATime` is the theorem's assumption too. With two,
  the feeds can be interleaved in either order, which the code does nothing to
  prevent.
* `MaxKills` = 1 for `NodeChecks`: a kill leaves at most an empty file, and a
  second one can leave no more. Its nodes have one trouble at a time, except
  where one hides another (an absent mount that is full, lost GPUs with a silent
  nvidia-smi), and troubles no check tells apart are there once. Memory is on both sides of the tolerance of 2 %.
* `MaxOddities` = 2 for `Hardening`: a rule depends on one setting in at most three
  places; two astray are one that hides the other, or one that is not read beside
  one that is. Each rule has the same two to itself, as none depends on another's
  setting. Numbers are on the limit and next to it on both sides: 13 to 15 for
  lengths, 0, 1, 99998 and 99999 for days. `MaxListed` = 6 files or entries is one more
  than a finding shows. Fixes are not bounded.
* `VulnScan` has no bound of its own: hosts move upwards through finitely many
  versions. Two rows, or one definition with two tests, are what grouping,
  flattening and filtering act on; each test and row is decided by itself.
* `MaxRuns` = 3, `MaxStops` = 1 for `Jacamar`: a cut run, one that meets its
  remains, and one more that would append again what the second appended. Entries
  are removed between runs without bound.

### 3.2 Fairness, and why the code justifies it

`chpc` and `slurm_monitor` run under systemd with `Restart=on-failure`, and both
loops catch every exception and go on to the next cycle: the daemon, the agent
and a `chpc resume` once begun are weakly fair. Crashes are not fair and
bounded. The resource manager may be unreachable for as long as it likes but not
for ever, so a useful answer, a successful drain and a successful resume are
strongly fair, and so are a readable checks.conf and a listing that works.
In `cluster` both loops are weakly fair, and chpc's answer, file and drain
strongly; nothing is assumed of the agent's listings.
`PersistentProblemHeld` makes one more assumption inside the property,
`PollsOnTime`: from some time on polls come within the window of one another (a
poll a minute, a window of a day, by default); without it occurrences would age
away as fast as they come.

No property assumes that a drain of the agent succeeds: a forced drain that
fails is not tried again, and `PersistentProblemHeld` says "drained on the
agent's note or in quarantine" for that reason.

## 4. What is proved

All theorems hold for every value of the constants that satisfies the modules'
named assumptions (which TLC evaluates in the passing runs): any set of checks,
nodes, categories or runs, any contents of checks.conf, any threshold and
window, any backend mode, any number of disturbances.

| Theorem | Says | By |
|---|---|---|
| `ChpcProofs!TypeCorrect` | `Spec => []TypeOK` | one step per action; a lemma for each helper that moves the daemon (`NextLinePlace`, `GotoPlace`, `EndCyclePlace`) |
| `ChpcProofs!CountsCorrect` | `CountsAreEvidence`, unless a line is repeated | `IInv` |
| `ChpcProofs!Refinement` | `Spec` implements `ChpcPolicy!Spec`, unless a line is repeated | `IInv` at each step |
| `ChpcProofs!WipesAreSafe` | `WipeSparesOwnDrains` | `NoOwnDrain` |
| `MonitorProofs!TypeCorrect`, `Invariance` | types, and the inductive invariant | |
| `MonitorProofs!FixesRare` | fewer than `Threshold` fixes in any window | `LatestFixJustified` |
| `MonitorProofs!Refinement` | `Spec` implements `MonitorPolicy!Spec` | `Justified` at each step |
| `ChpcProofs!DrainsAreBooked` | `DrainIsBooked` | `BooksInv` |
| `MonitorProofs!DrainsStand` | `ListedDrainStands` | `ClusterInv` at each step |
| `MonitorProofs!ForcedOutStaysOut` | `ForcedOutStays` | `ClusterInv` at each step |
| `FeedsProofs!TypeCorrect` | types; a run that saves has a feed left | |
| `FeedsProofs!RockyFollows` | `RockyNeverAhead`, while one user at a time updates | `UpdateInv` |
| `FeedsProofs!UpdateUsed` | `UpdateIsUsed`, while one user at a time updates | `UsedInv` |
| `NodeChecksProofs!TypeCorrect` | types; a cycle evaluates only lines that name a check | |
| `NodeChecksProofs!CapturesLast` | `CaptureLasts` | `CaptureInv` |
| `NodeChecksProofs!FailuresReal` | `FailuresAreReal` | the table of checks, a lemma for each kind (`HealthPasses`) |
| `NodeChecksProofs!LossNoticed` | `LossIsNoticed`, if the file names every check | `TroubleFails`, `LossFails` |
| `JacamarProofs!TypeCorrect` | types | |
| `JacamarProofs!DryRunsChangeNothing` | `DryRunChangesNothing` | |
| `JacamarProofs!FinishedConfigured` | `FinishedIsConfigured` | `ModeInv`, `ProgressInv` |
| `JacamarProofs!ConfigReadable`, `RunnersWired` | `ConfigStaysReadable`, `WiredUnlessCut` | `ConfigInv` |
| `BillingProofs!PreviewCorrect` | `PreviewAgrees` | `PreviewInv` |
| `BillingProofs!SettingsFollowSuccess` | `RemembersWhatWorked` | `BuiltAsAsked` |
| `BillingProofs!StatementCorrect` | `StatementAddsUp`, for any template and any lines | `ActivityIs`, `SumIsInt` |
| `BillingProofs!SavedCorrect` | `SavedIsWhole` | `GenerateInv`, `PreviewInv` |
| `SecVulnProofs!TypeCorrect` | types | |
| `SecVulnProofs!NothingMissed`, `NothingMadeUp` | `NoMissedVulnerability`, `NoFoundlessFinding` | `OlderVersion`, `LinuxFound`, `WindowsFound` |
| `SecVulnProofs!UpdatesSafe` | `UpdatesNeverExpose` | `OlderTransitive` |
| `SecVulnProofs!NoneFalse` | `NoFalseFailure` | `FactsTell` |
| `SecVulnProofs!NoneMissed` | `NoMissedSetting` | `FactsComplete` |
| `SecVulnProofs!FixesWork` | `FixesHold` | `HardenedCloses`, `SshMended`, `FactsTell` |
| `ScriptProofs!TypeCorrect` | types; no script that failed to render is on its way to the file | `IInv`, `Texts` |
| `ScriptProofs!RenderCorrect` | `RenderIsMeaning`, for any library and number of passes | `RenderIs` |
| `ScriptProofs!OneBranch` | `OneBranchPerGroup` | `Asked`, `Given`, `GroupsApart` |
| `ScriptProofs!FlagsLikeWizard` | `FlagsMatchWizard` | `Given`, `TogglesAre`, `VariablesAre` |
| `ScriptProofs!OverwritesSafe`, `SuccessCorrect` | `OverwritesOnlyToSucceed`, `SuccessIsWhole` | `Made`, `Written` |

**chpc.** `CountsAreEvidence` says what is true of the database and of the local
count while it is being acted on. It is not inductive: between the read and the
write of `record_result` the local count is ahead of the evidence by the failure
just seen, and `chpc resume` may clear the row meanwhile. `CountIsEarned`
supplies it: at that point the count is one more than the evidence at most, and
at every later point of the same line the decision taken is the one its count
justifies. `NoRepeatedLine` gives the step in between: the line under way is the
first of its key in this cycle, so the write adds one to the evidence as well.
`IInv` is the types and these two. For the refinement, a drain step has `count >= Threshold` and so
`evidence >= Threshold`; a resume step has a count of zero recorded as evidence
of zero. `WipesAreSafe` needs none of the counters: only the daemon puts a drain
on its own account, and it is busy reconciling from the answer to the wipe.

`DrainsAreBooked` follows a drain from the command to the books, which the daemon
clears in two places only: reconciling, where `NoOwnDrain` says that no drain of
chpc's is in force, and after a resume that reported success, which in a live
installation has put the node back (in any other, chpc never drains it).

**slurm_monitor.** `FixesAreRare` bounds the fixes in a window, yet what the
agent looks at is the sightings when it decides, a window that has since moved.
The invariant looks at the latest fix of each pair: at its age `a`, the
sightings up to `a` were fewer than `Threshold`, and every fix in the window is
among them. Time passing moves ages by a translation (`OlderCounts`, an
injection, bounds the cardinality); a new sighting is younger than the latest fix and
leaves that bound alone; a new fix has just had its sightings counted.
`Justified` says the same of the decision under way for the refinement.

**Feeds.** `UpdateInv`: the run that is saving has the latest number of all,
and when it turns to Rocky the feed of RHEL is complete with its number. A
later kill changes nothing; the next update gets a number at least as large.
`UsedInv` follows what a run was told from there to the scan's reading: if it
goes on saving, that is the other system of an export; the feed of RHEL, which is
asked of an OVAL file, speaks for Rocky because that has just been filled with
the same number.

**The two together.** `ClusterInv` relates the agent's listing to what may have
happened since: of a drain by chpc that was listed, what was read is its
category; of the agent's own note, what was read is `Fine`, by the parser's
mistake; of a node forced out, one of the two. A step that puts the node back
(`ComesBack`) is a resume for an opted-in check, somebody's move, or the agent
handling a reading in `AutoFixable`; the invariant says what that reading can
have been. The steps of each tool are reduced to what they do to the shared node
(`AgentEffect`, `DaemonEffect`), so that the proof needs neither the history nor
the counters.

**Checks.** `FailuresReal` and `LossNoticed` are about the table of checks more
than about the steps: for each check, a node in health passes and a loss beyond
the tolerance fails, with the arithmetic of the tolerance as the code has it.
`CaptureInv` says what a command in the middle of a capture holds and that
between captures the last one stands.

**Installer.** `FinishedIsConfigured` speaks of the last state; what makes it
inductive is how far a run is (`ProgressInv`: what each place has behind it) and
which files belong to the mode asked for (`ModeInv`). `ConfigInv` says that
entries have different names, that unless a run was stopped only the last entry
is without a table, while the run is at `append`, and that a table names a binary
that is there.

**Billing.** `PreviewInv` drops the past due from the condition of `PreviewAgrees`:
an unreadable previous balance is made up for by the very edit that puts it
right, an unreadable past due is not, and that is what `behind` remembers.
`BuiltAsAsked` says that by the time settings are stored the document is whole
and bears the logo that was asked for.

`StatementCorrect` is about two loops over the table and about sums. The loops
are recursive functions; that their result is the template with as many body
rows as there are lines (`GrownIs`, `ShrunkIs`) is proved by induction, and so is
that the sums are integers (`SumIsInt`). `SavedCorrect` needs in addition that
what Generate collected is what the form still shows, that the lines have not
changed since, and that the totals shown are those of `PreviewInv`.

**Vulnerabilities.** Everything rests on the comparison. `OlderVersion`: to the
code a version is older if at the first runs that differ it has the lower one;
runs are alike to it whatever mark comes before them.
`VersionsTransitive` makes that an order (of two first differences the earlier
decides) and `VersionsAlike` one of versions up to marks; `VersionsAgree` says
that on versions without tilde and caret it is the order of rpm. A release is compared
only when both have one; that a version without one equals every release of it
does not break `OlderTransitive`, as an equality of versions alone makes nothing
older. `UpdatesSafe` is the argument of `DnfUpdate`: what an update is older
than, everything it replaces was older than. The code's order is transitive on
all versions, so only what is replaced and what is installed need be without a
mark for this; the version of the advisory may have one.

**Hardening.** `Tells(r)` says that a rule that fails does so of a setting that
leaves the host open, but for `Guessed`; `Complete(r)` that such a setting is
found if its sources are read, but for `Overlooked`. Of the rules whose setting
lies in one place (`OnePlaceRules`) both are proved together (`PlainTell`), from what
the place holds and the rule says of each value; every other rule has a lemma of
its own (`LegacyTell` to `SshTell`), as each is collected, and guessed, in its own
way. For `FixesWork` the steps of a finding are followed through: hardened settings
pass their rules (`HardenedCloses`), the main file of sshd decides where no drop-in
speaks (`SshMended`), and what remains open is what `Remains` names. The
invariant, `HardInv`, says that each place has one of its values. The theorems
put no bound on how many settings and sources are astray, nor on lists.

**Helper suite.** `RenderIs` is about every properly nested template: what the
passes over flat text make of it is what its blocks mean. The blocks are ordered
by how deep they lie (`Level`, the number of blocks around). `Left` says which
places are left after `k` passes: the markers of blocks less than `k` deep are
gone, and all that lies in such a block that is off. In what is left the nearest
end of a block is its own, because a block of the same name is never within
(`StartsAre`); what is found from the left are then the blocks exactly `k` deep
(`FoundAre`, for which every deeper block has one around it that deep,
`OneAtEachLevel`); and taking these out leaves `Left` of `k + 1` (`PassIs`). By
induction the last pass leaves what `Meaning` keeps, or an unknown toggle was
reached on the way (`ResolveIs`). `IInv` carries this through the command:
`Made` says what has been rendered, `Written` what is in the file, `Given` that
flags are laid over the defaults in the order of the code, and `Asked` that of
each group the wizard has asked about one branch is on, which later answers leave
alone since no toggle is of two groups (`GroupsApart`).

Only model-checked: the liveness properties (`PersistentFailureDrains`,
`BooksFollowNode`, `AutoResumeCompletes`, `PersistentProblemHeld`,
`RecoveredNodeReleased`, `ToolsConverge`) and the counterexamples. Liveness under
fairness and ENABLED are out of the prover's reach. So are the library's theorems
of induction, whose parameter is a predicate; where an induction is needed it is
stated of a set of numbers (`InductionOnNat`, `LeastNatural`, from finite sets
being well-founded under inclusion), which covers loops that count. No model uses
a RECURSIVE operator.

## 5. What is not modelled

* How reasons are worded and classified, how lines, feeds, exports and settings
  are parsed: the models start from what a text says. The walk of
  `check_dir_size` through a tree is an outcome.
* A `statvfs` on a file system that does not answer: the cycle hangs, and no
  property says that a cycle ends.
* Two processes of chpc, or two updates of the feeds, at the same time: nothing
  in the code excludes them, and what goes wrong is told above.
* Time between chpc cycles, and a wall clock that steps back: ages only grow.
* `chpc explain`, `status`, `slurm-monitor status`, `diagnose`, `log`, `report`,
  notifications, layout of reports: they change nothing that is decided by.
* How `describe` scores templates by common words, themes and layout of the
  billing window: nothing is decided by them.
* The models take it that scontrol prints a node's state as the tests of the
  repository show it. With the checks that come with chpc the reasons are of
  the categories unknown, filesystem and gpu_failure; only the output of a
  `command` check could read "not responding", the case `ForcedOutStays` excepts.

## 6. Plan

1. The composition of `NodeChecks` and `ChpcCycle`: a node in health is never
   drained, with the baseline as the two find it.
2. A clock of its own for the history of slurm_monitor.
