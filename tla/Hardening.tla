----------------------------- MODULE Hardening -----------------------------
(***************************************************************************)
(* The baseline half of a scan: the collectors read a host's settings as   *)
(* far as each place they lie in can be read; the rules judge what was     *)
(* read; the report tells how to fix what they find.  Settings keep the    *)
(* values the rules tell apart, lists their length.                        *)
(***************************************************************************)
EXTENDS Integers, FiniteSets

CONSTANTS
    MaxOddities,  \* bound: settings astray and sources not readable
    MaxListed     \* bound: world-writable files, and NOPASSWD lines of a file

ASSUME HardeningAssumption == MaxOddities \in Nat /\ MaxListed \in Nat

VARIABLES
    os_family, \* os.family of the collected data
    launch,    \* Windows: the execution policy the collector was started with
    host,      \* of each rule: the value in each place its setting lies in
    status     \* how far each source can be read

hardeningVars == <<os_family, launch, host, status>>

-----------------------------------------------------------------------------
(* The rules. *)

Units == {"firewall_inactive", "auto_updates_disabled", "auditd_inactive",
          "time_sync_inactive"}
Ssh == {"ssh_root_login_permitted", "ssh_password_auth_enabled",
        "ssh_empty_passwords_permitted", "ssh_x11_forwarding_enabled"}
LINUX_RULES ==
    Units \cup Ssh \cup
        {"selinux_not_enforcing", "empty_password_users", "duplicate_uid0_accounts",
         "weak_password_minlen", "world_writable_files", "insecure_legacy_service_running",
         "password_never_expires", "no_account_lockout_policy", "passwordless_sudo"}

\* auto_updates_off has the id auto_updates_disabled in the code, as on Linux.
WINDOWS_RULES ==
    {"defender_disabled", "firewall_disabled", "smb1_enabled", "rdp_without_nla",
     "auto_updates_off", "weak_min_password_length", "no_lockout_threshold",
     "guest_account_enabled", "uac_disabled", "bitlocker_disabled",
     "smartscreen_disabled", "powershell_unrestricted", "remote_registry_running",
     "autoplay_enabled"}

Rules == IF os_family = "windows" THEN WINDOWS_RULES
         ELSE IF os_family \in {"rhel", "rocky"} THEN LINUX_RULES ELSE {}

-----------------------------------------------------------------------------
(* Where the settings lie, and the values they take there: the best, others *)
(* that are fine, and those that leave the host open.  A policy file may    *)
(* have no line for a setting, or one that is not a number.                 *)

Of(best, fine, open) ==
    [best |-> best, values |-> {best} \cup fine \cup open, open |-> open]

Unset == -1

\* A keyword of sshd is obeyed in any case, and under Match for some users only.
SshLine(best) ==
    Of(best, {"unset", "no", "prohibit-password", "no_respelt", "no_for_some"},
       {"yes", "yes_respelt", "yes_for_some"})
PamFile == Of("on", {"absent"}, {"off", "commented"})

LinuxLayout ==
    [selinux_not_enforcing |->
        [getenforce |-> Of("enforcing", {}, {"permissive", "disabled"})],
     empty_password_users |->
        [passwd |-> Of("x", {}, {"empty"}), shadow |-> Of("none", {}, {"some"})],
     duplicate_uid0_accounts |-> [passwd |-> Of("none", {}, {"some"})],
     weak_password_minlen |-> [pwquality |-> Of(14, {15}, {13, Unset})],
     password_never_expires |->
        [login_defs |-> Of(90, {1, 99998}, {0, 99999, Unset})],
     world_writable_files |-> [find |-> Of(0, {}, 1..MaxListed)],
     insecure_legacy_service_running |->
        [systemctl |-> Of("none", {}, {"service", "socket"})],
     no_account_lockout_policy |-> [system_auth |-> PamFile, password_auth |-> PamFile],
     passwordless_sudo |->
        [sudoers |-> Of(0, {}, 1..MaxListed), sudoers_d |-> Of(0, {}, 1..MaxListed)]]

WindowsLayout ==
    [defender_disabled |->
        [defender |-> Of("on", {}, {"off", "not_real_time", "other_antivirus"})],
     firewall_disabled |-> [firewall |-> Of("on", {}, {"off"})],
     smb1_enabled |-> [smb1 |-> Of("disabled", {}, {"enabled", "disable_pending"})],
     rdp_without_nla |->
        [fDenyTSConnections |-> Of(1, {}, {0}), UserAuthentication |-> Of(1, {}, {0})],
     auto_updates_off |->
        [NoAutoUpdate |-> Of(0, {}, {1}), wuauserv |-> Of(3, {}, {4}),
         paused |-> Of(0, {}, {1})],
     weak_min_password_length |-> [net_accounts |-> Of(14, {15}, {13})],
     no_lockout_threshold |-> [net_accounts |-> Of(5, {1}, {0})],
     guest_account_enabled |-> [guest |-> Of("off", {}, {"on"})],
     uac_disabled |-> [EnableLUA |-> Of("on", {}, {"off"})],
     bitlocker_disabled |->
        [bitlocker |-> Of("fullyencrypted", {},
                          {"fullydecrypted", "encryptioninprogress", "suspended"})],
     smartscreen_disabled |->
        [EnableSmartScreen |-> Of("unset", {"on"}, {"off"}),
         SmartScreenEnabled |-> Of("on", {"unset"}, {"off"})],
     powershell_unrestricted |->
        [policy |-> Of("RemoteSigned", {"Restricted"}, {"Unrestricted", "Bypass"})],
     remote_registry_running |-> [registry |-> Of("off", {}, {"on"})],
     autoplay_enabled |->
        [NoDriveTypeAutoRun |-> Of(255, {}, {145, Unset}), use_autoplay |-> Of(0, {}, {1})]]

Layout(r) ==
    IF r \in Units THEN [systemctl |-> Of("active", {}, {"inactive"})]
    ELSE IF r \in Ssh THEN [sshd_config_d |-> SshLine("unset"), sshd_config |-> SshLine("no")]
    ELSE IF r \in WINDOWS_RULES THEN WindowsLayout[r]
    ELSE LinuxLayout[r]

Places(r) == DOMAIN Layout(r)
Values(r, p) == Layout(r)[p].values
Open(r, p) == Layout(r)[p].open
Hardened(r) == [p \in Places(r) |-> Layout(r)[p].best]

-----------------------------------------------------------------------------
(* The collectors.  A source is read ("ok"), cannot be read ("closed": no   *)
(* such file or tool, no permission, a timeout), or is a command that fails *)
(* and prints nothing ("mute": _run does not look at the return code).  A   *)
(* pause of updates and the user's own AutoPlay switch are not looked at.   *)

Commands == {"systemctl", "getenforce", "find"}
Sources(r) == Places(r) \ {"paused", "use_autoplay"}

Read(r) == {p \in Sources(r) : status[p] = "ok"}
Mute(r) == \E p \in Sources(r) : status[p] = "mute"

\* What is taken from a place: only services are listed, of BitLocker the state
\* of the volume and not its protection, a comment counts as a line of PAM, a
\* keyword of sshd in one spelling only, and what is under Match as global.
Taken(r, p) ==
    IF r = "insecure_legacy_service_running" /\ host[r][p] = "socket" THEN "none"
    ELSE IF r = "bitlocker_disabled" /\ host[r][p] = "suspended" THEN "fullyencrypted"
    ELSE IF r = "no_account_lockout_policy" /\ host[r][p] = "commented" THEN "on"
    ELSE IF r \in Ssh /\ host[r][p] \in {"yes_respelt", "no_respelt"} THEN "unset"
    ELSE IF r \in Ssh /\ host[r][p] = "yes_for_some" THEN "yes"
    ELSE IF r \in Ssh /\ host[r][p] = "no_for_some" THEN "no"
    ELSE host[r][p]

\* Settings of which one place overrides the other, and what holds by default.
Layered == Ssh \cup {"smartscreen_disabled"}
First(r) == IF r \in Ssh THEN "sshd_config_d" ELSE "EnableSmartScreen"
Second(r) == IF r \in Ssh THEN "sshd_config" ELSE "SmartScreenEnabled"
Default ==
    [ssh_root_login_permitted |-> "prohibit-password", ssh_password_auth_enabled |-> "yes",
     ssh_empty_passwords_permitted |-> "no", ssh_x11_forwarding_enabled |-> "no",
     smartscreen_disabled |-> "on"]

\* Mutant of FirstOf: the main file comes first.
FirstOfMainFirst(r, files) ==
    IF Second(r) \in files /\ Taken(r, Second(r)) # "unset" THEN Taken(r, Second(r))
    ELSE IF First(r) \in files /\ Taken(r, First(r)) # "unset" THEN Taken(r, First(r))
    ELSE Default[r]

FirstOf(r, files) ==
    IF First(r) \in files /\ Taken(r, First(r)) # "unset" THEN Taken(r, First(r))
    ELSE IF Second(r) \in files /\ Taken(r, Second(r)) # "unset" THEN Taken(r, Second(r))
    ELSE Default[r]

\* Each fact as the set of what is known of it: None is the empty set.  Where a
\* registry value cannot be read, SmartScreen falls back as if it were not set.
CollectLayered(r) ==
    IF r \in Ssh /\ Read(r) = {} THEN {} ELSE {FirstOf(r, Read(r))}

\* What an empty answer passes for: of systemctl, a unit that is not active and
\* no service; of find, no file; of getenforce, nothing.
Silence(r) ==
    IF r \in Units THEN {"inactive"}
    ELSE IF r = "insecure_legacy_service_running" THEN {"none"}
    ELSE IF r = "world_writable_files" THEN {0} ELSE {}

CollectValue(r) ==
    {Taken(r, p) : p \in Read(r)} \cup (IF Mute(r) THEN Silence(r) ELSE {})

Policies == {"weak_password_minlen", "password_never_expires"}
CollectPolicy(r) == {host[r][p] : p \in Read(r)} \ {Unset}

\* Mutant of CollectAccounts: an account with no entry has no password.
CollectAccountsUnentered(r) ==
    IF "passwd" \notin Read(r) THEN {}
    ELSE IF "shadow" \in Read(r) THEN {host[r].shadow} ELSE {"some"}

\* Without /etc/shadow the accounts are known, and none has no password.
CollectAccounts(r) ==
    IF "passwd" \notin Read(r) THEN {}
    ELSE IF "shadow" \in Read(r) THEN {host[r].shadow} ELSE {"none"}

\* A file that exists and cannot be read counts as one without faillock.
CollectFaillock(r) ==
    IF \E p \in Read(r) : Taken(r, p) = "on" THEN {"on"}
    ELSE IF \E p \in Places(r) : host[r][p] # "absent" THEN {"off"} ELSE {}

Listed(r, p) == IF p \in Read(r) THEN host[r][p] ELSE 0
CollectSudoers(r) ==
    IF Read(r) = {} THEN {} ELSE {Listed(r, "sudoers") + Listed(r, "sudoers_d")}

\* A registry value that cannot be read is null, and null is a value.
Reads(r, p, v) == p \in Read(r) /\ host[r][p] = v
CollectRdp(r) ==
    {IF Reads(r, "fDenyTSConnections", 0) /\ ~Reads(r, "UserAuthentication", 1)
     THEN "without_nla" ELSE "fine"}
CollectUpdates(r) ==
    {IF Reads(r, "NoAutoUpdate", 1) \/ Reads(r, "wuauserv", 4) THEN "off" ELSE "on"}
CollectAutoplay(r) ==
    {IF Reads(r, "NoDriveTypeAutoRun", 255) THEN "off" ELSE "on"}

\* The launcher starts the collector with -ExecutionPolicy Bypass, which is
\* then what Get-ExecutionPolicy answers.
CollectExecutionPolicy(r) ==
    {IF launch = "Bypass" THEN launch ELSE host[r][p] : p \in Read(r)}

Collected(r) ==
    IF r \in Layered THEN CollectLayered(r)
    ELSE IF r \in Policies THEN CollectPolicy(r)
    ELSE IF r = "empty_password_users" THEN CollectAccounts(r)
    ELSE IF r = "no_account_lockout_policy" THEN CollectFaillock(r)
    ELSE IF r = "passwordless_sudo" THEN CollectSudoers(r)
    ELSE IF r = "rdp_without_nla" THEN CollectRdp(r)
    ELSE IF r = "auto_updates_off" THEN CollectUpdates(r)
    ELSE IF r = "autoplay_enabled" THEN CollectAutoplay(r)
    ELSE IF r = "powershell_unrestricted" THEN CollectExecutionPolicy(r)
    ELSE CollectValue(r)

-----------------------------------------------------------------------------
(* linux_rules.py, windows_rules.py and engine.py *)

LinuxCheckFails(r, v) ==
    \/ r = "selinux_not_enforcing" /\ v # "enforcing"
    \/ r \in Units /\ v # "active"
    \/ r \in Ssh /\ v = "yes"
    \/ r \in {"empty_password_users", "duplicate_uid0_accounts"} /\ v = "some"
    \/ r = "insecure_legacy_service_running" /\ v # "none"
    \/ r = "weak_password_minlen" /\ v < 14
    \/ r \in {"world_writable_files", "passwordless_sudo"} /\ v # 0
    \/ r = "password_never_expires" /\ (v <= 0 \/ v >= 99999)
    \/ r = "no_account_lockout_policy" /\ v # "on"

\* Rules that want a feature on, and rules that want one off.
WantedOn == {"defender_disabled", "firewall_disabled", "auto_updates_off", "uac_disabled",
             "smartscreen_disabled"}
WantedOff == {"guest_account_enabled", "remote_registry_running", "autoplay_enabled"}

\* Mutant of WindowsCheckFails: an off-by-one at the least password length.
WindowsCheckFailsAtTheLimit(r, v) ==
    \/ r \in WantedOn /\ v # "on"
    \/ r \in WantedOff /\ v = "on"
    \/ r = "smb1_enabled" /\ v = "enabled"
    \/ r = "rdp_without_nla" /\ v = "without_nla"
    \/ r = "weak_min_password_length" /\ v <= 14
    \/ r = "no_lockout_threshold" /\ v = 0
    \/ r = "bitlocker_disabled" /\ v \notin {"on", "encrypted", "fullyencrypted"}
    \/ r = "powershell_unrestricted" /\ v = "Unrestricted"

WindowsCheckFails(r, v) ==
    \/ r \in WantedOn /\ v # "on"
    \/ r \in WantedOff /\ v = "on"
    \/ r = "smb1_enabled" /\ v = "enabled"
    \/ r = "rdp_without_nla" /\ v = "without_nla"
    \/ r = "weak_min_password_length" /\ v < 14
    \/ r = "no_lockout_threshold" /\ v = 0
    \/ r = "bitlocker_disabled" /\ v \notin {"on", "encrypted", "fullyencrypted"}
    \/ r = "powershell_unrestricted" /\ v = "Unrestricted"

CheckFails(r, v) ==
    IF r \in LINUX_RULES THEN LinuxCheckFails(r, v) ELSE WindowsCheckFails(r, v)

\* evaluate: a fact that is not known is never a finding.
RuleFindings == {r \in Rules : \E v \in Collected(r) : CheckFails(r, v)}

-----------------------------------------------------------------------------
(* The host. *)

HardeningInit ==
    /\ os_family \in {"rhel", "windows", "debian"}
    /\ launch \in IF os_family = "windows" THEN {"RemoteSigned", "Bypass"} ELSE {"none"}
    /\ host = [r \in Rules |-> Hardened(r)]
    /\ status = [p \in UNION {Sources(r) : r \in Rules} |-> "ok"]

Astray == {rp \in Rules \X UNION {Places(r) : r \in Rules} :
              rp[2] \in Places(rp[1]) /\ host[rp[1]][rp[2]] # Hardened(rp[1])[rp[2]]}
Oddities == Cardinality(Astray) + Cardinality({p \in DOMAIN status : status[p] # "ok"})

\* Someone changes a setting in one place, or closes or breaks a source.
Drift(r, p, v) ==
    /\ host[r][p] = Hardened(r)[p]
    /\ host' = [host EXCEPT ![r] = [host[r] EXCEPT ![p] = v]]
    /\ UNCHANGED <<os_family, launch, status>>

Close(p, how) ==
    /\ status[p] = "ok"
    /\ how = "mute" => p \in Commands
    /\ status' = [status EXCEPT ![p] = how]
    /\ UNCHANGED <<os_family, launch, host>>

\* The collector is run with the privilege or the tool it lacked.
Regain(p) ==
    /\ status[p] # "ok"
    /\ status' = [status EXCEPT ![p] = "ok"]
    /\ UNCHANGED <<os_family, launch, host>>

\* The fix_steps that change one place of several, or set what is not yet the
\* hardened value.
Mend ==
    [empty_password_users |-> [shadow |-> "none"],
     smb1_enabled |-> [smb1 |-> "disable_pending"],
     auto_updates_off |-> [paused |-> 0],
     bitlocker_disabled |-> [bitlocker |-> "encryptioninprogress"],
     smartscreen_disabled |-> [SmartScreenEnabled |-> "on"],
     autoplay_enabled |-> [use_autoplay |-> 0]]

\* Of n entries, those left after the five shown were looked at.
Left(n) == IF n <= 5 THEN 0..n ELSE (n - 5)..n

\* What following the fix_steps of a finding may change.  They let the reader
\* keep files and entries and an account, switch Remote Desktop off or demand
\* NLA, and leave Defender off where another antivirus is in charge.
Changes(r) ==
    IF r \in Ssh THEN {[sshd_config |-> "no"]}
    ELSE IF r \in DOMAIN Mend THEN {Mend[r]}
    ELSE IF r = "world_writable_files" THEN {[find |-> n] : n \in Left(host[r].find)}
    ELSE IF r = "passwordless_sudo" THEN {[sudoers |-> n] : n \in Left(host[r].sudoers)}
    ELSE IF r = "duplicate_uid0_accounts" THEN {[passwd |-> v] : v \in {"none", "some"}}
    ELSE IF r = "rdp_without_nla"
    THEN {[fDenyTSConnections |-> 1], [UserAuthentication |-> 1]}
    ELSE IF r = "defender_disabled" /\ host[r].defender = "other_antivirus" THEN {host[r]}
    ELSE {Hardened(r)}

With(f, g) == [x \in DOMAIN f |-> IF x \in DOMAIN g THEN g[x] ELSE f[x]]

Fix(r) ==
    /\ \E change \in Changes(r) : host' = [host EXCEPT ![r] = With(host[r], change)]
    /\ UNCHANGED <<os_family, launch, status>>

\* A restart, or time, ends what a fix began.
Settle(r) ==
    /\ r \in {"smb1_enabled", "bitlocker_disabled"}
    /\ \E p \in Places(r) : host[r][p] \in {"disable_pending", "encryptioninprogress"}
    /\ host' = [host EXCEPT ![r] = Hardened(r)]
    /\ UNCHANGED <<os_family, launch, status>>

HardeningNext ==
    \/ /\ Oddities < MaxOddities
       /\ \/ \E r \in Rules : \E p \in Places(r) : \E v \in Values(r, p) : Drift(r, p, v)
          \/ \E p \in DOMAIN status, how \in {"closed", "mute"} : Close(p, how)
    \/ \E p \in DOMAIN status : Regain(p)
    \/ \E r \in RuleFindings : Fix(r)
    \/ \E r \in Rules : Settle(r)

HardeningSpec == HardeningInit /\ [][HardeningNext]_hardeningVars

-----------------------------------------------------------------------------
(* Properties *)

\* Every variable holds a value of its kind.
HardeningTypeOK ==
    /\ DOMAIN host = Rules
    /\ \A r \in Rules :
          /\ DOMAIN host[r] = Places(r)
          /\ \A p \in Places(r) : host[r][p] \in Values(r, p)
    /\ \A p \in DOMAIN status : status[p] \in {"ok", "closed", "mute"}

\* What is in force where one place overrides another, of sshd for all users.
ForSome == {"yes_for_some", "no_for_some"}
Respelt == {"yes_respelt", "no_respelt"}
Obeyed(r, p) ==
    IF host[r][p] = "yes_respelt" THEN "yes"
    ELSE IF host[r][p] = "no_respelt" THEN "no"
    ELSE IF host[r][p] \in ForSome THEN "unset" ELSE host[r][p]
InForce(r) ==
    IF Obeyed(r, First(r)) # "unset" THEN Obeyed(r, First(r))
    ELSE IF Obeyed(r, Second(r)) # "unset" THEN Obeyed(r, Second(r)) ELSE Default[r]

\* A setting leaves the host open: what is in force does, or what sshd allows
\* some users; Remote Desktop and AutoPlay if both places let it; any other if
\* one place lets it.
IsOpen(r) ==
    IF r \in Layered
    THEN InForce(r) \in {"yes", "off"} \/ \E p \in Places(r) : host[r][p] = "yes_for_some"
    ELSE IF r \in {"rdp_without_nla", "autoplay_enabled"}
    THEN \A p \in Places(r) : host[r][p] \in Open(r, p)
    ELSE \E p \in Places(r) : host[r][p] \in Open(r, p)

\* Where the collectors take a place they cannot read for one that says nothing.
Guessed(r) ==
    \/ r \in Units /\ Mute(r)
    \/ /\ r \in Layered \cup {"no_account_lockout_policy", "rdp_without_nla",
                              "autoplay_enabled"}
       /\ Read(r) # Sources(r)

\* A finding is true of the host, whatever could not be read, except where the
\* collector guesses, where a user has switched AutoPlay off, and where a file of
\* sshd has the keyword in another case.
NoFalseFailure ==
    \A r \in RuleFindings :
        \/ IsOpen(r) \/ Guessed(r)
        \/ r = "autoplay_enabled" /\ host[r].use_autoplay = 0
        \/ r \in Ssh /\ \E p \in Places(r) : host[r][p] \in Respelt

\* What the collectors or the rules do not see of a place they read.
Overlooked(r) ==
    \/ r \in Policies /\ Unset \in {host[r][p] : p \in Places(r)}
    \/ r = "insecure_legacy_service_running" /\ host[r].systemctl = "socket"
    \/ r = "no_account_lockout_policy"
       /\ \E p \in Places(r) : host[r][p] \in {"on", "commented"}
    \/ r = "empty_password_users" /\ host[r].shadow = "none"
    \/ r \in Ssh /\ \E p \in Places(r) : host[r][p] \in Respelt \cup ForSome
    \/ r = "smb1_enabled" /\ host[r].smb1 = "disable_pending"
    \/ r = "auto_updates_off" /\ host[r].NoAutoUpdate = 0 /\ host[r].wuauserv = 3
    \/ r = "bitlocker_disabled" /\ host[r].bitlocker = "suspended"
    \/ r = "powershell_unrestricted" /\ "Bypass" \in {launch, host[r].policy}

\* A setting that leaves the host open is found whenever all its sources can be
\* read, except what the collectors overlook: a password policy left to its
\* default, a legacy service behind a socket, faillock in one file only or in a
\* comment, an account without a password in /etc/passwd, a keyword of sshd in
\* another case or under Match, SMBv1 until the restart, updates that are
\* paused, BitLocker suspended, and the execution policy Bypass or the one the
\* launcher hides.
NoMissedSetting ==
    \A r \in Rules :
        IsOpen(r) /\ Read(r) = Sources(r) => r \in RuleFindings \/ Overlooked(r)

\* What the fix_steps of a finding do not put right.
NotMended(r) ==
    \/ r \in Ssh /\ host[r].sshd_config_d \in {"yes", "yes_for_some"}
    \/ r = "smartscreen_disabled" /\ host[r].EnableSmartScreen = "off"
    \/ r \in {"auto_updates_off", "autoplay_enabled"}

\* What they leave, until the reader is done: files, entries or an account that
\* are kept or were not shown, and an encryption that goes on.
Remains(r) ==
    /\ r \in {"world_writable_files", "duplicate_uid0_accounts", "passwordless_sudo",
              "bitlocker_disabled"}
    /\ IsOpen(r)

\* Steps of a report that change the host close their finding at the next scan,
\* unless a drop-in of sshd or a policy of SmartScreen says otherwise, it is
\* about automatic updates or AutoPlay (the steps set what the collector does
\* not look at), something was kept or goes on, or the collector guessed.
FixesHold ==
    [][\A r \in RuleFindings : Fix(r) /\ r \in RuleFindings' =>
          NotMended(r) \/ Remains(r)' \/ Guessed(r)]_hardeningVars

=============================================================================
