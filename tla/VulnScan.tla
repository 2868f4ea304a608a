------------------------------ MODULE VulnScan ------------------------------
(***************************************************************************)
(* A scan for known vulnerabilities: cmd_scan over the packages or the     *)
(* build the collector read, with the matching of matcher.py and the       *)
(* findings of report_data.py.  The host changes between scans: packages   *)
(* and Windows are updated, as the findings ask.                           *)
(***************************************************************************)
EXTENDS VulnFeed

CONSTANTS
    Packages, InstallOnly,  \* names; those rpm keeps several versions of
    Evrs,                   \* versions that may be installed
    RedHatMajors,           \* major versions of RHEL and Rocky
    Documents, Exports,     \* the vendors' feeds, as the normalizers read them
    Builds, Revisions       \* of Windows

ASSUME ScanAssumption ==
    /\ InstallOnly \subseteq Packages /\ Builds \cup Revisions \subseteq Nat
    /\ Evrs \subseteq EVRs
    /\ \A oval \in Documents : \A d \in oval : \A t \in Tests(d) :
          t.name \in Packages /\ t.evr \in EVRs
    /\ \A rows \in Exports :
          /\ rows \in Seq({rows[i] : i \in DOMAIN rows})
          /\ \A i \in DOMAIN rows : rows[i].numbers \in Seq(Nat)

VARIABLES
    family, major,  \* os of the collected data (rhel and rocky are alike)
    installed,      \* Linux: the versions present of each package
    build,          \* Windows: build and revision
    oval, rows      \* the feed last imported for the host

vars == <<family, major, installed, build, oval, rows>>

Linux == family = "linux"

-----------------------------------------------------------------------------
(* rpm's own order (lib/rpmvercmp.c): it orders what an update may replace, *)
(* and OVAL defines its version tests by it.                               *)

\* What a tilde precedes is older than anything else, the end included; what a
\* caret precedes is older than any other run, but newer than the end.
MarkRank == [tilde |-> 0, caret |-> 1, none |-> 2]

RunOrder(s, t) ==
    IF s.mark # t.mark THEN Sign(MarkRank[s.mark] - MarkRank[t.mark])
    ELSE IF s.kind # t.kind THEN IF s.kind = "word" THEN -1 ELSE 1
    ELSE Sign(s.value - t.value)

RpmOrder(v, w) ==
    LET differ == {i \in DOMAIN v \cap DOMAIN w : RunOrder(v[i], w[i]) # 0}
        first == CHOOSE i \in differ : \A j \in differ : i <= j
        tilde(s, i) == i \in DOMAIN s /\ s[i].mark = "tilde"
    IN IF differ # {} THEN RunOrder(v[first], w[first])
       ELSE IF tilde(v, Len(w) + 1) THEN -1
       ELSE IF tilde(w, Len(v) + 1) THEN 1
       ELSE Sign(Len(v) - Len(w))

RpmOlder(a, b) ==
    LET versions == RpmOrder(a.version, b.version)
    IN \/ a.epoch < b.epoch
       \/ a.epoch = b.epoch /\ versions < 0
       \/ /\ a.epoch = b.epoch /\ versions = 0
          /\ NoRelease \notin {a.release, b.release}
          /\ RpmOrder(a.release, b.release) < 0

-----------------------------------------------------------------------------
(* matcher.py *)

\* Mutant of match_linux: of several versions installed only one is looked at.
match_linux_once(vulns) ==
    {v \in vulns : \E a \in v.affected :
        installed[a.name] # {}
            /\ is_vulnerable(CHOOSE e \in installed[a.name] : TRUE, a.fixed)}

match_linux(vulns) ==
    {v \in vulns :
        \E a \in v.affected : \E e \in installed[a.name] : is_vulnerable(e, a.fixed)}

\* Mutant of match_windows: builds of other feature updates are compared too.
match_windows_any_build(vulns) ==
    {i \in DOMAIN vulns : LET fixed == vulns[i].build IN
        build[1] < fixed[1] \/ (build[1] = fixed[1] /\ build[2] < fixed[2])}

match_windows(vulns) ==
    {i \in DOMAIN vulns :
        build[1] = vulns[i].build[1] /\ build[2] < vulns[i].build[2]}

-----------------------------------------------------------------------------
(* cmd_scan and report_data.from_cve_matches: one finding per advisory,    *)
(* with the severity of its first match.                                   *)

LinuxFindings ==
    LET relevant == {v \in parse_oval(oval) : major \in v.majors}
    IN {[id |-> v.id, severity |-> v.severity] : v \in match_linux(relevant)}

WindowsFindings ==
    LET vulns == parse_msrc_csv(rows)
        ofMajor == {i \in DOMAIN vulns : vulns[i].major = major}
        matched == match_windows([i \in ofMajor |-> vulns[i]])
        first == {i \in matched : \A j \in matched : vulns[j].id = vulns[i].id => i <= j}
    IN {[id |-> vulns[i].id, severity |-> vulns[i].severity] : i \in first}

Findings == IF Linux THEN LinuxFindings ELSE WindowsFindings
Found == {f.id : f \in Findings}

-----------------------------------------------------------------------------
(* The host. *)

\* windows_collector.ps1 tells the major version from the build.
HostMajor(b) == IF b >= 22000 THEN 11 ELSE 10

Init ==
    /\ family \in {"linux", "windows"}
    /\ IF Linux
       THEN /\ major \in RedHatMajors /\ build = <<0, 0>>
            /\ installed \in [Packages -> {{}} \cup {{e} : e \in Evrs}]
            /\ oval \in Documents /\ rows = <<>>
       ELSE /\ build \in Builds \X Revisions /\ major = HostMajor(build[1])
            /\ installed = [p \in Packages |-> {}]
            /\ oval = {} /\ rows \in Exports

\* dnf update installs a newer version, beside the others or instead of them.
DnfUpdate(p, e) ==
    /\ Linux /\ installed[p] # {}
    /\ \A old \in installed[p] : RpmOlder(old, e)
    /\ installed' = [installed EXCEPT ![p] =
                        IF p \in InstallOnly THEN @ \cup {e} ELSE {e}]
    /\ UNCHANGED <<family, major, build, oval, rows>>

WindowsUpdate(r) ==
    /\ ~Linux /\ build[2] < r
    /\ build' = <<build[1], r>>
    /\ UNCHANGED <<family, major, installed, oval, rows>>

FeatureUpdate(b, r) ==
    /\ ~Linux /\ build[1] < b
    /\ build' = <<b, r>> /\ major' = HostMajor(b)
    /\ UNCHANGED <<family, installed, oval, rows>>

Next ==
    \/ \E p \in Packages, e \in Evrs : DnfUpdate(p, e)
    \/ \E r \in Revisions : WindowsUpdate(r)
    \/ \E b \in Builds, r \in Revisions : FeatureUpdate(b, r)

Spec == Init /\ [][Next]_vars

-----------------------------------------------------------------------------
(* Properties *)

\* Every variable holds a value of its kind, and findings have a severity.
TypeOK ==
    /\ installed \in [Packages -> SUBSET Evrs]
    /\ major \in IF Linux THEN RedHatMajors ELSE {10, 11}
    /\ \A f \in Findings :
          f.severity \in {"critical", "high", "medium", "low", "unknown"}

\* rpmver.py takes tilde and caret for separators: where one is compared, its
\* order need not be rpm's.
Plain(v) == \A i \in DOMAIN v : v[i].mark = "none"
PlainEvr(e) == Plain(e.version) /\ Plain(e.release)
PlainPackage(p) == \A e \in installed[p] : PlainEvr(e)
PlainTest(t) == PlainEvr(t.evr) /\ PlainPackage(t.name)

\* What OVAL makes of a definition: some alternative with all its tests true.
TestTrue(t) ==
    \E e \in installed[t.name] : t.operation = "less than" => RpmOlder(e, t.evr)
Applies(d) ==
    /\ d.class = "patch" /\ major \in d.platforms
    /\ \E all \in d.criteria : \A t \in all : TestTrue(t)

\* A row names the build and the revision that fix it.
Comparable(r) == Len(r.numbers) >= 2
OlderThan(r) == LET n == r.numbers IN
    build[1] = n[Len(n) - 1] /\ build[2] < n[Len(n)]

\* A vulnerability the host really has is found: a definition OVAL holds true
\* whose every alternative tests some version, with no mark in the way, although
\* the normalizer forgets how AND and OR are nested; a row of the export whose
\* revision the host has not reached, although it was filed by a major version
\* told from the build.
NoMissedVulnerability ==
    /\ Linux => \A d \in oval :
          /\ Applies(d)
          /\ \A all \in d.criteria : \E t \in all : t.operation = "less than" /\ PlainTest(t)
          => d.id \in Found
    /\ ~Linux => \A i \in DOMAIN rows :
          Comparable(rows[i]) /\ OlderThan(rows[i]) => rows[i].id \in Found

\* A finding is never made up: some version test of the advisory really holds
\* of an installed package (or would, but for a mark), or some row of the host's
\* own build is newer.
NoFoundlessFinding ==
    \A id \in Found :
        IF Linux
        THEN \E d \in oval : /\ d.id = id /\ major \in d.platforms
                             /\ \E t \in Tests(d) : /\ t.operation = "less than"
                                                    /\ installed[t.name] # {}
                                                    /\ PlainTest(t) => TestTrue(t)
        ELSE \E i \in DOMAIN rows : rows[i].id = id /\ Comparable(rows[i]) /\ OlderThan(rows[i])

\* Updating never exposes a host: within one release of the system, an update
\* of any package or of Windows adds no finding (match_linux looks at every
\* version installed, and the order of versions is transitive).  An update from
\* or to a version with a tilde or a caret may be a step back to the code.
UpdatesNeverExpose ==
    [][ /\ build[1] = build'[1]
        /\ \A p \in Packages :
              installed'[p] # installed[p] => PlainPackage(p) /\ PlainPackage(p)'
        => Found' \subseteq Found ]_vars

=============================================================================
