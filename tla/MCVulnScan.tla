----------------------------- MODULE MCVulnScan -----------------------------
(***************************************************************************)
(* Small instances of VulnScan: a kernel of which rpm keeps old versions,  *)
(* a package that is replaced, versions that differ in every part, two     *)
(* definitions or rows of each feed.                                       *)
(***************************************************************************)
EXTENDS VulnScan

N(n) == <<Number(n)>>

\* The candidate of a release, older than it for rpm and newer for rpmver.py.
Candidate == Evr(0, <<Number(1), Marked("tilde", Word(1))>>, N(1))

\* A snapshot after a release, older than its next version for rpm and newer for
\* rpmver.py.
Snapshot == Evr(0, <<Number(1), Marked("caret", Number(1))>>, N(1))

MCEvrs ==
    {Evr(0, <<Number(1)>>, N(1)), Evr(0, <<Number(1)>>, N(2)),
     Evr(0, <<Number(1), Word(1)>>, N(1)), Evr(0, <<Number(1), Number(0)>>, N(1)),
     Evr(0, <<Number(2)>>, N(1)), Evr(1, <<Number(1)>>, N(1)),
     Candidate, Snapshot}

Fixed == MCEvrs \cup {Evr(0, <<Number(2)>>, NoRelease)}

VersionTests == {Test(p, "less than", e) : p \in Packages, e \in Fixed}
SignatureTest(t) == Test(t.name, "equals", Evr(0, <<>>, NoRelease))

FurtherTests(p) ==
    {Test(p, "less than", e) : e \in {Evr(0, <<Number(1)>>, N(2)), Evr(0, <<Number(2)>>, NoRelease)}}

\* A version test with its signature; one of two; two at once.
MCCriteria ==
    {{{t, SignatureTest(t)}} : t \in VersionTests}
        \cup {{{t}, {u}} : t \in VersionTests, u \in FurtherTests("openssl")}
        \cup {{{t, u}} : t \in VersionTests, u \in FurtherTests("kernel")}
        \cup {{{SignatureTest(t)}} : t \in VersionTests}

Definition(class, severity, platforms, criteria) ==
    [id |-> "a", class |-> class, severity |-> severity,
     platforms |-> platforms, criteria |-> criteria]

MCDocuments ==
    {{Definition("patch", "important", {9}, c)} : c \in MCCriteria}
        \cup {{Definition(c, "none", m, {{t}})} :
                c \in {"patch", "vulnerability"}, m \in {{}, {8}, {9}}, t \in VersionTests}

MCBuilds == {19045, 22000, 22631}
MCRevisions == 1..3

Cells ==
    {<<>>} \cup {<<b>> : b \in MCBuilds} \cup {<<b, r>> : b \in MCBuilds, r \in MCRevisions}
        \cup {<<10, 0, b, r>> : b \in MCBuilds, r \in MCRevisions}

Row(id, severity, cell) == [id |-> id, severity |-> severity, numbers |-> cell]

MCExports ==
    {<<Row("a", "critical", c)>> : c \in Cells}
        \cup {<<Row("a", "low", c), Row(id, "moderate", d)>> :
                id \in {"a", "b"}, c, d \in Cells}

=============================================================================
