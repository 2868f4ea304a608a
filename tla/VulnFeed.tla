------------------------------ MODULE VulnFeed ------------------------------
(***************************************************************************)
(* What the sec-vuln helper makes of the two vendors' feeds: the normalizers*)
(* of Red Hat's OVAL file and of Microsoft's export, both into the records *)
(* of schema.py.  An OVAL document is a set of definitions, its criteria a *)
(* set of alternatives, each a set of tests (the disjunctive form of the   *)
(* tree of AND and OR); an export is a sequence of rows.                   *)
(***************************************************************************)
EXTENDS RpmVersion, FiniteSets

-----------------------------------------------------------------------------
(* normalize_rhel_oval.py *)

\* A test of an rpm: "less than" compares its version, others its signature.
Test(name, operation, evr) ==
    [name |-> name, operation |-> operation, evr |-> evr]

\* _collect_test_refs: the tests anywhere in the tree.
Tests(d) == UNION d.criteria

AffectedPackages(d) ==
    {[name |-> t.name, fixed |-> t.evr] :
        t \in {u \in Tests(d) : u.operation = "less than"}}

severity_map ==
    [critical |-> "critical", important |-> "high",
     moderate |-> "medium", low |-> "low"]

Severity(text) ==
    IF text \in DOMAIN severity_map THEN severity_map[text] ELSE "unknown"

parse_oval(oval) ==
    {[id |-> d.id, majors |-> d.platforms, severity |-> Severity(d.severity),
      affected |-> AffectedPackages(d)] :
        d \in {c \in oval : /\ c.class = "patch" /\ c.platforms # {}
                            /\ AffectedPackages(c) # {}}}

-----------------------------------------------------------------------------
(* normalize_msrc_csv.py *)

WIN11_MIN_BUILD == 22000

\* The last two numbers of the cell, or one number and revision 0.
extract_build(numbers) ==
    LET n == Len(numbers)
    IN IF n >= 2 THEN <<numbers[n - 1], numbers[n]>> ELSE <<numbers[n], 0>>

WindowsMajor(build) == IF build >= WIN11_MIN_BUILD THEN 11 ELSE 10

parse_row(r) ==
    LET build == extract_build(r.numbers)
    IN [id |-> r.id, major |-> WindowsMajor(build[1]),
        severity |-> Severity(r.severity), build |-> build]

\* The records under the number of their row.
parse_msrc_csv(rows) ==
    [i \in {j \in DOMAIN rows : rows[j].numbers # <<>>} |-> parse_row(rows[i])]

=============================================================================
