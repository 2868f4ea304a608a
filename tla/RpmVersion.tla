----------------------------- MODULE RpmVersion -----------------------------
(***************************************************************************)
(* rpmver.py: the order of package versions.  A version or release is the  *)
(* sequence of its runs: a run of digits by its value, a run of letters by *)
(* its rank among words, each with the tilde or caret before it.  rpm      *)
(* orders by these marks, the code takes them for separators (other        *)
(* separators carry no information).  A mark stands before a run.          *)
(***************************************************************************)
EXTENDS Integers, Sequences

Runs == [kind : {"number", "word"}, value : Int, mark : {"none", "tilde", "caret"}]

Number(n) == [kind |-> "number", value |-> n, mark |-> "none"]
Word(w) == [kind |-> "word", value |-> w, mark |-> "none"]
Marked(mark, run) == [run EXCEPT !.mark = mark]

Sign(n) == IF n > 0 THEN 1 ELSE IF n < 0 THEN -1 ELSE 0

\* A number outranks a word.
CompareRuns(s, t) ==
    IF s.kind # t.kind THEN IF s.kind = "number" THEN 1 ELSE -1
                       ELSE Sign(s.value - t.value)

\* The first runs that differ decide; if none does, the longer version wins.
rpmvercmp(v, w) ==
    LET differ == {i \in DOMAIN v \cap DOMAIN w : CompareRuns(v[i], w[i]) # 0}
        first == CHOOSE i \in differ : \A j \in differ : i <= j
    IN IF differ # {} THEN CompareRuns(v[first], w[first])
                      ELSE Sign(Len(v) - Len(w))

NoRelease == <<>>
Evr(e, v, r) == [epoch |-> e, version |-> v, release |-> r]
EVRs == [epoch : Int, version : Seq(Runs), release : Seq(Runs)]

\* Mutant of compare_evr: the epoch is left out.
compare_evr_without_epoch(a, b) ==
    LET versions == rpmvercmp(a.version, b.version)
    IN IF versions # 0 THEN versions ELSE rpmvercmp(a.release, b.release)

compare_evr(a, b) ==
    LET versions == rpmvercmp(a.version, b.version) IN
    IF a.epoch # b.epoch THEN Sign(a.epoch - b.epoch)
    ELSE IF versions # 0 THEN versions
    ELSE IF NoRelease \in {a.release, b.release} THEN 0
    ELSE rpmvercmp(a.release, b.release)

is_vulnerable(installed, fixed) == compare_evr(installed, fixed) < 0

=============================================================================
