---------------------------- MODULE SecVulnProofs ----------------------------
(***************************************************************************)
(* Proofs about the sec-vuln helper: about VulnScan, for every feed, every *)
(* set of versions and packages, every build and revision; and, in the     *)
(* second half, about Hardening, for any number of settings that drift and *)
(* of sources that cannot be read.                                         *)
(***************************************************************************)
EXTENDS VulnScan, Hardening, FiniteSetTheorems, TLAPS

\* A set of naturals that is not empty has a least element: finite sets are
\* well-founded under inclusion, n standing for 1..n.
LEMMA LeastNatural ==
    ASSUME NEW T, T \subseteq Nat, T # {}
    PROVE  \E n \in T : \A m \in T : n <= m
<1> DEFINE U == {1 .. n : n \in T}
           R == StrictSubsetOrdering(Nat)
<1>1. U \subseteq FiniteSubsetsOf(Nat)
  <2> SUFFICES ASSUME NEW n \in T PROVE 1 .. n \in FiniteSubsetsOf(Nat)
    OBVIOUS
  <2>1. IsFiniteSet(1 .. n)
    BY FS_Interval
  <2> QED BY <2>1 DEF FiniteSubsetsOf
<1>2. IsWellFoundedOn(R, FiniteSubsetsOf(Nat))
  BY FS_StrictSubsetOrderingWellFounded
<1>3. U # {}
  OBVIOUS
<1>4. \E x \in U : \A y \in U : ~(<<y, x>> \in R)
  <2> HIDE DEF R, U
  <2> QED BY <1>1, <1>2, <1>3, WFMin
<1>5. PICK n \in T : \A m \in T : ~(<<1 .. m, 1 .. n>> \in R)
  BY <1>4
<1>6. ASSUME NEW m \in T, m < n PROVE FALSE
  <2>1. 1 .. m \subseteq 1 .. n /\ 1 .. m \subseteq Nat /\ 1 .. n \subseteq Nat
    BY <1>6
  <2>2. n \in 1 .. n /\ n \notin 1 .. m
    BY <1>6
  <2> QED BY <1>5, <2>1, <2>2 DEF StrictSubsetOrdering
<1> QED BY <1>6

-----------------------------------------------------------------------------
(* The order of versions. *)

\* What the code tells apart in runs: not the mark.
Alike(s, t) == s.kind = t.kind /\ s.value = t.value
AlikeVersions(v, w) == Len(v) = Len(w) /\ \A j \in 1..Len(v) : Alike(v[j], w[j])

\* The order of runs.
Lower(s, t) ==
    \/ s.kind = "word" /\ t.kind = "number"
    \/ s.kind = t.kind /\ s.value < t.value

\* v and w agree up to i, where w has more or the greater run.
LowerAt(v, w, i) ==
    /\ i \in 1..Len(w) /\ i <= Len(v) + 1
    /\ \A j \in 1..(i - 1) : Alike(v[j], w[j])
    /\ i <= Len(v) => Lower(v[i], w[i])

\* The sign of a difference.
LEMMA SignIs ==
    \A m, n \in Int : /\ Sign(m - n) \in {-1, 0, 1}
                      /\ Sign(m - n) < 0 <=> m < n
                      /\ Sign(m - n) = 0 <=> m = n
BY DEF Sign

\* What comparing two runs says.
LEMMA RunsCompared ==
    ASSUME NEW s \in Runs, NEW t \in Runs
    PROVE  /\ CompareRuns(s, t) \in {-1, 0, 1}
           /\ CompareRuns(s, t) < 0 <=> Lower(s, t)
           /\ CompareRuns(s, t) = 0 <=> Alike(s, t)
           /\ Lower(s, t) => ~Alike(s, t)
BY DEF Runs, CompareRuns, Sign, Lower, Alike

\* Runs are ordered transitively.
LEMMA LowerTransitive ==
    ASSUME NEW r \in Runs, NEW s \in Runs, NEW t \in Runs, Lower(r, s), Lower(s, t)
    PROVE  Lower(r, t)
BY DEF Runs, Lower

\* Nor does it matter which of two runs alike is compared.
LEMMA LowerAlike ==
    ASSUME NEW r, NEW s, NEW t, Alike(s, t)
    PROVE  /\ Lower(r, s) <=> Lower(r, t)
           /\ Lower(s, r) <=> Lower(t, r)
BY DEF Lower, Alike

\* A version is older if it is lower at some run.
LEMMA OlderVersion ==
    ASSUME NEW v \in Seq(Runs), NEW w \in Seq(Runs)
    PROVE  /\ rpmvercmp(v, w) < 0 <=> \E i \in Nat : LowerAt(v, w, i)
           /\ rpmvercmp(v, w) = 0 <=> AlikeVersions(v, w)
           /\ rpmvercmp(v, w) \in {-1, 0, 1}
<1> DEFINE differ == {i \in DOMAIN v \cap DOMAIN w : CompareRuns(v[i], w[i]) # 0}
           first == CHOOSE i \in differ : \A j \in differ : i <= j
<1>r. /\ \A i \in 1..Len(v) : v[i] \in Runs
      /\ \A i \in 1..Len(w) : w[i] \in Runs
      /\ DOMAIN v = 1..Len(v) /\ DOMAIN w = 1..Len(w) /\ Len(v) \in Nat /\ Len(w) \in Nat
  OBVIOUS
<1>d. differ \subseteq Nat
  BY <1>r
<1>e. \A i \in (1..Len(v)) \cap (1..Len(w)) : i \notin differ => Alike(v[i], w[i])
  BY <1>r, RunsCompared
<1>1. CASE differ # {}
  <2>1. first \in differ /\ \A j \in differ : first <= j
    BY <1>1, <1>d, LeastNatural
  <2> HIDE DEF first
  <2>2. rpmvercmp(v, w) = CompareRuns(v[first], w[first])
    BY <1>1 DEF rpmvercmp, first
  <2>3. first \in 1..Len(v) /\ first \in 1..Len(w) /\ CompareRuns(v[first], w[first]) # 0
    BY <2>1, <1>r
  <2>4. ~Alike(v[first], w[first])
    BY <2>3, <1>r, RunsCompared
  <2>5. \A j \in 1..(first - 1) : Alike(v[j], w[j])
    <3> SUFFICES ASSUME NEW j \in 1..(first - 1)
                 PROVE  Alike(v[j], w[j])
      OBVIOUS
    <3>1. j \in 1..Len(v) /\ j \in 1..Len(w) /\ ~(first <= j)
      BY <2>3, <1>r
    <3> QED BY <3>1, <2>1, <1>e
  <2> HIDE DEF differ
  <2>6. ASSUME Lower(v[first], w[first])
        PROVE  \E i \in Nat : LowerAt(v, w, i)
    <3>1. LowerAt(v, w, first)
      BY <2>3, <2>5, <2>6, <1>r DEF LowerAt
    <3> QED BY <3>1, <2>3
  <2>7. ASSUME NEW i \in Nat, LowerAt(v, w, i)
        PROVE  Lower(v[first], w[first])
    <3>1. ~(first < i)
      <4> SUFFICES ASSUME first < i
                   PROVE  FALSE
        OBVIOUS
      <4>1. first \in 1..(i - 1)
        BY <2>3, <1>r
      <4> QED BY <4>1, <2>4, <2>7 DEF LowerAt
    <3>2. i <= Len(v) /\ i \in 1..Len(v) /\ i \in 1..Len(w) /\ Lower(v[i], w[i])
      BY <3>1, <2>3, <2>7, <1>r DEF LowerAt
    <3>3. ~Alike(v[i], w[i])
      BY <3>2, <1>r, RunsCompared
    <3>4. ~(i < first)
      <4> SUFFICES ASSUME i < first
                   PROVE  FALSE
        OBVIOUS
      <4>1. i \in 1..(first - 1)
        BY <3>2, <2>3, <1>r
      <4> QED BY <4>1, <3>3, <2>5
    <3>5. i = first
      BY <3>1, <3>4, <3>2, <2>3, <1>r
    <3> QED BY <3>5, <3>2
  <2>8. /\ CompareRuns(v[first], w[first]) < 0 <=> Lower(v[first], w[first])
        /\ CompareRuns(v[first], w[first]) \in {-1, 0, 1}
    BY <2>3, <1>r, RunsCompared
  <2>9. ~AlikeVersions(v, w)
    BY <2>3, <2>4 DEF AlikeVersions
  <2> QED BY <2>2, <2>3, <2>6, <2>7, <2>8, <2>9
<1>2. CASE differ = {}
  <2>1. rpmvercmp(v, w) = Sign(Len(v) - Len(w))
    BY <1>2 DEF rpmvercmp
  <2>2. \A i \in (1..Len(v)) \cap (1..Len(w)) : Alike(v[i], w[i])
    BY <1>2, <1>e
  <2>3. /\ Sign(Len(v) - Len(w)) < 0 <=> Len(v) < Len(w)
        /\ Sign(Len(v) - Len(w)) = 0 <=> Len(v) = Len(w)
        /\ Sign(Len(v) - Len(w)) \in {-1, 0, 1}
    <3>1. Len(v) \in Int /\ Len(w) \in Int
      BY <1>r
    <3> QED BY <3>1, SignIs, Zenon
  <2>4. ASSUME Len(v) < Len(w)
        PROVE  \E i \in Nat : LowerAt(v, w, i)
    <3>1. LowerAt(v, w, Len(v) + 1)
      BY <2>4, <2>2, <1>r DEF LowerAt
    <3> QED BY <3>1, <1>r
  <2>5. ASSUME NEW i \in Nat, LowerAt(v, w, i)
        PROVE  Len(v) < Len(w)
    <3> SUFFICES ASSUME Len(w) <= Len(v)
                 PROVE  FALSE
      BY <1>r
    <3>1. i \in 1..Len(v) /\ i \in 1..Len(w) /\ Lower(v[i], w[i])
      BY <2>5, <1>r DEF LowerAt
    <3> QED BY <3>1, <2>2, <1>r, RunsCompared
  <2>6. Len(v) = Len(w) <=> AlikeVersions(v, w)
    BY <2>2, <1>r DEF AlikeVersions
  <2> QED BY <2>1, <2>3, <2>4, <2>5, <2>6
<1> QED BY <1>1, <1>2

\* Versions are ordered transitively.
LEMMA VersionsTransitive ==
    ASSUME NEW u \in Seq(Runs), NEW v \in Seq(Runs), NEW w \in Seq(Runs),
           rpmvercmp(u, v) < 0, rpmvercmp(v, w) < 0
    PROVE  rpmvercmp(u, w) < 0
<1>a. ASSUME NEW r, NEW s, NEW t, Alike(r, s), Alike(s, t)
      PROVE  Alike(r, t)
  BY <1>a DEF Alike
<1>1. PICK i \in Nat : LowerAt(u, v, i)
  BY OlderVersion
<1>2. PICK k \in Nat : LowerAt(v, w, k)
  BY OlderVersion
<1>r. /\ \A j \in 1..Len(u) : u[j] \in Runs
      /\ \A j \in 1..Len(v) : v[j] \in Runs
      /\ \A j \in 1..Len(w) : w[j] \in Runs
      /\ Len(u) \in Nat /\ Len(v) \in Nat /\ Len(w) \in Nat
  OBVIOUS
<1>3. CASE i < k
  <2>1. Alike(v[i], w[i]) /\ i <= Len(w)
    BY <1>1, <1>2, <1>3, <1>r DEF LowerAt
  <2>2. LowerAt(u, w, i)
    BY <1>a, <1>1, <1>2, <1>3, <2>1, <1>r, LowerAlike DEF LowerAt
  <2> QED BY <2>2, OlderVersion
<1>4. CASE k < i
  <2>1. Alike(u[k], v[k]) /\ k <= Len(u)
    BY <1>1, <1>2, <1>4, <1>r DEF LowerAt
  <2>2. /\ k \in 1..Len(w) /\ k <= Len(u) + 1
        /\ \A j \in 1..(k - 1) : Alike(u[j], w[j])
    BY <1>a, <1>1, <1>2, <1>4, <2>1, <1>r DEF LowerAt
  <2>3. Lower(u[k], w[k])
    <3>1. k <= Len(v) /\ Lower(v[k], w[k])
      BY <1>1, <1>2, <1>4, <1>r DEF LowerAt
    <3> QED BY <2>1, <3>1, LowerAlike
  <2>4. LowerAt(u, w, k)
    BY <2>2, <2>3 DEF LowerAt
  <2> QED BY <2>4, OlderVersion
<1>5. CASE i = k
  <2>1. i <= Len(v) /\ i \in 1..Len(w)
    BY <1>1, <1>2, <1>5, <1>r DEF LowerAt
  <2>2. i <= Len(u) => Lower(u[i], w[i])
    <3> SUFFICES ASSUME i <= Len(u)
                 PROVE  Lower(u[i], w[i])
      OBVIOUS
    <3>1. Lower(u[i], v[i]) /\ Lower(v[i], w[i])
      BY <1>1, <1>2, <1>5, <2>1 DEF LowerAt
    <3>2. u[i] \in Runs /\ v[i] \in Runs /\ w[i] \in Runs
      BY <2>1, <1>r
    <3> QED BY <3>1, <3>2, LowerTransitive
  <2>3. LowerAt(u, w, i)
    BY <1>a, <1>1, <1>2, <1>5, <2>1, <2>2, <1>r DEF LowerAt
  <2> QED BY <2>3, OlderVersion
<1> QED BY <1>3, <1>4, <1>5

\* Versions that are alike are older, and newer, than the same.
LEMMA VersionsAlike ==
    ASSUME NEW u \in Seq(Runs), NEW v \in Seq(Runs), NEW w \in Seq(Runs),
           AlikeVersions(u, v)
    PROVE  /\ rpmvercmp(u, w) < 0 <=> rpmvercmp(v, w) < 0
           /\ rpmvercmp(w, u) < 0 <=> rpmvercmp(w, v) < 0
           /\ AlikeVersions(u, w) <=> AlikeVersions(v, w)
<1>1. Len(u) = Len(v) /\ Len(u) \in Nat /\ Len(w) \in Nat
  BY DEF AlikeVersions
<1>2. \A j \in 1..Len(u) : \A t : /\ Alike(u[j], t) <=> Alike(v[j], t)
                                  /\ Alike(t, u[j]) <=> Alike(t, v[j])
                                  /\ Lower(u[j], t) <=> Lower(v[j], t)
                                  /\ Lower(t, u[j]) <=> Lower(t, v[j])
  BY LowerAlike DEF AlikeVersions, Alike
<1>3. ASSUME NEW i \in Nat
      PROVE  LowerAt(u, w, i) <=> LowerAt(v, w, i)
  <2>1. i <= Len(u) + 1 => \A j \in 1..(i - 1) : Alike(u[j], w[j]) <=> Alike(v[j], w[j])
    BY <1>1, <1>2
  <2>2. i \in 1..Len(w) /\ i <= Len(u) => (Lower(u[i], w[i]) <=> Lower(v[i], w[i]))
    BY <1>1, <1>2
  <2> QED BY <1>1, <2>1, <2>2 DEF LowerAt
<1>4. ASSUME NEW i \in Nat
      PROVE  LowerAt(w, u, i) <=> LowerAt(w, v, i)
  <2>1. i \in 1..Len(u) => \A j \in 1..(i - 1) : Alike(w[j], u[j]) <=> Alike(w[j], v[j])
    BY <1>1, <1>2
  <2>2. i \in 1..Len(u) /\ i <= Len(w) => (Lower(w[i], u[i]) <=> Lower(w[i], v[i]))
    BY <1>1, <1>2
  <2> QED BY <1>1, <2>1, <2>2 DEF LowerAt
<1>5. AlikeVersions(u, w) <=> AlikeVersions(v, w)
  BY <1>1, <1>2 DEF AlikeVersions
<1> QED BY <1>3, <1>4, <1>5, OlderVersion

\* Without tildes and carets the code's order of versions is rpm's.
LEMMA VersionsAgree ==
    ASSUME NEW v \in Seq(Runs), NEW w \in Seq(Runs), Plain(v), Plain(w)
    PROVE  RpmOrder(v, w) = rpmvercmp(v, w)
<1>r. /\ \A i \in 1..Len(v) : v[i] \in Runs /\ v[i].mark = "none"
      /\ \A i \in 1..Len(w) : w[i] \in Runs /\ w[i].mark = "none"
      /\ DOMAIN v = 1..Len(v) /\ DOMAIN w = 1..Len(w)
  BY DEF Plain
<1>1. \A i \in DOMAIN v \cap DOMAIN w : RunOrder(v[i], w[i]) = CompareRuns(v[i], w[i])
  BY <1>r DEF RunOrder, CompareRuns, Runs
<1> DEFINE D == {i \in DOMAIN v \cap DOMAIN w : RunOrder(v[i], w[i]) # 0}
           E == {i \in DOMAIN v \cap DOMAIN w : CompareRuns(v[i], w[i]) # 0}
           first(S) == CHOOSE i \in S : \A j \in S : i <= j
<1>2. D = E
  BY <1>1
<1>3. E \subseteq Nat /\ (E # {} => first(E) \in E)
  <2>1. E \subseteq Nat
    BY <1>r
  <2> HIDE DEF E
  <2> QED BY <2>1, LeastNatural
<1>4. ~ (Len(w) + 1 \in DOMAIN v /\ v[Len(w) + 1].mark = "tilde")
      /\ ~ (Len(v) + 1 \in DOMAIN w /\ w[Len(v) + 1].mark = "tilde")
  BY <1>r
<1>5. CASE D # {}
  <2>1. RpmOrder(v, w) = RunOrder(v[first(D)], w[first(D)])
    BY <1>5 DEF RpmOrder
  <2>2. rpmvercmp(v, w) = CompareRuns(v[first(E)], w[first(E)])
    BY <1>5, <1>2 DEF rpmvercmp
  <2> HIDE DEF first
  <2> QED BY <2>1, <2>2, <1>1, <1>2, <1>3, <1>5
<1>6. CASE D = {}
  <2>1. RpmOrder(v, w) = Sign(Len(v) - Len(w))
    BY <1>6, <1>4 DEF RpmOrder
  <2>2. rpmvercmp(v, w) = Sign(Len(v) - Len(w))
    BY <1>6, <1>2 DEF rpmvercmp
  <2> QED BY <2>1, <2>2
<1> QED BY <1>5, <1>6

\* So is the whole comparison.
LEMMA EvrsAgree ==
    ASSUME NEW a \in EVRs, NEW b \in EVRs, PlainEvr(a), PlainEvr(b)
    PROVE  is_vulnerable(a, b) <=> RpmOlder(a, b)
<1>1. /\ a.epoch \in Int /\ b.epoch \in Int
      /\ a.version \in Seq(Runs) /\ b.version \in Seq(Runs)
      /\ a.release \in Seq(Runs) /\ b.release \in Seq(Runs)
  BY DEF EVRs
<1>2. /\ RpmOrder(a.version, b.version) = rpmvercmp(a.version, b.version)
      /\ RpmOrder(a.release, b.release) = rpmvercmp(a.release, b.release)
  BY <1>1, VersionsAgree DEF PlainEvr
<1>3. rpmvercmp(a.version, b.version) \in {-1, 0, 1}
  BY <1>1, OlderVersion DEF PlainEvr
<1>4. Sign(a.epoch - b.epoch) < 0 <=> a.epoch < b.epoch
  BY <1>1, SignIs
<1> QED BY <1>1, <1>2, <1>3, <1>4 DEF is_vulnerable, compare_evr, RpmOlder

\* Older is transitive to the code, marks or not, although a version without a
\* release equals every release of it.
LEMMA OlderTransitive ==
    ASSUME NEW a \in EVRs, NEW b \in EVRs, NEW c \in EVRs,
           is_vulnerable(a, b), is_vulnerable(b, c)
    PROVE  is_vulnerable(a, c)
<1> DEFINE Older(x, y) ==
        \/ x.epoch < y.epoch
        \/ x.epoch = y.epoch /\ rpmvercmp(x.version, y.version) < 0
        \/ /\ x.epoch = y.epoch /\ AlikeVersions(x.version, y.version)
           /\ NoRelease \notin {x.release, y.release}
           /\ rpmvercmp(x.release, y.release) < 0
<1>1. /\ \A x \in {a, b, c} : x.epoch \in Int /\ x.version \in Seq(Runs)
                              /\ x.release \in Seq(Runs)
  BY DEF EVRs
<1>2. \A x, y \in {a, b, c} : is_vulnerable(x, y) <=> Older(x, y)
  <2> SUFFICES ASSUME NEW x \in {a, b, c}, NEW y \in {a, b, c}
               PROVE  is_vulnerable(x, y) <=> Older(x, y)
    OBVIOUS
  <2>1. /\ rpmvercmp(x.version, y.version) \in {-1, 0, 1}
        /\ rpmvercmp(x.version, y.version) = 0 <=> AlikeVersions(x.version, y.version)
    BY <1>1, OlderVersion
  <2>2. Sign(x.epoch - y.epoch) < 0 <=> x.epoch < y.epoch
    BY <1>1, SignIs
  <2>3. x.epoch \in Int /\ y.epoch \in Int
    BY <1>1
  <2> QED BY <2>1, <2>2, <2>3 DEF is_vulnerable, compare_evr
<1>3. Older(a, b) /\ Older(b, c)
  BY <1>2
<1>4. /\ a.epoch \in Int /\ b.epoch \in Int /\ c.epoch \in Int
  BY <1>1
<1>5. rpmvercmp(a.version, b.version) < 0 /\ rpmvercmp(b.version, c.version) < 0
        => rpmvercmp(a.version, c.version) < 0
  BY <1>1, VersionsTransitive
<1>6. rpmvercmp(a.release, b.release) < 0 /\ rpmvercmp(b.release, c.release) < 0
        => rpmvercmp(a.release, c.release) < 0
  BY <1>1, VersionsTransitive
<1>7. /\ AlikeVersions(a.version, b.version) =>
              /\ rpmvercmp(a.version, c.version) < 0 <=> rpmvercmp(b.version, c.version) < 0
              /\ AlikeVersions(a.version, c.version) <=> AlikeVersions(b.version, c.version)
      /\ AlikeVersions(b.version, c.version) =>
              (rpmvercmp(a.version, b.version) < 0 <=> rpmvercmp(a.version, c.version) < 0)
  BY <1>1, VersionsAlike
<1>8. Older(a, c)
  BY <1>3, <1>4, <1>5, <1>6, <1>7
<1> QED BY <1>2, <1>8

-----------------------------------------------------------------------------
(* Findings. *)

\* A version test of the advisory holds of an installed package.
LinuxHit(id) ==
    \E d \in oval :
       /\ d.id = id /\ d.class = "patch" /\ major \in d.platforms
       /\ \E t \in Tests(d) :
             /\ t.operation = "less than"
             /\ \E e \in installed[t.name] : is_vulnerable(e, t.evr)

\* A row of the host's major version and build has a newer revision.
WindowsHit(id) ==
    \E i \in DOMAIN rows :
       /\ rows[i].numbers # <<>> /\ rows[i].id = id
       /\ LET fixed == extract_build(rows[i].numbers)
          IN /\ WindowsMajor(fixed[1]) = major
             /\ build[1] = fixed[1] /\ build[2] < fixed[2]

\* What is found on Linux.
LEMMA LinuxFound ==
    ASSUME Linux, NEW id
    PROVE  id \in Found <=> LinuxHit(id)
<1> DEFINE Known == {c \in oval : /\ c.class = "patch" /\ c.platforms # {}
                                  /\ AffectedPackages(c) # {}}
           V(d) == [id |-> d.id, majors |-> d.platforms, severity |-> Severity(d.severity),
                    affected |-> AffectedPackages(d)]
           Hit(d) == \E a \in AffectedPackages(d) :
                        \E e \in installed[a.name] : is_vulnerable(e, a.fixed)
<1>1. parse_oval(oval) = {V(d) : d \in Known}
  BY DEF parse_oval
<1>2. LinuxFindings = {[id |-> v.id, severity |-> v.severity] :
                         v \in match_linux({v \in parse_oval(oval) : major \in v.majors})}
  BY DEF LinuxFindings
<1>3. id \in Found <=> \E v \in parse_oval(oval) :
                          /\ major \in v.majors /\ v.id = id
                          /\ \E a \in v.affected :
                                \E e \in installed[a.name] : is_vulnerable(e, a.fixed)
  <2> DEFINE Relevant == {v \in parse_oval(oval) : major \in v.majors}
             M == match_linux(Relevant)
             F(v) == [id |-> v.id, severity |-> v.severity]
  <2>1. Found = {f.id : f \in {F(v) : v \in M}}
    BY <1>2 DEF Found, Findings
  <2>2. M = {v \in Relevant : \E a \in v.affected :
                \E e \in installed[a.name] : is_vulnerable(e, a.fixed)}
    BY DEF match_linux
  <2>3. \A v : F(v).id = v.id
    OBVIOUS
  <2> HIDE DEF M, F
  <2>4. id \in Found <=> \E v \in M : v.id = id
    BY <2>1, <2>3
  <2> QED BY <2>2, <2>4
<1>4. id \in Found <=> \E d \in Known : major \in d.platforms /\ d.id = id /\ Hit(d)
  <2>1. \A d : /\ V(d).majors = d.platforms /\ V(d).id = d.id
               /\ V(d).affected = AffectedPackages(d)
    OBVIOUS
  <2> HIDE DEF Known, V
  <2> QED BY <1>1, <1>3, <2>1
<1>5. \A d : Hit(d) <=> \E t \in Tests(d) :
                           /\ t.operation = "less than"
                           /\ \E e \in installed[t.name] : is_vulnerable(e, t.evr)
  <2> SUFFICES ASSUME NEW d
               PROVE  Hit(d) <=> \E t \in Tests(d) :
                                    /\ t.operation = "less than"
                                    /\ \E e \in installed[t.name] : is_vulnerable(e, t.evr)
    OBVIOUS
  <2> DEFINE T == {t \in Tests(d) : t.operation = "less than"}
             A(t) == [name |-> t.name, fixed |-> t.evr]
  <2>1. AffectedPackages(d) = {A(t) : t \in T}
    BY DEF AffectedPackages
  <2>2. \A t : A(t).name = t.name /\ A(t).fixed = t.evr
    OBVIOUS
  <2> HIDE DEF A
  <2> QED BY <2>1, <2>2
<1>6. \A d \in oval : major \in d.platforms /\ Hit(d) =>
                         (d \in Known <=> d.class = "patch")
  OBVIOUS
<1> HIDE DEF Hit
<1>7. \A d \in Known : d \in oval /\ d.class = "patch"
  OBVIOUS
<1> HIDE DEF Known
<1> QED BY <1>4, <1>5, <1>6, <1>7 DEF LinuxHit

\* What is found on Windows.
LEMMA WindowsFound ==
    ASSUME ~Linux, DOMAIN rows \subseteq Nat, NEW id
    PROVE  id \in Found <=> WindowsHit(id)
<1> DEFINE usable == {i \in DOMAIN rows : rows[i].numbers # <<>>}
           vulns == parse_msrc_csv(rows)
           ofMajor == {i \in DOMAIN vulns : vulns[i].major = major}
           matched == match_windows([i \in ofMajor |-> vulns[i]])
           first == {i \in matched : \A j \in matched : vulns[j].id = vulns[i].id => i <= j}
           FixedIn(i) == extract_build(rows[i].numbers)
<1>1. vulns = [i \in usable |-> parse_row(rows[i])]
  BY DEF parse_msrc_csv
<1>2. \A i \in usable : /\ vulns[i].id = rows[i].id /\ vulns[i].build = FixedIn(i)
                        /\ vulns[i].major = WindowsMajor(FixedIn(i)[1])
  BY <1>1 DEF parse_row
<1>3. DOMAIN vulns = usable
  BY <1>1
<1>4. WindowsFindings = {[id |-> vulns[i].id, severity |-> vulns[i].severity] : i \in first}
  BY DEF WindowsFindings
<1> HIDE DEF vulns
<1>5. \A i : i \in matched <=> /\ i \in usable /\ WindowsMajor(FixedIn(i)[1]) = major
                               /\ build[1] = FixedIn(i)[1] /\ build[2] < FixedIn(i)[2]
  <2>1. \A i : i \in matched <=> /\ i \in ofMajor /\ build[1] = vulns[i].build[1]
                                 /\ build[2] < vulns[i].build[2]
    <3> HIDE DEF ofMajor
    <3> QED BY DEF match_windows
  <2>2. \A i : i \in ofMajor <=> i \in usable /\ WindowsMajor(FixedIn(i)[1]) = major
    <3> HIDE DEF usable, FixedIn
    <3> QED BY <1>2, <1>3
  <2> HIDE DEF usable, FixedIn, ofMajor, matched
  <2> QED BY <1>2, <2>1, <2>2
<1>6. matched \subseteq Nat
  BY <1>5
<1>7. id \in Found <=> \E i \in first : vulns[i].id = id
  <2> DEFINE F(i) == [id |-> vulns[i].id, severity |-> vulns[i].severity]
  <2>1. Found = {f.id : f \in {F(i) : i \in first}}
    <3> HIDE DEF first
    <3> QED BY <1>4 DEF Found, Findings
  <2>2. \A i : F(i).id = vulns[i].id
    OBVIOUS
  <2> HIDE DEF first, F
  <2> QED BY <2>1, <2>2
<1> HIDE DEF matched
<1>8. (\E i \in first : vulns[i].id = id) <=> (\E i \in matched : vulns[i].id = id)
  <2> SUFFICES ASSUME NEW k \in matched, vulns[k].id = id
               PROVE  \E i \in first : vulns[i].id = id
    OBVIOUS
  <2> DEFINE same == {i \in matched : vulns[i].id = id}
  <2>1. PICK i \in same : \A j \in same : i <= j
    <3>1. same \subseteq Nat /\ same # {}
      BY <1>6
    <3> HIDE DEF same
    <3> QED BY <3>1, LeastNatural
  <2> QED BY <2>1
<1> HIDE DEF first
<1> QED BY <1>2, <1>5, <1>7, <1>8 DEF WindowsHit

\* The invariant: the feed belongs to the host, whose major version of Windows
\* is the one its build tells.
HostInv ==
    /\ installed \in [Packages -> SUBSET Evrs]
    /\ Linux => major \in RedHatMajors /\ oval \in Documents
    /\ ~Linux => /\ build \in Nat \X Nat /\ major = HostMajor(build[1])
                 /\ rows \in Exports

\* The host starts with it.
LEMMA HostInit == Init => HostInv
<1> SUFFICES ASSUME Init
             PROVE  HostInv
  OBVIOUS
<1>1. CASE Linux
  <2>1. installed \in [Packages -> {{}} \cup {{e} : e \in Evrs}]
    BY <1>1 DEF Init
  <2>2. {{}} \cup {{e} : e \in Evrs} \subseteq SUBSET Evrs
    OBVIOUS
  <2> QED BY <1>1, <2>1, <2>2 DEF Init, HostInv
<1>2. CASE ~Linux
  <2>1. Builds \X Revisions \subseteq Nat \X Nat
    BY ScanAssumption
  <2>2. build \in Builds \X Revisions
    BY <1>2 DEF Init
  <2>3. build \in Nat \X Nat
    BY <2>1, <2>2
  <2> QED BY <1>2, <2>3 DEF Init, HostInv
<1> QED BY <1>1, <1>2

\* Every update keeps it.
LEMMA HostStep == HostInv /\ [Next]_vars => HostInv'
<1> SUFFICES ASSUME HostInv, [Next]_vars
             PROVE  HostInv'
  OBVIOUS
<1>1. ASSUME NEW p \in Packages, NEW e \in Evrs, DnfUpdate(p, e)
      PROVE  HostInv'
  <2>1. installed' \in [Packages -> SUBSET Evrs]
    BY <1>1 DEF HostInv, DnfUpdate
  <2> QED BY <1>1, <2>1 DEF HostInv, DnfUpdate, Linux
<1>2. ASSUME NEW r \in Revisions, WindowsUpdate(r)
      PROVE  HostInv'
  <2>1. r \in Nat /\ build[1] \in Nat
    BY <1>2, ScanAssumption DEF WindowsUpdate, HostInv
  <2>2. build' \in Nat \X Nat /\ build'[1] = build[1]
    BY <1>2, <2>1 DEF WindowsUpdate
  <2> QED BY <1>2, <2>2 DEF HostInv, WindowsUpdate, Linux
<1>3. ASSUME NEW b \in Builds, NEW r \in Revisions, FeatureUpdate(b, r)
      PROVE  HostInv'
  <2>1. r \in Nat /\ b \in Nat
    BY ScanAssumption
  <2>2. build' \in Nat \X Nat /\ build'[1] = b
    BY <1>3, <2>1 DEF FeatureUpdate
  <2> QED BY <1>3, <2>2 DEF HostInv, FeatureUpdate, Linux
<1>4. CASE UNCHANGED vars
  BY <1>4 DEF vars, HostInv, Linux
<1> QED BY <1>1, <1>2, <1>3, <1>4 DEF Next

\* The cells of an export are sequences of numbers.
LEMMA RowsAre ==
    ASSUME HostInv, ~Linux
    PROVE  /\ DOMAIN rows \subseteq Nat
           /\ \A i \in DOMAIN rows : rows[i].numbers \in Seq(Nat)
<1>1. /\ rows \in Seq({rows[i] : i \in DOMAIN rows})
      /\ \A i \in DOMAIN rows : rows[i].numbers \in Seq(Nat)
  BY ScanAssumption DEF HostInv
<1>2. DOMAIN rows = 1..Len(rows)
  BY <1>1
<1> QED BY <1>1, <1>2

\* The tests of a definition name packages and well-formed versions, and where
\* no mark is in the way rpm and the code agree.
LEMMA TestsAre ==
    ASSUME HostInv, Linux, NEW d \in oval, NEW t \in Tests(d)
    PROVE  /\ t.name \in Packages /\ t.evr \in EVRs
           /\ \A e \in installed[t.name] : e \in Evrs /\ e \in EVRs
           /\ PlainTest(t) =>
                 \A e \in installed[t.name] : is_vulnerable(e, t.evr) <=> RpmOlder(e, t.evr)
<1>1. oval \in Documents
  BY DEF HostInv
<1>2. t.name \in Packages /\ t.evr \in EVRs
  BY <1>1, ScanAssumption
<1>3. installed[t.name] \subseteq Evrs
  BY <1>2 DEF HostInv
<1>4. \A e \in installed[t.name] : e \in Evrs /\ e \in EVRs
  BY <1>3, ScanAssumption
<1>5. PlainTest(t) => PlainEvr(t.evr) /\ \A e \in installed[t.name] : PlainEvr(e)
  BY DEF PlainTest, PlainPackage
<1> QED BY <1>2, <1>4, <1>5, EvrsAgree

\* A row is compared as its last two numbers say.
LEMMA RowFixed ==
    ASSUME HostInv, ~Linux, NEW i \in DOMAIN rows
    PROVE  Comparable(rows[i]) /\ OlderThan(rows[i]) <=>
              /\ rows[i].numbers # <<>>
              /\ LET fixed == extract_build(rows[i].numbers)
                 IN /\ WindowsMajor(fixed[1]) = major
                    /\ build[1] = fixed[1] /\ build[2] < fixed[2]
<1> DEFINE n == rows[i].numbers
<1>1. n \in Seq(Nat)
  BY RowsAre
<1>2. build[1] \in Nat /\ build[2] \in Nat /\ major = HostMajor(build[1])
  BY DEF HostInv
<1>3. Len(n) \in Nat /\ (n = <<>> <=> Len(n) = 0)
  BY <1>1
<1> HIDE DEF n
<1>4. CASE Len(n) >= 2
  <2>1. extract_build(n) = <<n[Len(n) - 1], n[Len(n)]>>
    BY <1>4 DEF extract_build
  <2>2. extract_build(n)[1] = n[Len(n) - 1] /\ extract_build(n)[2] = n[Len(n)]
    BY <2>1
  <2>3. build[1] = n[Len(n) - 1] => WindowsMajor(n[Len(n) - 1]) = major
    BY <1>2 DEF HostMajor, WindowsMajor, WIN11_MIN_BUILD
  <2> QED BY <1>3, <1>4, <2>2, <2>3 DEF n, Comparable, OlderThan
<1>5. CASE ~(Len(n) >= 2)
  <2>1. extract_build(n) = <<n[Len(n)], 0>>
    BY <1>5 DEF extract_build
  <2>2. extract_build(n)[2] = 0
    BY <2>1
  <2>3. ~(build[2] < 0)
    BY <1>2
  <2> QED BY <1>5, <2>2, <2>3 DEF n, Comparable
<1> QED BY <1>4, <1>5

-----------------------------------------------------------------------------
(* Theorems. *)

\* TypeOK: what is installed, the major version and the severities.
THEOREM TypeCorrect == Spec => []TypeOK
<1>1. HostInv => TypeOK
  <2> SUFFICES ASSUME HostInv
               PROVE  TypeOK
    OBVIOUS
  <2>1. \A text : Severity(text) \in {"critical", "high", "medium", "low", "unknown"}
    BY DEF Severity, severity_map
  <2>2. \A f \in Findings : f.severity \in {"critical", "high", "medium", "low", "unknown"}
    <3>1. CASE Linux
      BY <3>1, <2>1 DEF Findings, LinuxFindings, match_linux, parse_oval
    <3>2. CASE ~Linux
      <4> DEFINE vulns == parse_msrc_csv(rows)
                 ofMajor == {i \in DOMAIN vulns : vulns[i].major = major}
                 matched == match_windows([i \in ofMajor |-> vulns[i]])
      <4>1. \A f \in WindowsFindings : \E i \in matched : f.severity = vulns[i].severity
        BY DEF WindowsFindings
      <4>2. matched \subseteq DOMAIN vulns
        BY DEF match_windows
      <4>3. \A i \in DOMAIN vulns : vulns[i].severity = Severity(rows[i].severity)
        BY DEF parse_msrc_csv, parse_row
      <4> HIDE DEF matched, vulns
      <4> QED BY <3>2, <2>1, <4>1, <4>2, <4>3 DEF Findings
    <3> QED BY <3>1, <3>2
  <2> QED BY <2>2 DEF HostInv, TypeOK, HostMajor
<1> QED BY <1>1, HostInit, HostStep, PTL DEF Spec

\* NoMissedVulnerability: what the vendor's feed says of the host is found.
THEOREM NothingMissed == Spec => []NoMissedVulnerability
<1>1. HostInv => NoMissedVulnerability
  <2> SUFFICES ASSUME HostInv
               PROVE  NoMissedVulnerability
    OBVIOUS
  <2>1. ASSUME Linux, NEW d \in oval, Applies(d),
               \A all \in d.criteria : \E t \in all : t.operation = "less than" /\ PlainTest(t)
        PROVE  d.id \in Found
    <3>1. PICK all \in d.criteria : \A t \in all : TestTrue(t)
      BY <2>1 DEF Applies
    <3>2. PICK t \in all : t.operation = "less than" /\ PlainTest(t)
      BY <2>1
    <3>3. t \in Tests(d)
      BY DEF Tests
    <3>4. PICK e \in installed[t.name] : RpmOlder(e, t.evr)
      BY <3>1, <3>2 DEF TestTrue
    <3>5. is_vulnerable(e, t.evr)
      BY <2>1, <3>2, <3>3, <3>4, TestsAre
    <3> QED BY <2>1, <3>2, <3>3, <3>4, <3>5, LinuxFound DEF Applies, LinuxHit
  <2>2. ASSUME ~Linux, NEW i \in DOMAIN rows, Comparable(rows[i]), OlderThan(rows[i])
        PROVE  rows[i].id \in Found
    <3>1. DOMAIN rows \subseteq Nat
      BY <2>2, RowsAre
    <3> QED BY <2>2, <3>1, RowFixed, WindowsFound DEF WindowsHit
  <2> QED BY <2>1, <2>2 DEF NoMissedVulnerability
<1> QED BY <1>1, HostInit, HostStep, PTL DEF Spec

\* NoFoundlessFinding: every finding stands for a version test that holds, or
\* for a revision the host has not reached.
THEOREM NothingMadeUp == Spec => []NoFoundlessFinding
<1>1. HostInv => NoFoundlessFinding
  <2> SUFFICES ASSUME HostInv, NEW id \in Found
               PROVE  IF Linux
                      THEN \E d \in oval :
                              /\ d.id = id /\ major \in d.platforms
                              /\ \E t \in Tests(d) :
                                    /\ t.operation = "less than" /\ installed[t.name] # {}
                                    /\ PlainTest(t) => TestTrue(t)
                      ELSE \E i \in DOMAIN rows :
                              rows[i].id = id /\ Comparable(rows[i]) /\ OlderThan(rows[i])
    BY DEF NoFoundlessFinding
  <2>1. CASE Linux
    <3>1. PICK d \in oval :
             /\ d.id = id /\ d.class = "patch" /\ major \in d.platforms
             /\ \E t \in Tests(d) :
                   /\ t.operation = "less than"
                   /\ \E e \in installed[t.name] : is_vulnerable(e, t.evr)
      BY <2>1, LinuxFound DEF LinuxHit
    <3>2. PICK t \in Tests(d) :
             /\ t.operation = "less than"
             /\ \E e \in installed[t.name] : is_vulnerable(e, t.evr)
      BY <3>1
    <3>3. installed[t.name] # {} /\ (PlainTest(t) => TestTrue(t))
      BY <2>1, <3>2, TestsAre DEF TestTrue
    <3> QED BY <2>1, <3>1, <3>2, <3>3
  <2>2. CASE ~Linux
    <3>1. DOMAIN rows \subseteq Nat
      BY <2>2, RowsAre
    <3> QED BY <2>2, <3>1, RowFixed, WindowsFound DEF WindowsHit
  <2> QED BY <2>1, <2>2
<1> QED BY <1>1, HostInit, HostStep, PTL DEF Spec

\* What is found, in any state of the host.
FoundIsHit == \A id : id \in Found <=> IF Linux THEN LinuxHit(id) ELSE WindowsHit(id)

LEMMA FoundIs == HostInv => FoundIsHit
<1> SUFFICES ASSUME HostInv, NEW id
             PROVE  id \in Found <=> IF Linux THEN LinuxHit(id) ELSE WindowsHit(id)
  BY DEF FoundIsHit
<1>1. CASE Linux
  BY <1>1, LinuxFound
<1>2. CASE ~Linux
  BY <1>2, RowsAre, WindowsFound
<1> QED BY <1>1, <1>2

\* What a test finds in an updated package it found before.
LEMMA UpdateAdds ==
    ASSUME HostInv, Linux, NEW p \in Packages, NEW e \in Evrs, DnfUpdate(p, e),
           installed'[p] # installed[p] => PlainPackage(p) /\ PlainPackage(p)',
           NEW d \in oval, NEW t \in Tests(d), NEW f \in installed'[t.name],
           is_vulnerable(f, t.evr)
    PROVE  \E old \in installed[t.name] : is_vulnerable(old, t.evr)
<1>1. t.name \in Packages /\ t.evr \in EVRs
  BY TestsAre
<1>2. CASE f \in installed[t.name]
  BY <1>2
<1>3. CASE f \notin installed[t.name]
  <2>1. t.name = p /\ f = e
    BY <1>1, <1>3 DEF DnfUpdate, HostInv
  <2>2. PICK old \in installed[p] : RpmOlder(old, e)
    BY DEF DnfUpdate
  <2>3. /\ old \in EVRs /\ e \in EVRs /\ PlainEvr(old) /\ PlainEvr(e)
    <3>1. old \in Evrs
      BY <2>2 DEF HostInv
    <3>2. e \in installed'[p] /\ e \notin installed[p]
      BY <2>1, <1>3
    <3> QED BY <2>2, <3>1, <3>2, ScanAssumption DEF PlainPackage
  <2>4. is_vulnerable(old, e)
    BY <2>2, <2>3, EvrsAgree
  <2>5. is_vulnerable(old, t.evr)
    BY <1>1, <2>1, <2>3, <2>4, OlderTransitive
  <2> QED BY <2>1, <2>2, <2>5
<1> QED BY <1>2, <1>3

\* UpdatesNeverExpose: no update within a release of the system adds a finding.
THEOREM UpdatesSafe == Spec => UpdatesNeverExpose
<1> DEFINE Kept == /\ build[1] = build'[1]
                   /\ \A p \in Packages : installed'[p] # installed[p] =>
                          PlainPackage(p) /\ PlainPackage(p)'
                   => Found' \subseteq Found
<1>f. HostInv' => FoundIsHit'
  BY FoundIs, PTL
<1>1. HostInv /\ [Next]_vars => [Kept]_vars
  <2> SUFFICES ASSUME HostInv, Next, build[1] = build'[1], NEW id, id \in Found',
                      \A p \in Packages : installed'[p] # installed[p] =>
                          PlainPackage(p) /\ PlainPackage(p)'
               PROVE  id \in Found
    OBVIOUS
  <2>1. HostInv'
    BY HostStep
  <2>2. IF Linux' THEN LinuxHit(id)' ELSE WindowsHit(id)'
    BY <2>1, <1>f DEF FoundIsHit
  <2>3. ASSUME NEW p \in Packages, NEW e \in Evrs, DnfUpdate(p, e)
        PROVE  id \in Found
    <3>1. Linux /\ Linux' /\ oval' = oval /\ major' = major
      BY <2>3 DEF DnfUpdate, Linux
    <3>2. PICK d \in oval :
             /\ d.id = id /\ d.class = "patch" /\ major \in d.platforms
             /\ \E t \in Tests(d) :
                   /\ t.operation = "less than"
                   /\ \E f \in installed'[t.name] : is_vulnerable(f, t.evr)
      BY <2>2, <3>1 DEF LinuxHit
    <3>3. PICK t \in Tests(d) :
             /\ t.operation = "less than"
             /\ \E f \in installed'[t.name] : is_vulnerable(f, t.evr)
      BY <3>2
    <3>4. \E old \in installed[t.name] : is_vulnerable(old, t.evr)
      BY <2>3, <3>1, <3>3, UpdateAdds
    <3>5. LinuxHit(id)
      BY <3>2, <3>3, <3>4 DEF LinuxHit
    <3> QED BY <3>1, <3>5, FoundIs DEF FoundIsHit
  <2>4. ASSUME NEW r \in Revisions, WindowsUpdate(r)
        PROVE  id \in Found
    <3>1. /\ ~Linux /\ ~Linux' /\ rows' = rows /\ major' = major
          /\ build'[1] = build[1] /\ build'[2] = r /\ build[2] < r
      BY <2>4 DEF WindowsUpdate, Linux
    <3>2. PICK i \in DOMAIN rows :
             /\ rows[i].numbers # <<>> /\ rows[i].id = id
             /\ LET fixed == extract_build(rows[i].numbers)
                IN /\ WindowsMajor(fixed[1]) = major
                   /\ build[1] = fixed[1] /\ r < fixed[2]
      BY <2>2, <3>1 DEF WindowsHit
    <3> DEFINE fixed == extract_build(rows[i].numbers)
    <3>3. fixed[2] \in Nat
      <4> DEFINE n == rows[i].numbers
      <4>1. n \in Seq(Nat) /\ n # <<>>
        BY <3>1, <3>2, RowsAre
      <4>2. n[Len(n)] \in Nat
        BY <4>1
      <4>3. extract_build(n)[2] \in {n[Len(n)], 0}
        BY DEF extract_build
      <4> HIDE DEF n
      <4>4. extract_build(n)[2] \in Nat
        BY <4>2, <4>3
      <4> QED BY <4>4 DEF n
    <3>4. build[2] \in Nat /\ r \in Nat
      BY <3>1, ScanAssumption DEF HostInv
    <3>5. build[2] < fixed[2]
      <4> HIDE DEF fixed
      <4>1. r < fixed[2]
        BY <3>2 DEF fixed
      <4> QED BY <4>1, <3>1, <3>3, <3>4
    <3>6. WindowsHit(id)
      BY <3>2, <3>5 DEF WindowsHit
    <3> QED BY <3>1, <3>6, FoundIs DEF FoundIsHit
  <2>5. ASSUME NEW b \in Builds, NEW r \in Revisions, FeatureUpdate(b, r)
        PROVE  FALSE
    <3>1. build'[1] = b /\ build[1] < b /\ b \in Nat /\ build[1] \in Nat
      BY <2>5, ScanAssumption DEF FeatureUpdate, HostInv
    <3> QED BY <3>1
  <2> QED BY <2>3, <2>4, <2>5 DEF Next
<1> QED BY <1>1, HostInit, HostStep, PTL DEF Spec, UpdatesNeverExpose

-----------------------------------------------------------------------------
(* The rules of hardening. *)

AllRules == LINUX_RULES \cup WINDOWS_RULES

\* The checks of linux_rules.py, one by one.
LEMMA LinuxChecks ==
    /\ \A v : CheckFails("selinux_not_enforcing", v) <=> v # "enforcing"
    /\ \A v : CheckFails("empty_password_users", v) <=> v = "some"
    /\ \A v : CheckFails("duplicate_uid0_accounts", v) <=> v = "some"
    /\ \A v : CheckFails("weak_password_minlen", v) <=> v < 14
    /\ \A v : CheckFails("world_writable_files", v) <=> v # 0
    /\ \A v : CheckFails("insecure_legacy_service_running", v) <=> v # "none"
    /\ \A v : CheckFails("password_never_expires", v) <=> v <= 0 \/ v >= 99999
    /\ \A v : CheckFails("no_account_lockout_policy", v) <=> v # "on"
    /\ \A v : CheckFails("passwordless_sudo", v) <=> v # 0
    /\ \A r \in Units : \A v : CheckFails(r, v) <=> v # "active"
    /\ \A r \in Ssh : \A v : CheckFails(r, v) <=> v = "yes"
BY DEF CheckFails, LinuxCheckFails, LINUX_RULES, Units, Ssh

\* The checks of windows_rules.py, one by one.
LEMMA WindowsChecks ==
    /\ \A v : CheckFails("defender_disabled", v) <=> v # "on"
    /\ \A v : CheckFails("firewall_disabled", v) <=> v # "on"
    /\ \A v : CheckFails("auto_updates_off", v) <=> v # "on"
    /\ \A v : CheckFails("uac_disabled", v) <=> v # "on"
    /\ \A v : CheckFails("smartscreen_disabled", v) <=> v # "on"
    /\ \A v : CheckFails("guest_account_enabled", v) <=> v = "on"
    /\ \A v : CheckFails("remote_registry_running", v) <=> v = "on"
    /\ \A v : CheckFails("autoplay_enabled", v) <=> v = "on"
    /\ \A v : CheckFails("smb1_enabled", v) <=> v = "enabled"
    /\ \A v : CheckFails("rdp_without_nla", v) <=> v = "without_nla"
    /\ \A v : CheckFails("weak_min_password_length", v) <=> v < 14
    /\ \A v : CheckFails("no_lockout_threshold", v) <=> v = 0
    /\ \A v : CheckFails("bitlocker_disabled", v)
                 <=> v \notin {"on", "encrypted", "fullyencrypted"}
    /\ \A v : CheckFails("powershell_unrestricted", v) <=> v = "Unrestricted"
BY DEF CheckFails, WindowsCheckFails, WantedOn, WantedOff, LINUX_RULES, Units, Ssh

\* Where the settings lie.
LEMMA GroupLayouts ==
    /\ \A r \in Units : Layout(r) = [systemctl |-> Of("active", {}, {"inactive"})]
    /\ \A r \in Ssh : Layout(r) = [sshd_config_d |-> SshLine("unset"),
                                   sshd_config |-> SshLine("no")]
    /\ \A r \in WINDOWS_RULES : Layout(r) = WindowsLayout[r]
    /\ \A r \in LINUX_RULES \ (Units \cup Ssh) : Layout(r) = LinuxLayout[r]
BY DEF Layout, Units, Ssh, WINDOWS_RULES, LINUX_RULES

\* A rule whose setting lies in one place that is read, and that fails for the
\* values that leave the host open.
Plainly(r, p) ==
    /\ Places(r) = {p} /\ Sources(r) = {p}
    /\ Hardened(r)[p] \in Values(r, p) \ Open(r, p)
    /\ \A v \in Values(r, p) : CheckFails(r, v) <=> v \in Open(r, p)

PlainLinux ==
    Units \cup {"selinux_not_enforcing", "duplicate_uid0_accounts", "weak_password_minlen",
                "world_writable_files", "password_never_expires"}
PlainWindows ==
    {"defender_disabled", "firewall_disabled", "weak_min_password_length",
     "no_lockout_threshold", "guest_account_enabled", "uac_disabled",
     "remote_registry_running"}

\* The Linux rules judged by one place.
LEMMA PlainLinuxRules == \A r \in PlainLinux : \E p : Plainly(r, p)
<1>1. ASSUME NEW r \in Units PROVE Plainly(r, "systemctl")
  <2>1. Layout(r) = [systemctl |-> Of("active", {}, {"inactive"})]
    BY GroupLayouts
  <2> QED
    BY <2>1, LinuxChecks DEF Plainly, Places, Sources, Hardened, Values, Open, Of
<1>2. Plainly("selinux_not_enforcing", "getenforce")
  <2>1. Layout("selinux_not_enforcing") =
           [getenforce |-> Of("enforcing", {}, {"permissive", "disabled"})]
    BY GroupLayouts DEF LINUX_RULES, Units, Ssh, LinuxLayout
  <2> QED
    BY <2>1, LinuxChecks DEF Plainly, Places, Sources, Hardened, Values, Open, Of
<1>3. Plainly("duplicate_uid0_accounts", "passwd")
  <2>1. Layout("duplicate_uid0_accounts") = [passwd |-> Of("none", {}, {"some"})]
    BY GroupLayouts DEF LINUX_RULES, Units, Ssh, LinuxLayout
  <2> QED
    BY <2>1, LinuxChecks DEF Plainly, Places, Sources, Hardened, Values, Open, Of
<1>4. Plainly("weak_password_minlen", "pwquality")
  <2>1. Layout("weak_password_minlen") = [pwquality |-> Of(14, {15}, {13, -1})]
    BY GroupLayouts DEF LINUX_RULES, Units, Ssh, LinuxLayout, Unset
  <2> QED
    BY <2>1, LinuxChecks DEF Plainly, Places, Sources, Hardened, Values, Open, Of
<1>5. Plainly("world_writable_files", "find")
  <2>1. Layout("world_writable_files") = [find |-> Of(0, {}, 1..MaxListed)]
    BY GroupLayouts DEF LINUX_RULES, Units, Ssh, LinuxLayout
  <2>2. \A v : CheckFails("world_writable_files", v) <=> v # 0
    BY LinuxChecks
  <2>3. \A n \in 1..MaxListed : n # 0
    BY HardeningAssumption
  <2>4. 0 \notin 1..MaxListed
    BY HardeningAssumption
  <2>5. /\ Places("world_writable_files") = {"find"}
        /\ Sources("world_writable_files") = {"find"}
        /\ Hardened("world_writable_files")["find"] = 0
        /\ Values("world_writable_files", "find") = {0} \cup {} \cup (1..MaxListed)
        /\ Open("world_writable_files", "find") = 1..MaxListed
    BY <2>1 DEF Places, Sources, Hardened, Values, Open, Of
  <2> QED
    BY <2>2, <2>3, <2>4, <2>5 DEF Plainly
<1>6. Plainly("password_never_expires", "login_defs")
  <2>1. Layout("password_never_expires") =
           [login_defs |-> Of(90, {1, 99998}, {0, 99999, -1})]
    BY GroupLayouts DEF LINUX_RULES, Units, Ssh, LinuxLayout, Unset
  <2> QED
    BY <2>1, LinuxChecks DEF Plainly, Places, Sources, Hardened, Values, Open, Of
<1> QED BY <1>1, <1>2, <1>3, <1>4, <1>5, <1>6 DEF PlainLinux

\* The Windows rules judged by one place.
LEMMA PlainWindowsRules == \A r \in PlainWindows : \E p : Plainly(r, p)
<1>1. Plainly("defender_disabled", "defender")
  <2>1. Layout("defender_disabled") =
           [defender |-> Of("on", {}, {"off", "not_real_time", "other_antivirus"})]
    BY GroupLayouts DEF WINDOWS_RULES, WindowsLayout
  <2>2. \A v : CheckFails("defender_disabled", v) <=> v # "on"
    BY WindowsChecks
  <2>3. /\ CheckFails("defender_disabled", "off")
        /\ CheckFails("defender_disabled", "not_real_time")
        /\ CheckFails("defender_disabled", "other_antivirus")
        /\ ~CheckFails("defender_disabled", "on")
    BY <2>2
  <2> QED
    BY <2>1, <2>3 DEF Plainly, Places, Sources, Hardened, Values, Open, Of
<1>2. Plainly("firewall_disabled", "firewall")
  <2>1. Layout("firewall_disabled") = [firewall |-> Of("on", {}, {"off"})]
    BY GroupLayouts DEF WINDOWS_RULES, WindowsLayout
  <2>2. CheckFails("firewall_disabled", "off") /\ ~CheckFails("firewall_disabled", "on")
    BY WindowsChecks
  <2> QED
    BY <2>1, <2>2 DEF Plainly, Places, Sources, Hardened, Values, Open, Of
<1>3. Plainly("weak_min_password_length", "net_accounts")
  <2>1. Layout("weak_min_password_length") = [net_accounts |-> Of(14, {15}, {13})]
    BY GroupLayouts DEF WINDOWS_RULES, WindowsLayout
  <2>2. /\ CheckFails("weak_min_password_length", 13)
        /\ ~CheckFails("weak_min_password_length", 14)
        /\ ~CheckFails("weak_min_password_length", 15)
    BY DEF CheckFails, WindowsCheckFails, WantedOn, WantedOff, LINUX_RULES, Units, Ssh
  <2> QED
    BY <2>1, <2>2 DEF Plainly, Places, Sources, Hardened, Values, Open, Of
<1>4. Plainly("no_lockout_threshold", "net_accounts")
  <2>1. Layout("no_lockout_threshold") = [net_accounts |-> Of(5, {1}, {0})]
    BY GroupLayouts DEF WINDOWS_RULES, WindowsLayout
  <2>2. \A v : CheckFails("no_lockout_threshold", v) <=> v = 0
    BY WindowsChecks
  <2> QED
    BY <2>1, <2>2 DEF Plainly, Places, Sources, Hardened, Values, Open, Of
<1>5. Plainly("guest_account_enabled", "guest")
  <2>1. Layout("guest_account_enabled") = [guest |-> Of("off", {}, {"on"})]
    BY GroupLayouts DEF WINDOWS_RULES, WindowsLayout
  <2>2. \A v : CheckFails("guest_account_enabled", v) <=> v = "on"
    BY WindowsChecks
  <2> QED
    BY <2>1, <2>2 DEF Plainly, Places, Sources, Hardened, Values, Open, Of
<1>6. Plainly("uac_disabled", "EnableLUA")
  <2>1. Layout("uac_disabled") = [EnableLUA |-> Of("on", {}, {"off"})]
    BY GroupLayouts DEF WINDOWS_RULES, WindowsLayout
  <2>2. \A v : CheckFails("uac_disabled", v) <=> v # "on"
    BY WindowsChecks
  <2> QED
    BY <2>1, <2>2 DEF Plainly, Places, Sources, Hardened, Values, Open, Of
<1>7. Plainly("remote_registry_running", "registry")
  <2>1. Layout("remote_registry_running") = [registry |-> Of("off", {}, {"on"})]
    BY GroupLayouts DEF WINDOWS_RULES, WindowsLayout
  <2>2. \A v : CheckFails("remote_registry_running", v) <=> v = "on"
    BY WindowsChecks
  <2> QED
    BY <2>1, <2>2 DEF Plainly, Places, Sources, Hardened, Values, Open, Of
<1> QED BY <1>1, <1>2, <1>3, <1>4, <1>5, <1>6, <1>7 DEF PlainWindows

\* The rules judged by the one place their setting lies in.
OnePlaceRules == PlainLinux \cup PlainWindows
LEMMA PlainRules == \A r \in OnePlaceRules : \E p : Plainly(r, p)
BY PlainLinuxRules, PlainWindowsRules DEF OnePlaceRules

-----------------------------------------------------------------------------
(* The invariant: every setting has a value of its kind in each place. *)

Typed(r) ==
    /\ host[r] = [p \in Places(r) |-> host[r][p]]
    /\ \A p \in Places(r) : host[r][p] \in Values(r, p)

HardInv ==
    /\ host = [r \in Rules |-> host[r]]
    /\ \A r \in Rules : Typed(r)

\* A host has the rules of one family at most.
LEMMA RulesAre == Rules \subseteq AllRules
BY DEF Rules, AllRules

\* A rule is judged plainly or stands alone.
LEMMA RuleCases ==
    AllRules = OnePlaceRules \cup Ssh
        \cup {"insecure_legacy_service_running", "empty_password_users",
              "no_account_lockout_policy", "passwordless_sudo", "smb1_enabled",
              "rdp_without_nla", "auto_updates_off", "bitlocker_disabled",
              "smartscreen_disabled", "powershell_unrestricted", "autoplay_enabled"}
BY DEF AllRules, LINUX_RULES, WINDOWS_RULES, OnePlaceRules, PlainLinux, PlainWindows, Units, Ssh

\* Excused: NoFalseFailure's exceptions besides what is guessed.
Excused(r) ==
    \/ r = "autoplay_enabled" /\ host[r].use_autoplay = 0
    \/ r \in Ssh /\ \E p \in Places(r) : host[r][p] \in Respelt

Tells(r) ==
    Typed(r) /\ (\E v \in Collected(r) : CheckFails(r, v))
        => IsOpen(r) \/ Guessed(r) \/ Excused(r)

Complete(r) ==
    Typed(r) /\ IsOpen(r) /\ Read(r) = Sources(r)
        => (\E v \in Collected(r) : CheckFails(r, v)) \/ Overlooked(r)

AllTell == \A r \in AllRules : Tells(r)
AllComplete == \A r \in AllRules : Complete(r)

\* Of a plain rule: what is collected is what lies in its place.
LEMMA PlainCollected ==
    ASSUME NEW r \in OnePlaceRules, NEW p, Plainly(r, p)
    PROVE  /\ \A v \in Collected(r) : CheckFails(r, v) =>
                 (p \in Read(r) /\ v = host[r][p]) \/ (r \in Units /\ Mute(r))
           /\ p \in Read(r) /\ ~(r \in Policies /\ host[r][p] = Unset)
                 => host[r][p] \in Collected(r)
<1>p. Read(r) \subseteq {p} /\ Sources(r) = {p}
  BY DEF Plainly, Read
<1>1. CASE r \in Policies
  <2>1. Collected(r) = CollectPolicy(r)
    BY <1>1 DEF Collected, Policies, Layered, Ssh
  <2> QED BY <2>1, <1>1, <1>p DEF CollectPolicy
<1>2. CASE r \notin Policies
  <2>1. Collected(r) = CollectValue(r)
    BY <1>2 DEF Collected, Layered, Ssh, OnePlaceRules, PlainLinux, PlainWindows, Units
  <2>2. Taken(r, p) = host[r][p]
    BY DEF Taken, Ssh, OnePlaceRules, PlainLinux, PlainWindows, Units
  <2>3. ASSUME NEW v \in Collected(r), CheckFails(r, v), ~(p \in Read(r) /\ v = host[r][p])
        PROVE  r \in Units /\ Mute(r)
    <3>1. Mute(r) /\ v \in Silence(r)
      BY <2>1, <2>2, <2>3, <1>p DEF CollectValue
    <3>2. r \in Units
      <4>1. r # "insecure_legacy_service_running"
        BY DEF OnePlaceRules, PlainLinux, PlainWindows, Units
      <4>2. ~CheckFails("world_writable_files", 0)
        BY LinuxChecks
      <4> QED BY <2>3, <3>1, <4>1, <4>2 DEF Silence
    <3> QED BY <3>1, <3>2
  <2>4. p \in Read(r) => host[r][p] \in Collected(r)
    BY <2>1, <2>2, <1>p DEF CollectValue
  <2> QED BY <1>2, <2>3, <2>4
<1> QED BY <1>1, <1>2

\* Such a setting is open by the value in its place.
LEMMA PlainOpen ==
    ASSUME NEW r \in OnePlaceRules, NEW p, Plainly(r, p)
    PROVE  IsOpen(r) <=> host[r][p] \in Open(r, p)
<1>1. r \notin Layered /\ r \notin {"rdp_without_nla", "autoplay_enabled"}
  BY DEF OnePlaceRules, PlainLinux, PlainWindows, Layered, Ssh, Units
<1> QED BY <1>1 DEF IsOpen, Plainly

\* Such a rule reports what is so, and misses only a policy left to its default.
LEMMA PlainTell == \A r \in OnePlaceRules : Tells(r) /\ Complete(r)
<1> SUFFICES ASSUME NEW r \in OnePlaceRules
             PROVE  Tells(r) /\ Complete(r)
  OBVIOUS
<1>1. PICK p : Plainly(r, p)
  BY PlainRules
<1>2. Typed(r) => (CheckFails(r, host[r][p]) <=> host[r][p] \in Open(r, p))
  BY <1>1 DEF Plainly, Typed
<1>3. Tells(r)
  BY <1>1, <1>2, PlainCollected, PlainOpen DEF Tells, Guessed
<1>4. Complete(r)
  <2> SUFFICES ASSUME Typed(r), IsOpen(r), Read(r) = Sources(r), ~Overlooked(r)
               PROVE  \E v \in Collected(r) : CheckFails(r, v)
    BY DEF Complete
  <2>1. p \in Read(r) /\ ~(r \in Policies /\ host[r][p] = Unset)
    BY <1>1 DEF Plainly, Overlooked
  <2>2. host[r][p] \in Collected(r) /\ CheckFails(r, host[r][p])
    BY <1>1, <1>2, <2>1, PlainCollected, PlainOpen
  <2> QED BY <2>2
<1> QED BY <1>3, <1>4

-----------------------------------------------------------------------------
(* The rules that stand alone. *)

\* A legacy service is found running, unless it waits behind a socket.
LEMMA LegacyTell ==
    Tells("insecure_legacy_service_running") /\ Complete("insecure_legacy_service_running")
<1> DEFINE r == "insecure_legacy_service_running"
<1>1. Layout(r) = [systemctl |-> Of("none", {}, {"service", "socket"})]
  BY GroupLayouts DEF LINUX_RULES, Units, Ssh, LinuxLayout
<1>2. /\ Places(r) = {"systemctl"} /\ Sources(r) = {"systemctl"}
      /\ Open(r, "systemctl") = {"service", "socket"}
      /\ Values(r, "systemctl") = {"none", "service", "socket"}
  BY <1>1 DEF Places, Sources, Open, Values, Of
<1>3. Collected(r) = CollectValue(r) /\ r \notin Units /\ r \notin Layered
  BY DEF Collected, Layered, Ssh, Policies, Units
<1>4. \A v : CheckFails(r, v) <=> v # "none"
  BY LinuxChecks
<1>5. IsOpen(r) <=> host[r].systemctl \in {"service", "socket"}
  BY <1>2, <1>3 DEF IsOpen
<1>6. Tells(r)
  <2> SUFFICES ASSUME Typed(r), NEW v \in Collected(r), v # "none"
               PROVE  IsOpen(r)
    BY <1>4 DEF Tells
  <2>1. v = Taken(r, "systemctl")
    BY <1>2, <1>3 DEF CollectValue, Silence, Read
  <2>2. host[r].systemctl \in {"none", "service", "socket"}
    BY <1>2 DEF Typed
  <2> QED BY <1>5, <2>1, <2>2 DEF Taken, Ssh
<1>7. Complete(r)
  <2> SUFFICES ASSUME Typed(r), IsOpen(r), Read(r) = Sources(r), host[r].systemctl # "socket"
               PROVE  \E v \in Collected(r) : CheckFails(r, v)
    BY DEF Complete, Overlooked
  <2>1. Taken(r, "systemctl") \in Collected(r)
    BY <1>2, <1>3 DEF CollectValue
  <2>2. Taken(r, "systemctl") = "service"
    BY <1>5 DEF Taken, Ssh
  <2> QED BY <1>4, <2>1, <2>2
<1> QED BY <1>6, <1>7

\* Accounts without a password are found by their entry in /etc/shadow.
LEMMA AccountsTell == Tells("empty_password_users") /\ Complete("empty_password_users")
<1> DEFINE r == "empty_password_users"
<1>1. Layout(r) = [passwd |-> Of("x", {}, {"empty"}), shadow |-> Of("none", {}, {"some"})]
  BY GroupLayouts DEF LINUX_RULES, Units, Ssh, LinuxLayout
<1>2. /\ Places(r) = {"passwd", "shadow"} /\ Sources(r) = {"passwd", "shadow"}
      /\ Open(r, "passwd") = {"empty"} /\ Open(r, "shadow") = {"some"}
      /\ Values(r, "shadow") = {"none", "some"}
  BY <1>1 DEF Places, Sources, Open, Values, Of
<1>3. Collected(r) = CollectAccounts(r) /\ r \notin Layered
  BY DEF Collected, Layered, Ssh, Policies
<1>4. \A v : CheckFails(r, v) <=> v = "some"
  BY LinuxChecks
<1>5. IsOpen(r) <=> host[r].passwd = "empty" \/ host[r].shadow = "some"
  BY <1>2, <1>3 DEF IsOpen
<1>6. Tells(r)
  BY <1>3, <1>4, <1>5 DEF Tells, CollectAccounts
<1>7. Complete(r)
  <2> SUFFICES ASSUME Typed(r), IsOpen(r), Read(r) = Sources(r), host[r].shadow # "none"
               PROVE  \E v \in Collected(r) : CheckFails(r, v)
    BY DEF Complete, Overlooked
  <2>1. host[r].shadow = "some"
    BY <1>2 DEF Typed
  <2> QED BY <1>2, <1>3, <1>4, <2>1 DEF CollectAccounts
<1> QED BY <1>6, <1>7

\* Lockout is found missing, unless a file has it or a comment names it.
LEMMA FaillockTell ==
    Tells("no_account_lockout_policy") /\ Complete("no_account_lockout_policy")
<1> DEFINE r == "no_account_lockout_policy"
<1>1. Layout(r) = [system_auth |-> PamFile, password_auth |-> PamFile]
  BY GroupLayouts DEF LINUX_RULES, Units, Ssh, LinuxLayout
<1>2. /\ Places(r) = {"system_auth", "password_auth"} /\ Sources(r) = Places(r)
      /\ \A p \in Places(r) : /\ Open(r, p) = {"off", "commented"}
                              /\ Values(r, p) = {"on", "absent", "off", "commented"}
  BY <1>1 DEF Places, Sources, Open, Values, Of, PamFile
<1>3. Collected(r) = CollectFaillock(r) /\ r \notin Layered
  BY DEF Collected, Layered, Ssh, Policies
<1>4. \A v : CheckFails(r, v) <=> v # "on"
  BY LinuxChecks
<1>5. IsOpen(r) <=> \E p \in Places(r) : host[r][p] \in {"off", "commented"}
  BY <1>2, <1>3 DEF IsOpen
<1>6. Tells(r)
  <2> SUFFICES ASSUME Typed(r), NEW v \in Collected(r), v # "on", Read(r) = Sources(r)
               PROVE  IsOpen(r)
    BY <1>4 DEF Tells, Guessed
  <2>1. PICK p \in Places(r) : host[r][p] # "absent" /\ Taken(r, p) # "on"
    BY <1>2, <1>3 DEF CollectFaillock
  <2>2. host[r][p] # "on"
    BY <2>1 DEF Taken, Ssh
  <2> QED BY <1>2, <1>5, <2>1, <2>2 DEF Typed
<1>7. Complete(r)
  <2> SUFFICES ASSUME Typed(r), IsOpen(r), Read(r) = Sources(r),
                      \A p \in Places(r) : host[r][p] \notin {"on", "commented"}
               PROVE  \E v \in Collected(r) : CheckFails(r, v)
    BY DEF Complete, Overlooked
  <2>1. \A p \in Places(r) : Taken(r, p) # "on"
    BY DEF Taken, Ssh
  <2>2. \E p \in Places(r) : host[r][p] # "absent"
    BY <1>5
  <2>3. Collected(r) = {"off"}
    BY <1>2, <1>3, <2>1, <2>2 DEF CollectFaillock
  <2> QED BY <1>4, <2>3
<1> QED BY <1>6, <1>7

\* NOPASSWD entries are counted over sudoers and sudoers.d.
LEMMA SudoersTell == Tells("passwordless_sudo") /\ Complete("passwordless_sudo")
<1> DEFINE r == "passwordless_sudo"
<1>1. Layout(r) = [sudoers |-> Of(0, {}, 1..MaxListed), sudoers_d |-> Of(0, {}, 1..MaxListed)]
  BY GroupLayouts DEF LINUX_RULES, Units, Ssh, LinuxLayout
<1>2. /\ Places(r) = {"sudoers", "sudoers_d"} /\ Sources(r) = Places(r)
      /\ \A p \in Places(r) : /\ Open(r, p) = 1..MaxListed
                              /\ Values(r, p) = {0} \cup {} \cup (1..MaxListed)
  <2> DEFINE list == Of(0, {}, 1..MaxListed)
  <2>1. list.open = 1..MaxListed /\ list.values = {0} \cup {} \cup (1..MaxListed)
    BY DEF Of
  <2>2. Layout(r) = [sudoers |-> list, sudoers_d |-> list]
    BY <1>1
  <2> HIDE DEF list
  <2>3. Places(r) = {"sudoers", "sudoers_d"} /\ \A p \in Places(r) : Layout(r)[p] = list
    BY <2>2 DEF Places
  <2>4. \A p \in Places(r) : Open(r, p) = list.open /\ Values(r, p) = list.values
    BY <2>3 DEF Open, Values
  <2>5. Sources(r) = Places(r)
    BY <2>3 DEF Sources
  <2> QED BY <2>1, <2>3, <2>4, <2>5
<1>3. Collected(r) = CollectSudoers(r) /\ r \notin Layered
  BY DEF Collected, Layered, Ssh, Policies
<1>4. \A v : CheckFails(r, v) <=> v # 0
  BY LinuxChecks
<1>5. IsOpen(r) <=> \E p \in Places(r) : host[r][p] \in 1..MaxListed
  BY <1>2, <1>3 DEF IsOpen
<1>6. Typed(r) => \A p \in Places(r) : host[r][p] = 0 \/ host[r][p] \in 1..MaxListed
  BY <1>2 DEF Typed
<1>7. Tells(r)
  <2> SUFFICES ASSUME Typed(r), ~IsOpen(r), NEW v \in Collected(r)
               PROVE  v = 0
    BY <1>4 DEF Tells
  <2>1. Listed(r, "sudoers") = 0 /\ Listed(r, "sudoers_d") = 0
    BY <1>2, <1>5, <1>6 DEF Listed
  <2> QED BY <1>3, <2>1 DEF CollectSudoers
<1>8. Complete(r)
  <2> SUFFICES ASSUME Typed(r), IsOpen(r), Read(r) = Sources(r)
               PROVE  \E v \in Collected(r) : v # 0
    BY <1>4 DEF Complete
  <2> DEFINE a == host[r].sudoers  b == host[r].sudoers_d
  <2>1. Collected(r) = {a + b}
    BY <1>2, <1>3 DEF CollectSudoers, Listed
  <2>2. a \in Nat /\ b \in Nat /\ (a # 0 \/ b # 0)
    BY <1>2, <1>5, <1>6, HardeningAssumption
  <2> HIDE DEF a, b
  <2> QED BY <2>1, <2>2
<1> QED BY <1>7, <1>8

\* SMBv1 is found enabled, but not while a restart is pending.
LEMMA SmbTell == Tells("smb1_enabled") /\ Complete("smb1_enabled")
<1> DEFINE r == "smb1_enabled"
<1>1. Layout(r) = [smb1 |-> Of("disabled", {}, {"enabled", "disable_pending"})]
  BY GroupLayouts DEF WINDOWS_RULES, WindowsLayout
<1>2. /\ Places(r) = {"smb1"} /\ Sources(r) = {"smb1"}
      /\ Open(r, "smb1") = {"enabled", "disable_pending"}
  <2>1. Places(r) = {"smb1"} /\ Sources(r) = {"smb1"}
    BY <1>1 DEF Places, Sources
  <2>2. Open(r, "smb1") = {"enabled", "disable_pending"}
    BY <1>1 DEF Open, Of
  <2> QED BY <2>1, <2>2
<1>3. Collected(r) = {host[r][p] : p \in Read(r)} /\ r \notin Layered
  BY DEF Collected, CollectValue, Silence, Taken, Layered, Ssh, Policies, Units
<1>4. \A v : CheckFails(r, v) <=> v = "enabled"
  BY WindowsChecks
<1>5. IsOpen(r) <=> host[r].smb1 \in {"enabled", "disable_pending"}
  BY <1>2, <1>3 DEF IsOpen
<1>6. Tells(r)
  BY <1>2, <1>3, <1>4, <1>5 DEF Tells, Read
<1>7. Complete(r)
  BY <1>2, <1>3, <1>4, <1>5 DEF Complete, Overlooked
<1> QED BY <1>6, <1>7

\* A volume is found not encrypted, but not when its protection is suspended.
LEMMA BitlockerTell == Tells("bitlocker_disabled") /\ Complete("bitlocker_disabled")
<1> DEFINE r == "bitlocker_disabled"
           open == {"fullydecrypted", "encryptioninprogress", "suspended"}
<1>1. Layout(r) = [bitlocker |-> Of("fullyencrypted", {}, open)]
  BY GroupLayouts DEF WINDOWS_RULES, WindowsLayout
<1>2. /\ Places(r) = {"bitlocker"} /\ Sources(r) = {"bitlocker"}
      /\ Open(r, "bitlocker") = open
      /\ Values(r, "bitlocker") = {"fullyencrypted"} \cup open
  BY <1>1 DEF Places, Sources, Open, Values, Of
<1>3. Collected(r) = {Taken(r, p) : p \in Read(r)} /\ r \notin Layered
  BY DEF Collected, CollectValue, Silence, Layered, Ssh, Policies, Units
<1>4. \A v : CheckFails(r, v) <=> v \notin {"on", "encrypted", "fullyencrypted"}
  BY WindowsChecks
<1>5. IsOpen(r) <=> host[r].bitlocker \in open
  BY <1>2, <1>3 DEF IsOpen
<1>6. host[r].bitlocker # "suspended" => Taken(r, "bitlocker") = host[r].bitlocker
  BY DEF Taken, Ssh
<1>7. Tells(r)
  <2> SUFFICES ASSUME Typed(r), NEW v \in Collected(r), CheckFails(r, v)
               PROVE  IsOpen(r)
    BY DEF Tells
  <2>1. v = Taken(r, "bitlocker")
    BY <1>2, <1>3 DEF Read
  <2>2. host[r].bitlocker # "fullyencrypted"
    BY <1>4, <1>6, <2>1
  <2> QED BY <1>2, <1>5, <2>2 DEF Typed
<1>8. Complete(r)
  <2> SUFFICES ASSUME IsOpen(r), Read(r) = Sources(r), host[r].bitlocker # "suspended"
               PROVE  \E v \in Collected(r) : CheckFails(r, v)
    BY DEF Complete, Overlooked
  <2>1. host[r].bitlocker \in Collected(r)
    BY <1>2, <1>3, <1>6
  <2> QED BY <1>4, <1>5, <2>1
<1> QED BY <1>7, <1>8

\* The policy Unrestricted is found, but not Bypass nor what the launcher hides.
LEMMA PolicyTell == Tells("powershell_unrestricted") /\ Complete("powershell_unrestricted")
<1> DEFINE r == "powershell_unrestricted"
<1>1. Layout(r) = [policy |-> Of("RemoteSigned", {"Restricted"}, {"Unrestricted", "Bypass"})]
  BY GroupLayouts DEF WINDOWS_RULES, WindowsLayout
<1>2. /\ Places(r) = {"policy"} /\ Sources(r) = {"policy"}
      /\ Open(r, "policy") = {"Unrestricted", "Bypass"}
  BY <1>1 DEF Places, Sources, Open, Of
<1>3. Collected(r) = CollectExecutionPolicy(r) /\ r \notin Layered
  BY DEF Collected, Layered, Ssh, Policies
<1>4. \A v : CheckFails(r, v) <=> v = "Unrestricted"
  BY WindowsChecks
<1>5. IsOpen(r) <=> host[r].policy \in {"Unrestricted", "Bypass"}
  BY <1>2, <1>3 DEF IsOpen
<1>6. Tells(r)
  BY <1>2, <1>3, <1>4, <1>5 DEF Tells, Read, CollectExecutionPolicy
<1>7. Complete(r)
  BY <1>2, <1>3, <1>4, <1>5 DEF Complete, Overlooked, CollectExecutionPolicy
<1> QED BY <1>6, <1>7

\* Remote Desktop without NLA is found, or guessed.
LEMMA RdpTell == Tells("rdp_without_nla") /\ Complete("rdp_without_nla")
<1> DEFINE r == "rdp_without_nla"
<1>1. Layout(r) = [fDenyTSConnections |-> Of(1, {}, {0}), UserAuthentication |-> Of(1, {}, {0})]
  BY GroupLayouts DEF WINDOWS_RULES, WindowsLayout
<1>2. /\ Places(r) = {"fDenyTSConnections", "UserAuthentication"} /\ Sources(r) = Places(r)
      /\ \A p \in Places(r) : Open(r, p) = {0} /\ Values(r, p) = {1, 0}
  BY <1>1 DEF Places, Sources, Open, Values, Of
<1>3. Collected(r) = CollectRdp(r) /\ r \notin Layered
  BY DEF Collected, Layered, Ssh, Policies
<1>4. \A v : CheckFails(r, v) <=> v = "without_nla"
  BY WindowsChecks
<1>5. IsOpen(r) <=> host[r].fDenyTSConnections = 0 /\ host[r].UserAuthentication = 0
  BY <1>2, <1>3 DEF IsOpen
<1>6. (\E v \in Collected(r) : CheckFails(r, v))
         <=> Reads(r, "fDenyTSConnections", 0) /\ ~Reads(r, "UserAuthentication", 1)
  BY <1>3, <1>4 DEF CollectRdp
<1>7. Typed(r) => host[r].UserAuthentication \in {1, 0}
  BY <1>2 DEF Typed
<1>8. Tells(r)
  BY <1>2, <1>5, <1>6, <1>7 DEF Tells, Guessed, Reads
<1>9. Complete(r)
  BY <1>2, <1>5, <1>6 DEF Complete, Reads
<1> QED BY <1>8, <1>9

\* Updates that are off are found, but not updates that are paused.
LEMMA UpdatesTell == Tells("auto_updates_off") /\ Complete("auto_updates_off")
<1> DEFINE r == "auto_updates_off"
<1>1. Layout(r) = [NoAutoUpdate |-> Of(0, {}, {1}), wuauserv |-> Of(3, {}, {4}),
                   paused |-> Of(0, {}, {1})]
  BY GroupLayouts DEF WINDOWS_RULES, WindowsLayout
<1>2. /\ Places(r) = {"NoAutoUpdate", "wuauserv", "paused"}
      /\ Sources(r) = {"NoAutoUpdate", "wuauserv"}
      /\ Open(r, "NoAutoUpdate") = {1} /\ Open(r, "wuauserv") = {4}
      /\ Values(r, "NoAutoUpdate") = {0, 1} /\ Values(r, "wuauserv") = {3, 4}
  BY <1>1 DEF Places, Sources, Open, Values, Of
<1>3. Collected(r) = CollectUpdates(r) /\ r \notin Layered
  BY DEF Collected, Layered, Ssh, Policies
<1>4. \A v : CheckFails(r, v) <=> v # "on"
  BY WindowsChecks
<1>5. host[r].NoAutoUpdate = 1 \/ host[r].wuauserv = 4 => IsOpen(r)
  BY <1>2, <1>3 DEF IsOpen
<1>6. (\E v \in Collected(r) : CheckFails(r, v))
         <=> Reads(r, "NoAutoUpdate", 1) \/ Reads(r, "wuauserv", 4)
  BY <1>3, <1>4 DEF CollectUpdates
<1>7. Tells(r)
  BY <1>5, <1>6 DEF Tells, Reads
<1>8. Complete(r)
  BY <1>2, <1>6 DEF Complete, Reads, Overlooked, Typed
<1> QED BY <1>7, <1>8

\* AutoPlay left on by policy is found, or guessed.
LEMMA AutoplayTell == Tells("autoplay_enabled") /\ Complete("autoplay_enabled")
<1> DEFINE r == "autoplay_enabled"
<1>1. Layout(r) = [NoDriveTypeAutoRun |-> Of(255, {}, {145, -1}), use_autoplay |-> Of(0, {}, {1})]
  BY GroupLayouts DEF WINDOWS_RULES, WindowsLayout, Unset
<1>2. /\ Places(r) = {"NoDriveTypeAutoRun", "use_autoplay"}
      /\ Sources(r) = {"NoDriveTypeAutoRun"}
      /\ Open(r, "NoDriveTypeAutoRun") = {145, -1} /\ Open(r, "use_autoplay") = {1}
      /\ Values(r, "NoDriveTypeAutoRun") = {255, 145, -1}
      /\ Values(r, "use_autoplay") = {0, 1}
  BY <1>1 DEF Places, Sources, Open, Values, Of
<1>3. Collected(r) = CollectAutoplay(r) /\ r \notin Layered
  BY DEF Collected, Layered, Ssh, Policies
<1>4. \A v : CheckFails(r, v) <=> v = "on"
  BY WindowsChecks
<1>5. IsOpen(r) <=> host[r].NoDriveTypeAutoRun \in {145, -1} /\ host[r].use_autoplay = 1
  BY <1>2, <1>3 DEF IsOpen
<1>6. (\E v \in Collected(r) : CheckFails(r, v)) <=> ~Reads(r, "NoDriveTypeAutoRun", 255)
  BY <1>3, <1>4 DEF CollectAutoplay
<1>7. Tells(r)
  BY <1>2, <1>5, <1>6 DEF Tells, Reads, Guessed, Excused, Typed, Read
<1>8. Complete(r)
  BY <1>2, <1>5, <1>6 DEF Complete, Reads
<1> QED BY <1>7, <1>8

\* The settings of sshd and of SmartScreen.
LEMMA LayeredAre ==
    ASSUME NEW r \in Layered
    PROVE  /\ Places(r) = {First(r), Second(r)} /\ Sources(r) = Places(r)
           /\ Collected(r) = CollectLayered(r)
           /\ \A v : CheckFails(r, v) <=> IF r \in Ssh THEN v = "yes" ELSE v # "on"
           /\ Default[r] # "unset"
           /\ r \in Ssh => Default[r] # "off"
<1>1. Collected(r) = CollectLayered(r)
  BY DEF Collected
<1>2. Default[r] # "unset" /\ (r \in Ssh => Default[r] # "off")
  BY DEF Default, Layered, Ssh
<1>3. Places(r) = {First(r), Second(r)} /\ Sources(r) = Places(r)
  <2>1. CASE r \in Ssh
    BY <2>1, GroupLayouts DEF Places, Sources, First, Second
  <2>2. CASE r = "smartscreen_disabled"
    <3>1. Layout(r) = [EnableSmartScreen |-> Of("unset", {"on"}, {"off"}),
                       SmartScreenEnabled |-> Of("on", {"unset"}, {"off"})]
      BY <2>2, GroupLayouts DEF WINDOWS_RULES, WindowsLayout
    <3> QED BY <2>2, <3>1 DEF Places, Sources, First, Second, Ssh
  <2> QED BY <2>1, <2>2 DEF Layered
<1>4. \A v : CheckFails(r, v) <=> IF r \in Ssh THEN v = "yes" ELSE v # "on"
  <2>1. CASE r \in Ssh
    BY <2>1, LinuxChecks
  <2>2. CASE r = "smartscreen_disabled"
    <3>1. r \notin Ssh
      BY <2>2 DEF Ssh
    <3> QED BY <2>2, <3>1, WindowsChecks
  <2> QED BY <2>1, <2>2 DEF Layered
<1> QED BY <1>1, <1>2, <1>3, <1>4

\* SmartScreen off by policy, or by its setting where no policy is, is found.
LEMMA SmartScreenTell == Tells("smartscreen_disabled") /\ Complete("smartscreen_disabled")
<1> DEFINE r == "smartscreen_disabled"
<1>1. Layout(r) = [EnableSmartScreen |-> Of("unset", {"on"}, {"off"}),
                   SmartScreenEnabled |-> Of("on", {"unset"}, {"off"})]
  BY GroupLayouts DEF WINDOWS_RULES, WindowsLayout
<1>2. /\ Values(r, "EnableSmartScreen") = {"unset", "on", "off"}
      /\ Values(r, "SmartScreenEnabled") = {"unset", "on", "off"}
  BY <1>1 DEF Values, Of
<1>3. /\ r \in Layered /\ r \notin Ssh /\ Default[r] = "on"
      /\ First(r) = "EnableSmartScreen" /\ Second(r) = "SmartScreenEnabled"
  BY DEF Layered, Ssh, Default, First, Second
<1> DEFINE a == host[r].EnableSmartScreen  b == host[r].SmartScreenEnabled
<1>4. Typed(r) => a \in {"unset", "on", "off"} /\ b \in {"unset", "on", "off"}
  BY <1>2, <1>3, LayeredAre DEF Typed
<1>5. Taken(r, First(r)) = a /\ Taken(r, Second(r)) = b
  BY <1>3 DEF Taken
<1>6. Typed(r) => (IsOpen(r) <=> a = "off" \/ (a = "unset" /\ b = "off"))
  <2>1. Typed(r) => Obeyed(r, First(r)) = a /\ Obeyed(r, Second(r)) = b
    BY <1>3, <1>4 DEF Obeyed, ForSome
  <2>2. Typed(r) => \A p \in Places(r) : host[r][p] # "yes_for_some"
    BY <1>3, <1>4, LayeredAre
  <2> QED BY <1>3, <1>4, <2>1, <2>2 DEF IsOpen, InForce
<1>7. Read(r) = Sources(r) => FirstOf(r, Read(r)) =
          IF a # "unset" THEN a ELSE IF b # "unset" THEN b ELSE "on"
  BY <1>3, <1>5, LayeredAre DEF FirstOf
<1>8. Collected(r) = {FirstOf(r, Read(r))} /\ \A v : CheckFails(r, v) <=> v # "on"
  BY <1>3, LayeredAre DEF CollectLayered
<1>9. Tells(r)
  BY <1>3, <1>4, <1>6, <1>7, <1>8 DEF Tells, Guessed
<1>10. Complete(r)
  BY <1>4, <1>6, <1>7, <1>8 DEF Complete
<1> QED BY <1>9, <1>10

\* A keyword of sshd is found by its first line in force, where it is spelt as known.
LEMMA SshTell == \A r \in Ssh : Tells(r) /\ Complete(r)
<1> SUFFICES ASSUME NEW r \in Ssh
             PROVE  Tells(r) /\ Complete(r)
  OBVIOUS
<1> DEFINE a == host[r].sshd_config_d  b == host[r].sshd_config
           all == {"unset", "no", "prohibit-password", "no_respelt", "no_for_some", "yes",
                   "yes_respelt", "yes_for_some"}
<1>1. /\ r \in Layered /\ First(r) = "sshd_config_d" /\ Second(r) = "sshd_config"
      /\ r \notin {"insecure_legacy_service_running", "bitlocker_disabled",
                   "no_account_lockout_policy"}
  BY DEF Layered, First, Second, Ssh
<1>2. Typed(r) => a \in all /\ b \in all
  <2>1. Values(r, First(r)) = all /\ Values(r, Second(r)) = all
    BY <1>1, GroupLayouts DEF Values, Of, SshLine
  <2> QED BY <1>1, <2>1, LayeredAre DEF Typed
<1>3. /\ Taken(r, First(r)) =
            IF a \in {"yes_respelt", "no_respelt"} THEN "unset"
            ELSE IF a = "yes_for_some" THEN "yes" ELSE IF a = "no_for_some" THEN "no" ELSE a
      /\ Taken(r, Second(r)) =
            IF b \in {"yes_respelt", "no_respelt"} THEN "unset"
            ELSE IF b = "yes_for_some" THEN "yes" ELSE IF b = "no_for_some" THEN "no" ELSE b
  BY <1>1 DEF Taken
<1>4. IsOpen(r) <=> InForce(r) \in {"yes", "off"} \/ a = "yes_for_some" \/ b = "yes_for_some"
  BY <1>1, LayeredAre DEF IsOpen
<1>5. Read(r) = Sources(r) =>
         Collected(r) = {IF Taken(r, First(r)) # "unset" THEN Taken(r, First(r))
                         ELSE IF Taken(r, Second(r)) # "unset" THEN Taken(r, Second(r))
                         ELSE Default[r]}
  BY <1>1, LayeredAre DEF CollectLayered, FirstOf
<1>6. \A v : CheckFails(r, v) <=> v = "yes"
  BY LinuxChecks
<1>7. a \notin Respelt \cup ForSome => Taken(r, First(r)) = a /\ Obeyed(r, First(r)) = a
  BY <1>1, <1>3 DEF Respelt, ForSome, Obeyed
<1>8. b \notin Respelt \cup ForSome => Taken(r, Second(r)) = b /\ Obeyed(r, Second(r)) = b
  BY <1>1, <1>3 DEF Respelt, ForSome, Obeyed
<1>9. Places(r) = {"sshd_config_d", "sshd_config"}
  BY <1>1, LayeredAre
<1>10. Tells(r)
  <2> SUFFICES ASSUME Typed(r), NEW v \in Collected(r), v = "yes", Read(r) = Sources(r),
                      a \notin Respelt, b \notin Respelt
               PROVE  IsOpen(r)
    BY <1>1, <1>6, <1>9 DEF Tells, Guessed, Excused
  <2>1. CASE a = "yes_for_some" \/ b = "yes_for_some"
    BY <1>4, <2>1
  <2>2. CASE a # "yes_for_some" /\ b # "yes_for_some"
    <3>1. a # "no_for_some"
      BY <1>3, <1>5
    <3>2. Taken(r, First(r)) = a /\ Obeyed(r, First(r)) = a
      BY <1>7, <2>2, <3>1 DEF ForSome
    <3>3. CASE a # "unset"
      BY <1>4, <1>5, <3>2, <3>3 DEF InForce
    <3>4. CASE a = "unset"
      <4>1. CASE b = "no_for_some"
        BY <1>3, <1>5, <3>2, <3>4, <4>1
      <4>2. CASE b # "no_for_some"
        BY <1>4, <1>5, <1>8, <2>2, <3>2, <3>4, <4>2 DEF InForce, ForSome
      <4> QED BY <4>1, <4>2
    <3> QED BY <3>3, <3>4
  <2> QED BY <2>1, <2>2
<1>11. Complete(r)
  <2> SUFFICES ASSUME Typed(r), IsOpen(r), Read(r) = Sources(r),
                      a \notin Respelt \cup ForSome, b \notin Respelt \cup ForSome
               PROVE  "yes" \in Collected(r)
    BY <1>6, <1>9 DEF Complete, Overlooked
  <2>1. InForce(r) \in {"yes", "off"}
    BY <1>4 DEF ForSome
  <2>2. a # "off" /\ b # "off" /\ Default[r] # "off"
    BY <1>1, <1>2, LayeredAre
  <2> QED BY <1>5, <1>7, <1>8, <2>1, <2>2 DEF InForce
<1> QED BY <1>10, <1>11

\* No rule reports what is not so, except where the collector guesses.
LEMMA FactsTell == AllTell
BY RuleCases, PlainTell, LegacyTell, AccountsTell, FaillockTell, SudoersTell, SmbTell,
   BitlockerTell, PolicyTell, RdpTell, UpdatesTell, AutoplayTell, SmartScreenTell, SshTell
   DEF AllTell

\* No rule misses what it reads, except what the collectors overlook.
LEMMA FactsComplete == AllComplete
BY RuleCases, PlainTell, LegacyTell, AccountsTell, FaillockTell, SudoersTell, SmbTell,
   BitlockerTell, PolicyTell, RdpTell, UpdatesTell, AutoplayTell, SmartScreenTell, SshTell
   DEF AllComplete

-----------------------------------------------------------------------------
(* Steps keep settings of their kind. *)

\* The best value of a place is a value of it.
LEMMA BestIsValue ==
    \A r \in AllRules : \A p \in Places(r) : Hardened(r)[p] \in Values(r, p)
<1>1. \A best, fine, open : Of(best, fine, open).best \in Of(best, fine, open).values
  BY DEF Of
<1>2. \A r \in DOMAIN LinuxLayout : \A p \in DOMAIN LinuxLayout[r] :
         LinuxLayout[r][p].best \in LinuxLayout[r][p].values
  <2>1. PamFile.best \in PamFile.values
    BY <1>1 DEF PamFile
  <2> HIDE DEF Of, PamFile
  <2> QED BY <1>1, <2>1 DEF LinuxLayout
<1>3. \A r \in DOMAIN WindowsLayout : \A p \in DOMAIN WindowsLayout[r] :
         WindowsLayout[r][p].best \in WindowsLayout[r][p].values
  BY <1>1 DEF WindowsLayout
<1>4. ASSUME NEW r \in AllRules, NEW p \in Places(r)
      PROVE  Layout(r)[p].best \in Layout(r)[p].values
  <2>1. CASE r \in Units
    BY <1>1, <2>1, GroupLayouts DEF Places
  <2>2. CASE r \in Ssh
    <3>1. \A b : SshLine(b).best \in SshLine(b).values
      BY <1>1 DEF SshLine
    <3> HIDE DEF SshLine
    <3> QED BY <2>2, <3>1, GroupLayouts DEF Places
  <2>3. CASE r \in WINDOWS_RULES
    BY <1>3, <2>3, GroupLayouts DEF Places, WINDOWS_RULES, WindowsLayout
  <2>4. CASE r \in LINUX_RULES \ (Units \cup Ssh)
    BY <1>2, <2>4, GroupLayouts DEF Places, LINUX_RULES, LinuxLayout
  <2> QED BY <2>1, <2>2, <2>3, <2>4 DEF AllRules
<1> QED BY <1>4 DEF Hardened, Values

\* What the fix_steps set is a value of the place.
LEMMA ChangesTyped ==
    ASSUME NEW r \in AllRules, Typed(r), NEW change \in Changes(r), NEW p \in Places(r),
           p \in DOMAIN change
    PROVE  change[p] \in Values(r, p)
<1>1. CASE r \in Ssh
  <2>1. change = [sshd_config |-> "no"] /\ p = "sshd_config"
    BY <1>1 DEF Changes
  <2> QED BY <1>1, <2>1, GroupLayouts DEF Values, SshLine, Of
<1>2. CASE r = "empty_password_users"
  <2>1. change = [shadow |-> "none"] /\ p = "shadow"
    BY <1>2 DEF Changes, Mend, Ssh
  <2>2. Layout(r) = [passwd |-> Of("x", {}, {"empty"}), shadow |-> Of("none", {}, {"some"})]
    BY <1>2, GroupLayouts DEF LINUX_RULES, Units, Ssh, LinuxLayout
  <2> QED BY <2>1, <2>2 DEF Values, Of
<1>3. CASE r = "smb1_enabled"
  <2>1. change = [smb1 |-> "disable_pending"] /\ p = "smb1"
    BY <1>3 DEF Changes, Mend, Ssh
  <2>2. Layout(r) = [smb1 |-> Of("disabled", {}, {"enabled", "disable_pending"})]
    BY <1>3, GroupLayouts DEF WINDOWS_RULES, WindowsLayout
  <2> QED BY <2>1, <2>2 DEF Values, Of
<1>4. CASE r = "auto_updates_off"
  <2>1. change = [paused |-> 0] /\ p = "paused"
    BY <1>4 DEF Changes, Mend, Ssh
  <2>2. Layout(r) = [NoAutoUpdate |-> Of(0, {}, {1}), wuauserv |-> Of(3, {}, {4}),
                     paused |-> Of(0, {}, {1})]
    BY <1>4, GroupLayouts DEF WINDOWS_RULES, WindowsLayout
  <2> QED BY <2>1, <2>2 DEF Values, Of
<1>5. CASE r = "bitlocker_disabled"
  <2>1. change = [bitlocker |-> "encryptioninprogress"] /\ p = "bitlocker"
    BY <1>5 DEF Changes, Mend, Ssh
  <2>2. Layout(r) = [bitlocker |-> Of("fullyencrypted", {},
                          {"fullydecrypted", "encryptioninprogress", "suspended"})]
    BY <1>5, GroupLayouts DEF WINDOWS_RULES, WindowsLayout
  <2> QED BY <2>1, <2>2 DEF Values, Of
<1>6. CASE r = "smartscreen_disabled"
  <2>1. change = [SmartScreenEnabled |-> "on"] /\ p = "SmartScreenEnabled"
    BY <1>6 DEF Changes, Mend, Ssh
  <2>2. Layout(r) = [EnableSmartScreen |-> Of("unset", {"on"}, {"off"}),
                     SmartScreenEnabled |-> Of("on", {"unset"}, {"off"})]
    BY <1>6, GroupLayouts DEF WINDOWS_RULES, WindowsLayout
  <2> QED BY <2>1, <2>2 DEF Values, Of
<1>7. CASE r = "autoplay_enabled"
  <2>1. change = [use_autoplay |-> 0] /\ p = "use_autoplay"
    BY <1>7 DEF Changes, Mend, Ssh
  <2>2. Layout(r) = [NoDriveTypeAutoRun |-> Of(255, {}, {145, Unset}),
                     use_autoplay |-> Of(0, {}, {1})]
    BY <1>7, GroupLayouts DEF WINDOWS_RULES, WindowsLayout
  <2> QED BY <2>1, <2>2 DEF Values, Of
<1>m. ASSUME NEW n \in Nat, n = 0 \/ n \in 1..MaxListed, NEW m \in Left(n)
      PROVE  m = 0 \/ m \in 1..MaxListed
  BY <1>m, HardeningAssumption DEF Left
<1>8. CASE r = "world_writable_files"
  <2>1. Layout(r) = [find |-> Of(0, {}, 1..MaxListed)]
    BY <1>8, GroupLayouts DEF LINUX_RULES, Units, Ssh, LinuxLayout
  <2>2. Values(r, "find") = {0} \cup {} \cup (1..MaxListed) /\ Places(r) = {"find"}
    BY <2>1 DEF Values, Of, Places
  <2>3. PICK m \in Left(host[r].find) : change = [find |-> m]
    BY <1>8 DEF Changes, Mend, Ssh
  <2>4. host[r].find = 0 \/ host[r].find \in 1..MaxListed
    BY <2>2 DEF Typed
  <2>5. host[r].find \in Nat
    BY <2>4, HardeningAssumption
  <2> QED BY <1>m, <2>2, <2>3, <2>4, <2>5
<1>9. CASE r = "passwordless_sudo"
  <2> DEFINE list == Of(0, {}, 1..MaxListed)
  <2>1. Layout(r) = [sudoers |-> list, sudoers_d |-> list]
    BY <1>9, GroupLayouts DEF LINUX_RULES, Units, Ssh, LinuxLayout
  <2>2. list.values = {0} \cup {} \cup (1..MaxListed)
    BY DEF Of
  <2> HIDE DEF list
  <2>3. Values(r, "sudoers") = {0} \cup {} \cup (1..MaxListed) /\ "sudoers" \in Places(r)
    BY <2>1, <2>2 DEF Values, Places
  <2>4. PICK m \in Left(host[r].sudoers) : change = [sudoers |-> m]
    BY <1>9 DEF Changes, Mend, Ssh
  <2>5. host[r].sudoers = 0 \/ host[r].sudoers \in 1..MaxListed
    BY <2>3 DEF Typed
  <2>6. host[r].sudoers \in Nat
    BY <2>5, HardeningAssumption
  <2> QED BY <1>m, <2>3, <2>4, <2>5, <2>6
<1>10. CASE r = "duplicate_uid0_accounts"
  <2>1. Layout(r) = [passwd |-> Of("none", {}, {"some"})]
    BY <1>10, GroupLayouts DEF LINUX_RULES, Units, Ssh, LinuxLayout
  <2>2. p = "passwd" /\ change.passwd \in {"none", "some"}
    BY <1>10, <2>1 DEF Changes, Mend, Ssh, Places
  <2> QED BY <2>1, <2>2 DEF Values, Of
<1>11. CASE r = "rdp_without_nla"
  <2>1. Layout(r) = [fDenyTSConnections |-> Of(1, {}, {0}),
                     UserAuthentication |-> Of(1, {}, {0})]
    BY <1>11, GroupLayouts DEF WINDOWS_RULES, WindowsLayout
  <2>2. change \in {[fDenyTSConnections |-> 1], [UserAuthentication |-> 1]}
    BY <1>11 DEF Changes, Mend, Ssh
  <2>3. change[p] = 1
    BY <2>2
  <2> QED BY <2>1, <2>3 DEF Values, Of, Places
<1>12. CASE /\ r \notin Ssh /\ r \notin DOMAIN Mend
            /\ r \notin {"world_writable_files", "passwordless_sudo",
                         "duplicate_uid0_accounts", "rdp_without_nla"}
  <2>1. change = host[r] \/ change = Hardened(r)
    BY <1>12 DEF Changes
  <2> QED BY <2>1, BestIsValue DEF Typed
<1> QED BY <1>1, <1>2, <1>3, <1>4, <1>5, <1>6, <1>7, <1>8, <1>9, <1>10, <1>11, <1>12 DEF Mend

\* The host starts hardened.
LEMMA HardInit == HardeningInit => HardInv
BY RulesAre, BestIsValue DEF HardeningInit, HardInv, Typed, Hardened

\* A setting of its kind in place of another.
LEMMA OneChange ==
    ASSUME HardInv, NEW r \in Rules, NEW s, os_family' = os_family,
           s = [p \in Places(r) |-> s[p]], \A p \in Places(r) : s[p] \in Values(r, p),
           host' = [host EXCEPT ![r] = s]
    PROVE  HardInv' /\ Rules' = Rules /\ host'[r] = s
<1>1. Rules' = Rules
  BY DEF Rules
<1>2. host'[r] = s /\ \A q \in Rules : q # r => host'[q] = host[q]
  BY DEF HardInv
<1>3. \A q \in Rules : Typed(q)'
  BY <1>2 DEF HardInv, Typed
<1> QED BY <1>1, <1>2, <1>3 DEF HardInv

\* A fix leaves a setting of its kind.
LEMMA FixTyped ==
    ASSUME NEW r \in AllRules, Typed(r), NEW change \in Changes(r)
    PROVE  LET s == With(host[r], change)
           IN  /\ s = [p \in Places(r) |-> s[p]]
               /\ \A p \in Places(r) : s[p] \in Values(r, p)
<1>1. DOMAIN host[r] = Places(r)
  BY DEF Typed
<1> QED BY <1>1, ChangesTyped DEF With, Typed

\* Every step keeps the kinds, and no step changes the rules.
LEMMA HardStep == HardInv /\ [HardeningNext]_hardeningVars => HardInv' /\ Rules' = Rules
<1> SUFFICES ASSUME HardInv, [HardeningNext]_hardeningVars
             PROVE  HardInv' /\ Rules' = Rules
  OBVIOUS
<1>1. ASSUME NEW r \in Rules, NEW p \in Places(r), NEW v \in Values(r, p), Drift(r, p, v)
      PROVE  HardInv' /\ Rules' = Rules
  <2> DEFINE s == [host[r] EXCEPT ![p] = v]
  <2>1. Typed(r)
    BY DEF HardInv
  <2>2. s = [q \in Places(r) |-> s[q]] /\ \A q \in Places(r) : s[q] \in Values(r, q)
    BY <2>1 DEF Typed
  <2>3. host' = [host EXCEPT ![r] = s] /\ os_family' = os_family
    BY <1>1 DEF Drift
  <2> HIDE DEF s
  <2> QED BY <2>2, <2>3, OneChange
<1>2. ASSUME NEW r \in RuleFindings, Fix(r)
      PROVE  HardInv' /\ Rules' = Rules
  <2>1. r \in Rules /\ r \in AllRules /\ Typed(r)
    BY RulesAre DEF RuleFindings, HardInv
  <2>2. PICK change \in Changes(r) : host' = [host EXCEPT ![r] = With(host[r], change)]
    BY <1>2 DEF Fix
  <2>3. os_family' = os_family
    BY <1>2 DEF Fix
  <2> QED BY <2>1, <2>2, <2>3, FixTyped, OneChange
<1>3. ASSUME NEW r \in Rules, Settle(r)
      PROVE  HardInv' /\ Rules' = Rules
  <2>1. /\ Hardened(r) = [p \in Places(r) |-> Hardened(r)[p]]
        /\ \A p \in Places(r) : Hardened(r)[p] \in Values(r, p)
    BY RulesAre, BestIsValue DEF Hardened
  <2> QED BY <1>3, <2>1, OneChange DEF Settle
<1>4. CASE UNCHANGED <<os_family, host>>
  BY <1>4 DEF HardInv, Rules, Typed
<1> QED BY <1>1, <1>2, <1>3, <1>4 DEF HardeningNext, hardeningVars, Close, Regain

-----------------------------------------------------------------------------
(* The theorems. *)

\* A finding of engine.py is true of the host, whatever places the collectors
\* cannot read, except where they guess, where a user has switched AutoPlay off,
\* and where sshd has the keyword in another case (NoFalseFailure).
THEOREM NoneFalse == HardeningSpec => []NoFalseFailure
<1>1. HardInv => NoFalseFailure
  BY RulesAre, FactsTell
     DEF HardInv, NoFalseFailure, RuleFindings, AllTell, Tells, Excused
<1> QED BY <1>1, HardInit, HardStep, PTL DEF HardeningSpec

\* A setting that leaves the host open is found whenever its places can all be
\* read, except what the collectors overlook (NoMissedSetting).
THEOREM NoneMissed == HardeningSpec => []NoMissedSetting
<1>1. HardInv => NoMissedSetting
  BY RulesAre, FactsComplete
     DEF HardInv, NoMissedSetting, RuleFindings, AllComplete, Complete
<1> QED BY <1>1, HardInit, HardStep, PTL DEF HardeningSpec

\* Rules whose fix_steps set every place to its hardened value.
ClosingRules ==
    (OnePlaceRules \ {"world_writable_files", "duplicate_uid0_accounts"})
        \cup {"insecure_legacy_service_running", "no_account_lockout_policy",
              "powershell_unrestricted"}

\* A hardened place leaves nothing open.
LEMMA HardenedCloses ==
    ASSUME NEW r \in ClosingRules, NEW p \in Places(r)
    PROVE  Hardened(r)[p] \notin Open(r, p)
<1>1. CASE r \in OnePlaceRules
  BY <1>1, PlainRules DEF Plainly
<1>2. CASE r = "insecure_legacy_service_running"
  <2>1. Layout(r) = [systemctl |-> Of("none", {}, {"service", "socket"})]
    BY <1>2, GroupLayouts DEF LINUX_RULES, Units, Ssh, LinuxLayout
  <2> QED BY <2>1 DEF Places, Hardened, Open, Of
<1>3. CASE r = "no_account_lockout_policy"
  <2>1. Layout(r) = [system_auth |-> PamFile, password_auth |-> PamFile]
    BY <1>3, GroupLayouts DEF LINUX_RULES, Units, Ssh, LinuxLayout
  <2>2. PamFile.best = "on" /\ PamFile.open = {"off", "commented"}
    BY DEF PamFile, Of
  <2> QED BY <2>1, <2>2 DEF Places, Hardened, Open
<1>4. CASE r = "powershell_unrestricted"
  <2>1. Layout(r) = [policy |-> Of("RemoteSigned", {"Restricted"}, {"Unrestricted", "Bypass"})]
    BY <1>4, GroupLayouts DEF WINDOWS_RULES, WindowsLayout
  <2> QED BY <2>1 DEF Places, Hardened, Open, Of
<1> QED BY <1>1, <1>2, <1>3, <1>4 DEF ClosingRules

\* What following the steps leaves of a rule of sshd.
LEMMA SshMended ==
    ASSUME NEW r \in Ssh, Typed(r), host'[r].sshd_config = "no",
           host'[r].sshd_config_d = host[r].sshd_config_d, status' = status, ~Guessed(r),
           NEW v \in Collected(r)', v = "yes"
    PROVE  NotMended(r)
<1>1. /\ r \in Layered /\ First(r) = "sshd_config_d" /\ Second(r) = "sshd_config"
      /\ r \notin {"insecure_legacy_service_running", "bitlocker_disabled",
                   "no_account_lockout_policy"}
  BY DEF Layered, First, Second, Ssh
<1>2. Read(r) = {"sshd_config_d", "sshd_config"} /\ Read(r)' = Read(r)
  BY <1>1, LayeredAre DEF Guessed, Read
<1>3. Collected(r)' = {FirstOf(r, Read(r))'}
  BY <1>1, <1>2 DEF Collected, CollectLayered
<1>4. Taken(r, "sshd_config")' = "no"
  BY <1>1 DEF Taken
<1>5. Taken(r, "sshd_config_d")' = "yes"
  BY <1>1, <1>2, <1>3, <1>4 DEF FirstOf
<1>6. host[r].sshd_config_d \in {"yes", "yes_for_some"}
  BY <1>1, <1>5 DEF Taken
<1> QED BY <1>6 DEF NotMended

\* Following the fix_steps of a finding closes it at the next scan, when they
\* change the host at all, except where a place they do not touch overrides
\* them, where something is kept or goes on, and where the collector guesses
\* (FixesHold).
THEOREM FixesWork == HardeningSpec => FixesHold
<1> DEFINE Holds == \A r \in RuleFindings : Fix(r) /\ r \in RuleFindings' =>
                        NotMended(r) \/ Remains(r)' \/ Guessed(r)
<1>t. AllTell'
  BY FactsTell, PTL
<1>1. HardInv /\ [HardeningNext]_hardeningVars => [Holds]_hardeningVars
  <2> SUFFICES ASSUME HardInv, HardeningNext, host' # host,
                      NEW r \in RuleFindings, Fix(r), r \in RuleFindings',
                      ~NotMended(r), ~Guessed(r)
               PROVE  Remains(r)'
    BY DEF Fix, hardeningVars
  <2>1. r \in Rules /\ r \in AllRules /\ Typed(r)
    BY RulesAre DEF RuleFindings, HardInv
  <2>2. HardInv' /\ Rules' = Rules /\ Typed(r)'
    BY <2>1, HardStep DEF HardInv
  <2>3. PICK change \in Changes(r) : host' = [host EXCEPT ![r] = With(host[r], change)]
    BY DEF Fix
  <2>4. status' = status /\ launch' = launch
    BY DEF Fix
  <2>5. host'[r] = With(host[r], change)
    BY <2>1, <2>3 DEF HardInv
  <2>6. \A p \in Places(r) : host'[r][p] = IF p \in DOMAIN change THEN change[p]
                                           ELSE host[r][p]
    <3>1. DOMAIN host[r] = Places(r)
      BY <2>1 DEF Typed
    <3> QED BY <2>5, <3>1 DEF With
  <2>7. PICK v \in Collected(r)' : CheckFails(r, v)
    BY DEF RuleFindings
  <2>8. ~Guessed(r)'
    BY <2>4 DEF Guessed, Mute, Read
  <2>9. IsOpen(r)' \/ Excused(r)'
    BY <1>t, <2>1, <2>2, <2>7, <2>8 DEF AllTell, Tells
  <2>10. CASE r \in Ssh
    <3>1. change = [sshd_config |-> "no"]
      BY <2>10 DEF Changes
    <3>2. Places(r) = {"sshd_config_d", "sshd_config"}
      BY <2>10, LayeredAre DEF Layered, First, Second
    <3>3. host'[r].sshd_config = "no" /\ host'[r].sshd_config_d = host[r].sshd_config_d
      BY <2>6, <3>1, <3>2
    <3>4. v = "yes"
      BY <2>7, <2>10, LinuxChecks
    <3> QED BY <2>1, <2>4, <2>7, <2>10, <3>3, <3>4, SshMended
  <2>11. CASE r \notin Ssh /\ r # "autoplay_enabled"
    <3>1. IsOpen(r)'
      BY <2>9, <2>11 DEF Excused
    <3>2. CASE r \in {"world_writable_files", "duplicate_uid0_accounts",
                      "passwordless_sudo", "bitlocker_disabled"}
      BY <3>1, <3>2 DEF Remains
    <3>3. CASE r = "auto_updates_off"
      BY <3>3 DEF NotMended
    <3>4. CASE r = "empty_password_users"
      <4>1. change = [shadow |-> "none"]
        BY <3>4 DEF Changes, Mend, Ssh
      <4>2. Layout(r) = [passwd |-> Of("x", {}, {"empty"}), shadow |-> Of("none", {}, {"some"})]
        BY <3>4, GroupLayouts DEF LINUX_RULES, Units, Ssh, LinuxLayout
      <4>3. host'[r].shadow = "none"
        BY <2>6, <4>1, <4>2 DEF Places
      <4>4. Collected(r)' = CollectAccounts(r)'
        BY <3>4 DEF Collected, Layered, Ssh, Policies
      <4> QED BY <2>7, <3>4, <4>3, <4>4, LinuxChecks DEF CollectAccounts
    <3>5. CASE r = "smb1_enabled"
      <4>1. change = [smb1 |-> "disable_pending"]
        BY <3>5 DEF Changes, Mend, Ssh
      <4>2. Layout(r) = [smb1 |-> Of("disabled", {}, {"enabled", "disable_pending"})]
        BY <3>5, GroupLayouts DEF WINDOWS_RULES, WindowsLayout
      <4>3. Places(r) = {"smb1"} /\ host'[r].smb1 = "disable_pending"
        BY <2>6, <4>1, <4>2 DEF Places
      <4>4. Collected(r)' = {host'[r][p] : p \in Read(r)'}
        BY <3>5 DEF Collected, CollectValue, Silence, Taken, Layered, Ssh, Policies, Units
      <4>5. v = "disable_pending"
        BY <2>7, <4>3, <4>4 DEF Read, Sources
      <4> QED BY <2>7, <3>5, <4>5, WindowsChecks
    <3>6. CASE r = "smartscreen_disabled"
      <4>1. change = [SmartScreenEnabled |-> "on"]
        BY <3>6 DEF Changes, Mend, Ssh
      <4>2. /\ First(r) = "EnableSmartScreen" /\ Second(r) = "SmartScreenEnabled"
            /\ Places(r) = {"EnableSmartScreen", "SmartScreenEnabled"} /\ r \in Layered
        BY <3>6, LayeredAre DEF Layered, First, Second, Ssh
      <4>3. /\ host'[r].SmartScreenEnabled = "on"
            /\ host'[r].EnableSmartScreen = host[r].EnableSmartScreen
        BY <2>6, <4>1, <4>2
      <4>4. Layout(r) = [EnableSmartScreen |-> Of("unset", {"on"}, {"off"}),
                         SmartScreenEnabled |-> Of("on", {"unset"}, {"off"})]
        BY <3>6, GroupLayouts DEF WINDOWS_RULES, WindowsLayout
      <4>5. Values(r, "EnableSmartScreen") = {"unset", "on", "off"}
        BY <4>4 DEF Values, Of
      <4>6. host[r].EnableSmartScreen \in {"unset", "on"}
        BY <2>1, <3>6, <4>2, <4>5 DEF Typed, NotMended
      <4>7. Obeyed(r, First(r))' \in {"unset", "on"} /\ Obeyed(r, Second(r))' = "on"
        BY <4>2, <4>3, <4>6 DEF Obeyed, ForSome
      <4>8. InForce(r)' = "on"
        BY <4>7 DEF InForce
      <4>9. \A p \in Places(r) : host'[r][p] # "yes_for_some"
        BY <4>2, <4>3, <4>6
      <4> QED BY <3>1, <4>2, <4>8, <4>9 DEF IsOpen
    <3>7. CASE r = "rdp_without_nla"
      <4>1. change \in {[fDenyTSConnections |-> 1], [UserAuthentication |-> 1]}
        BY <3>7 DEF Changes, Mend, Ssh
      <4>2. Layout(r) = [fDenyTSConnections |-> Of(1, {}, {0}),
                         UserAuthentication |-> Of(1, {}, {0})]
        BY <3>7, GroupLayouts DEF WINDOWS_RULES, WindowsLayout
      <4>3. /\ Places(r) = {"fDenyTSConnections", "UserAuthentication"}
            /\ \A p \in Places(r) : Open(r, p) = {0}
        BY <4>2 DEF Places, Open, Of
      <4>4. \E p \in Places(r) : host'[r][p] = 1
        BY <2>6, <4>1, <4>3
      <4>5. r \notin Layered
        BY <3>7 DEF Layered, Ssh
      <4> QED BY <3>1, <3>7, <4>3, <4>4, <4>5 DEF IsOpen
    <3>8. CASE r \in ClosingRules
      <4>1. change = Hardened(r) \/ change = host[r]
        BY <3>8 DEF Changes, Mend, ClosingRules, OnePlaceRules, PlainLinux, PlainWindows, Units, Ssh
      <4>2. CASE change = host[r]
        <5>1. With(host[r], change) = host[r]
          BY <2>1, <4>2 DEF With, Typed
        <5>2. host' = host
          BY <2>1, <2>3, <5>1 DEF HardInv
        <5> QED BY <5>2
      <4>3. CASE change = Hardened(r)
        <5>1. \A p \in Places(r) : host'[r][p] \notin Open(r, p)
          BY <2>6, <3>8, <4>3, HardenedCloses DEF Hardened
        <5>2. r \notin Layered /\ r \notin {"rdp_without_nla", "autoplay_enabled"}
          BY <3>8 DEF ClosingRules, OnePlaceRules, PlainLinux, PlainWindows, Units, Ssh, Layered
        <5> QED BY <3>1, <5>1, <5>2 DEF IsOpen
      <4> QED BY <4>1, <4>2, <4>3
    <3> QED BY <2>1, <2>11, <3>2, <3>3, <3>4, <3>5, <3>6, <3>7, <3>8, RuleCases DEF ClosingRules
  <2>12. CASE r = "autoplay_enabled"
    BY <2>12 DEF NotMended
  <2> QED BY <2>10, <2>11, <2>12
<1> QED BY <1>1, HardInit, HardStep, PTL DEF HardeningSpec, FixesHold

=============================================================================
