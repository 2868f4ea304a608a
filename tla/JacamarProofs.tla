---------------------------- MODULE JacamarProofs ----------------------------
(***************************************************************************)
(* Proofs about Jacamar, for any runner names and any number of runs and   *)
(* stops.                                                                  *)
(***************************************************************************)
EXTENDS Jacamar, SequenceTheorems, TLAPS

\* What the commands do to one part leaves a host.
LEMMA SetPart ==
    ASSUME NEW h \in Hosts
    PROVE  /\ [h EXCEPT !.packages = TRUE] \in Hosts
           /\ [h EXCEPT !.runner = TRUE] \in Hosts
           /\ [h EXCEPT !.service = TRUE] \in Hosts
           /\ \A x \in Sources : [h EXCEPT !.source = x] \in Hosts
           /\ \A x \in [Binaries -> Binary] : [h EXCEPT !.binaries = x] \in Hosts
           /\ \A x \in Sudoers : [h EXCEPT !.sudoers = x] \in Hosts
           /\ \A x \in Tomls : [h EXCEPT !.toml = x] \in Hosts
           /\ \A x \in Seq(Runner) : [h EXCEPT !.config = x] \in Hosts
BY DEF Hosts

LEMMA SetBinary ==
    ASSUME NEW h \in Hosts, NEW b \in Binaries
    PROVE  /\ [h EXCEPT !.binaries[b].capable = TRUE] \in Hosts
           /\ [h EXCEPT !.binaries[b].capable = FALSE] \in Hosts
           /\ [h EXCEPT !.binaries[b].restricted = TRUE] \in Hosts
<1>1. h.binaries \in [Binaries -> Binary]
  BY DEF Hosts
<1>2. /\ [h.binaries EXCEPT ![b].capable = TRUE] \in [Binaries -> Binary]
      /\ [h.binaries EXCEPT ![b].capable = FALSE] \in [Binaries -> Binary]
      /\ [h.binaries EXCEPT ![b].restricted = TRUE] \in [Binaries -> Binary]
  BY <1>1 DEF Binary
<1>3. /\ [h EXCEPT !.binaries = [h.binaries EXCEPT ![b].capable = TRUE]] \in Hosts
      /\ [h EXCEPT !.binaries = [h.binaries EXCEPT ![b].capable = FALSE]] \in Hosts
      /\ [h EXCEPT !.binaries = [h.binaries EXCEPT ![b].restricted = TRUE]] \in Hosts
  BY <1>2, SetPart
<1> QED BY <1>3

\* What is left of a list when one of its elements is taken out: the others,
\* in their order.
LEMMA Removal ==
    ASSUME NEW S, NEW s \in Seq(S), NEW i \in DOMAIN s
    PROVE  LET t == SubSeq(s, 1, i - 1) \o SubSeq(s, i + 1, Len(s)) IN
           /\ t \in Seq(S) /\ Len(t) = Len(s) - 1
           /\ \A k \in DOMAIN t : t[k] = s[IF k < i THEN k ELSE k + 1]
<1> DEFINE a == SubSeq(s, 1, i - 1)
           b == SubSeq(s, i + 1, Len(s))
<1>1. i \in 1..Len(s) /\ Len(s) \in Nat
  BY LenProperties
<1>2. a \in Seq(S) /\ Len(a) = i - 1 /\ \A k \in 1..(i - 1) : a[k] = s[k]
  <2>1. 1 \in Int /\ i - 1 \in Int
    BY <1>1
  <2> QED BY <1>1, <2>1, SubSeqProperties
<1>3. b \in Seq(S) /\ Len(b) = Len(s) - i /\ \A k \in 1..(Len(s) - i) : b[k] = s[i + k]
  BY <1>1, SubSeqProperties
<1> HIDE DEF a, b
<1>4. a \o b \in Seq(S) /\ Len(a \o b) = Len(s) - 1
  <2>1. a \o b \in Seq(S) /\ Len(a \o b) = Len(a) + Len(b)
    BY <1>2, <1>3, ConcatProperties
  <2> QED BY <1>1, <1>2, <1>3, <2>1
<1>5. ASSUME NEW k \in DOMAIN (a \o b)
      PROVE  (a \o b)[k] = s[IF k < i THEN k ELSE k + 1]
  <2>1. k \in 1..(Len(s) - 1)
    BY <1>4, LenProperties
  <2>2. k \in 1..(Len(a) + Len(b))
    BY <1>1, <1>2, <1>3, <2>1
  <2>3. (a \o b)[k] = IF k <= Len(a) THEN a[k] ELSE b[k - Len(a)]
    BY <1>2, <1>3, <2>2, ConcatProperties
  <2>4. CASE k < i
    <3>1. k \in 1..(i - 1) /\ k <= Len(a)
      BY <1>1, <1>2, <2>1, <2>4
    <3> QED BY <1>2, <2>3, <2>4, <3>1
  <2>5. CASE ~(k < i)
    <3>1. k - (i - 1) \in 1..(Len(s) - i) /\ ~(k <= Len(a)) /\ i + (k - (i - 1)) = k + 1
      BY <1>1, <1>2, <2>1, <2>5
    <3> QED BY <1>2, <1>3, <2>3, <2>5, <3>1
  <2> QED BY <2>4, <2>5
<1> QED BY <1>4, <1>5 DEF a, b

-----------------------------------------------------------------------------
(* Every step keeps every variable of its kind. *)

LEMMA TypeStep == TypeOK /\ [Next]_vars => TypeOK'
<1> SUFFICES ASSUME TypeOK, [Next]_vars
             PROVE  TypeOK'
  OBVIOUS
<1>t. /\ host \in Hosts /\ pc \in Places /\ ans \in Answers /\ dry \in BOOLEAN
      /\ bin \in Binaries /\ runs \in 0..MaxRuns /\ stops \in 0..MaxStops
  BY DEF TypeOK
<1>a. ans.mode \in Modes /\ ans.usersValid \in BOOLEAN /\ ans.name \in Names
  BY <1>t DEF Answers
<1>b. "own" \in Binaries /\ "jacamar-auth" \in Binaries /\ "jacamar" \in Binaries
  BY DEF Binaries, Built
<1>p. host.binaries \in [Binaries -> Binary] /\ host.config \in Seq(Runner)
  BY <1>t DEF Hosts
<1>d. ASSUME NEW from, NEW to \in Places, NEW h \in Hosts, Do(from, to, h)
      PROVE  TypeOK'
  BY <1>t, <1>d DEF Do, Run, script, TypeOK
<1>e. ASSUME NEW from, Die(from)
      PROVE  TypeOK'
  BY <1>t, <1>e DEF Die, script, TypeOK, Places
<1>1. ASSUME NEW a \in Answers, NEW d \in BOOLEAN, Start(a, d)
      PROVE  TypeOK'
  <2>1. runs' \in 0..MaxRuns
    BY <1>1, <1>t, JacamarAssumption DEF Start
  <2> QED BY <1>1, <1>t, <2>1 DEF Start, TypeOK, Places
<1>2. CASE InstallPackages \/ InstallRunner \/ RestartService \/ Finish
  BY <1>2, <1>t, <1>d, SetPart
     DEF InstallPackages, InstallRunner, RestartService, Finish, Places
<1>3. CASE UseExisting
  BY <1>3, <1>t, <1>b DEF UseExisting, TypeOK, Places
<1>4. CASE NoExisting \/ NothingBuilt
  BY <1>4, <1>e DEF NoExisting, NothingBuilt
<1>5. CASE Clone
  <2>1. [host EXCEPT !.source = "cloned"] \in Hosts
    BY <1>t, SetPart DEF Sources
  <2> QED BY <1>5, <1>d, <2>1 DEF Clone, Places
<1>6. CASE Pull
  BY <1>6, <1>t, <1>d, <1>e DEF Pull, Places
<1>7. CASE Make
  <2>1. PICK made \in SUBSET Built :
          Do("make", "resolve",
             [host EXCEPT !.binaries = [b \in Binaries |->
                  IF b \in made THEN Installed ELSE host.binaries[b]]])
    BY <1>7 DEF Make
  <2>2. Installed \in Binary
    BY DEF Installed, Absent, Binary
  <2>3. [b \in Binaries |-> IF b \in made THEN Installed ELSE host.binaries[b]]
            \in [Binaries -> Binary]
    BY <1>p, <2>2
  <2> QED BY <1>t, <1>d, <2>1, <2>3, SetPart DEF Places
<1>8. CASE Resolve
  BY <1>8, <1>t, <1>b DEF Resolve, TypeOK, Places
<1>9. CASE Setcap \/ Chown \/ Chmod
  BY <1>9, <1>t, <1>d, SetBinary DEF Setcap, Chown, Chmod, Places
<1>10. CASE OpenSudoers \/ FillSudoers
  <2>1. TornFile \in Sudoers /\ Rule(bin, ans.usersValid) \in Sudoers
    BY <1>t, <1>a DEF Sudoers
  <2> QED BY <1>10, <1>t, <1>d, <2>1, SetPart DEF OpenSudoers, FillSudoers, Places
<1>11. CASE Visudo \/ NoDownscope
  BY <1>11, <1>t, <1>d, <1>e DEF Visudo, NoDownscope, Places
<1>12. CASE OpenToml \/ FillToml
  <2>1. TornFile \in Tomls /\ Toml(ans.mode) \in Tomls
    BY <1>a DEF Tomls
  <2> QED BY <1>12, <1>t, <1>d, <2>1, SetPart DEF OpenToml, FillToml, Places
<1>13. CASE SkipRegistration
  BY <1>13, <1>t, <1>d DEF SkipRegistration, Places
<1>14. CASE Register
  <2>1. Entry(ans.name) \in Runner
    BY <1>a DEF Entry, Runner
  <2>2. Append(host.config, Entry(ans.name)) \in Seq(Runner)
    BY <1>p, <2>1, AppendProperties
  <2>3. [host EXCEPT !.config = Append(host.config, Entry(ans.name))] \in Hosts
    BY <1>t, <2>2, SetPart
  <2> QED BY <1>14, <1>d, <2>3 DEF Register, Places
<1>15. CASE AppendCustom
  <2> DEFINE c == host.config
             i == Len(c)
             wired == [c EXCEPT ![i].custom = Append(@, bin)]
  <2>1. wired \in Seq(Runner)
    <3>1. c \in [1..i -> Runner] /\ i \in Nat
      BY <1>p, LenProperties
    <3>2. wired \in [1..i -> Runner]
      <4>1. ASSUME i \in 1..i
            PROVE  [c[i] EXCEPT !.custom = Append(@, bin)] \in Runner
        <5>1. c[i] \in Runner /\ c[i].custom \in Seq(Binaries)
          BY <3>1, <4>1 DEF Runner
        <5>2. Append(c[i].custom, bin) \in Seq(Binaries)
          BY <1>t, <5>1, AppendProperties
        <5> HIDE DEF c, i
        <5> QED BY <5>1, <5>2 DEF Runner
      <4>2. wired = [c EXCEPT ![i] = [c[i] EXCEPT !.custom = Append(@, bin)]]
        OBVIOUS
      <4> HIDE DEF c, i, wired
      <4> QED BY <3>1, <4>1, <4>2
    <3> HIDE DEF c, i, wired
    <3> QED BY <3>1, <3>2
  <2>2. [host EXCEPT !.config = wired] \in Hosts
    <3> HIDE DEF wired
    <3> QED BY <1>t, <2>1, SetPart
  <2>3. [host EXCEPT !.config[Len(host.config)].custom = Append(@, bin)]
            = [host EXCEPT !.config = wired]
    OBVIOUS
  <2>4. (IF dry THEN host
         ELSE [host EXCEPT !.config[Len(host.config)].custom = Append(@, bin)]) \in Hosts
    BY <1>t, <2>2, <2>3
  <2> QED BY <1>15, <1>d, <2>4 DEF AppendCustom, Places
<1>16. CASE Stop
  <2>1. stops' \in 0..MaxStops
    BY <1>16, <1>t, JacamarAssumption DEF Stop
  <2>2. host' \in Hosts
    BY <1>16, <1>t, SetPart DEF Stop, Sources
  <2> QED BY <1>16, <1>t, <2>1, <2>2 DEF Stop, TypeOK, Places
<1>17. ASSUME NEW i \in DOMAIN host.config, RemoveEntry(i)
       PROVE  TypeOK'
  <2> DEFINE c == SubSeq(host.config, 1, i - 1)
                      \o SubSeq(host.config, i + 1, Len(host.config))
  <2>1. c \in Seq(Runner)
    BY <1>p, Removal
  <2>2. host' = [host EXCEPT !.config = c]
    BY <1>17 DEF RemoveEntry
  <2>3. host' \in Hosts
    <3> HIDE DEF c
    <3> QED BY <1>t, <2>1, <2>2, SetPart
  <2> QED BY <1>17, <1>t, <2>3 DEF RemoveEntry, script, TypeOK
<1>18. CASE UNCHANGED vars
  BY <1>t, <1>18 DEF vars, TypeOK
<1> QED BY <1>1, <1>2, <1>3, <1>4, <1>5, <1>6, <1>7, <1>8, <1>9, <1>10, <1>11, <1>12,
           <1>13, <1>14, <1>15, <1>16, <1>17, <1>18 DEF Next

LEMMA TypeInit == Init => TypeOK
<1> SUFFICES ASSUME Init
             PROVE  TypeOK
  OBVIOUS
<1>1. PICK own \in BOOLEAN : host = Fresh(own)
  BY DEF Init
<1>2. Installed \in Binary /\ Absent \in Binary
  BY DEF Installed, Absent, Binary
<1>3. [b \in Binaries |-> IF b = "own" /\ own THEN Installed ELSE Absent]
          \in [Binaries -> Binary]
  BY <1>2
<1>4. NoFile \in Sudoers /\ NoFile \in Tomls /\ "none" \in Sources /\ <<>> \in Seq(Runner)
  BY DEF Sudoers, Tomls, Sources
<1>5. host \in Hosts
  BY <1>1, <1>3, <1>4 DEF Fresh, Hosts
<1>6. runs \in 0..MaxRuns /\ stops \in 0..MaxStops
  BY JacamarAssumption DEF Init
<1>7. pc \in Places /\ ans \in Answers /\ dry \in BOOLEAN /\ bin \in Binaries
  BY DEF Init, Places, Binaries
<1> QED BY <1>5, <1>6, <1>7 DEF TypeOK

\* Whatever is answered, stopped and run again, host and script stay well formed.
THEOREM TypeCorrect == Spec => []TypeOK
BY TypeInit, TypeStep, PTL DEF Spec

-----------------------------------------------------------------------------
\* A dry run only prints.
THEOREM DryRunsChangeNothing == Spec => DryRunChangesNothing
<1>1. [Next]_vars => [dry /\ pc # "idle" => host' = host]_vars
  <2> SUFFICES ASSUME Next, dry, pc # "idle"
               PROVE  host' = host
    BY DEF vars
  <2>1. ASSUME NEW from, NEW to, NEW h, Do(from, to, h)
        PROVE  host' = host
    BY <2>1 DEF Do, Run
  <2>2. CASE \/ InstallPackages \/ InstallRunner \/ Clone \/ Pull \/ Make \/ Setcap
             \/ Chown \/ Chmod \/ OpenSudoers \/ FillSudoers \/ Visudo \/ NoDownscope
             \/ OpenToml \/ FillToml \/ SkipRegistration \/ Register \/ AppendCustom
             \/ RestartService \/ Finish
    BY <2>1, <2>2
       DEF InstallPackages, InstallRunner, Clone, Pull, Make, Setcap, Chown, Chmod,
           OpenSudoers, FillSudoers, Visudo, NoDownscope, OpenToml, FillToml,
           SkipRegistration, Register, AppendCustom, RestartService, Finish, Die
  <2>3. CASE \/ \E a \in Answers, d \in BOOLEAN : Start(a, d)
             \/ UseExisting \/ NoExisting \/ Resolve \/ NothingBuilt \/ Stop
             \/ \E i \in DOMAIN host.config : RemoveEntry(i)
    BY <2>3 DEF Start, UseExisting, NoExisting, Resolve, NothingBuilt, Die, Stop, RemoveEntry
  <2> QED BY <2>2, <2>3 DEF Next
<1> QED BY <1>1, PTL DEF Spec, DryRunChangesNothing

-----------------------------------------------------------------------------
(* What a run that is not dry has achieved by the time it is at a place,   *)
(* whatever the host was like when it started.                             *)

BinaryFound ==
    {"downscope", "chown", "chmod", "sudoers", "visudo", "toml", "filltoml",
     "register", "append", "start", "done"}
Downscoped == {"toml", "filltoml", "register", "append", "start", "done"}

ModeInv ==
    /\ pc \in {"chown", "chmod"} => ans.mode = "setuid"
    /\ pc \in {"sudoers", "visudo"} => ans.mode = "sudo"

ProgressInv ==
    ~dry =>
      /\ pc \notin {"idle", "packages"} => host.packages
      /\ pc \notin {"idle", "packages", "runner"} => host.runner
      /\ pc \in BinaryFound => host.binaries[bin].present
      /\ pc = "visudo" => host.sudoers = Rule(bin, ans.usersValid)
      /\ pc \in Downscoped =>
             /\ ans.mode = "setuid" => host.binaries[bin].restricted
             /\ ans.mode = "sudo" => host.sudoers = Rule(bin, TRUE)
      /\ pc \in {"register", "append", "start", "done"} => host.toml = Toml(ans.mode)
      /\ pc \in {"append", "start", "done"} => HasEntry(host.config, ans.name)
      /\ pc = "done" => host.service

LEMMA ModeStep == ModeInv /\ [Next]_vars => ModeInv'
<1> SUFFICES ASSUME ModeInv, [Next]_vars
             PROVE  ModeInv'
  OBVIOUS
<1> USE DEF ModeInv
<1>1. CASE \/ InstallPackages \/ InstallRunner \/ Clone \/ Pull \/ Make \/ Setcap
           \/ Chown \/ Chmod \/ OpenSudoers \/ FillSudoers \/ Visudo \/ NoDownscope
           \/ OpenToml \/ FillToml \/ SkipRegistration \/ Register \/ AppendCustom
           \/ RestartService \/ Finish
  BY <1>1 DEF InstallPackages, InstallRunner, Clone, Pull, Make, Setcap, Chown, Chmod,
              OpenSudoers, FillSudoers, Visudo, NoDownscope, OpenToml, FillToml,
              SkipRegistration, Register, AppendCustom, RestartService, Finish,
              Do, Die, script
<1>2. CASE \/ \E a \in Answers, d \in BOOLEAN : Start(a, d)
           \/ UseExisting \/ NoExisting \/ Resolve \/ NothingBuilt \/ Stop
           \/ (\E i \in DOMAIN host.config : RemoveEntry(i)) \/ UNCHANGED vars
  BY <1>2 DEF Start, UseExisting, NoExisting, Resolve, NothingBuilt, Stop, RemoveEntry,
              Die, script, vars
<1> QED BY <1>1, <1>2 DEF Next

LEMMA ProgressStep == TypeOK /\ ModeInv /\ ProgressInv /\ [Next]_vars => ProgressInv'
<1> SUFFICES ASSUME TypeOK, ModeInv, ProgressInv, [Next]_vars, ~dry'
             PROVE  ProgressInv'
  BY DEF ProgressInv
<1>t. /\ host \in Hosts /\ pc \in Places /\ ans \in Answers /\ bin \in Binaries
  BY DEF TypeOK
<1>h. host.binaries \in [Binaries -> Binary] /\ host.config \in Seq(Runner)
  BY <1>t DEF Hosts
<1>m. ans.mode \in Modes
  BY <1>t DEF Answers
<1>i. ASSUME pc' \in {"idle", "packages"}
      PROVE  ProgressInv'
  BY <1>i DEF ProgressInv, BinaryFound, Downscoped
<1>s. ASSUME NEW from, NEW to, NEW h, Do(from, to, h)
      PROVE  /\ pc = from /\ pc' = to /\ ~dry /\ host' = h
             /\ UNCHANGED <<ans, dry, bin, runs, stops>>
  BY <1>s DEF Do, Run, script
<1> USE DEF ProgressInv, BinaryFound, Downscoped
<1>1. CASE \E a \in Answers, d \in BOOLEAN : Start(a, d)
  BY <1>1, <1>i DEF Start
<1>2. CASE NoExisting \/ NothingBuilt \/ Finish \/ Stop
  BY <1>2, <1>i DEF NoExisting, NothingBuilt, Die, Finish, Do, Stop
<1>3. CASE InstallPackages
  <2>1. host'.packages
    BY <1>3, <1>s, <1>t DEF InstallPackages, Hosts
  <2>9. pc = "packages" /\ pc' = "runner" /\ ~dry /\ UNCHANGED <<ans, dry, bin>>
    BY <1>3, <1>s DEF InstallPackages
  <2> QED BY <2>1, <2>9
<1>4. CASE InstallRunner
  <2>1. host'.packages = host.packages /\ host'.runner
    BY <1>4, <1>s, <1>t DEF InstallRunner, Hosts
  <2>9. pc = "runner" /\ pc' = "build" /\ ~dry /\ UNCHANGED <<ans, dry, bin>>
    BY <1>4, <1>s DEF InstallRunner
  <2> QED BY <2>1, <2>9
<1>5. CASE UseExisting
  BY <1>5 DEF UseExisting
<1>6. CASE Clone
  <2>1. host'.packages = host.packages /\ host'.runner = host.runner
    BY <1>6, <1>s, <1>t DEF Clone, Hosts
  <2>9. pc = "build" /\ pc' = "make" /\ ~dry /\ UNCHANGED <<ans, dry, bin>>
    BY <1>6, <1>s DEF Clone
  <2> QED BY <2>1, <2>9
<1>7. CASE Pull
  <2>1. CASE Do("build", "make", host)
    <3>1. pc = "build" /\ pc' = "make" /\ ~dry /\ UNCHANGED <<host, ans, dry, bin>>
      BY <2>1, <1>s
    <3> QED BY <3>1
  <2>2. CASE Die("build")
    BY <2>2, <1>i DEF Die
  <2> QED BY <1>7, <2>1, <2>2 DEF Pull
<1>8. CASE Make
  <2>1. PICK f : Do("make", "resolve", [host EXCEPT !.binaries = f])
    BY <1>8 DEF Make
  <2>2. host'.packages = host.packages /\ host'.runner = host.runner
    BY <2>1, <1>s, <1>t DEF Hosts
  <2>3. pc = "make" /\ pc' = "resolve" /\ ~dry /\ UNCHANGED <<ans, dry, bin>>
    BY <2>1, <1>s
  <2> QED BY <2>2, <2>3
<1>9. CASE Resolve
  <2>1. ~dry /\ host' = host /\ pc = "resolve" /\ pc' = "downscope"
    BY <1>9 DEF Resolve
  <2>2. host.binaries[bin'].present
    BY <1>9, <2>1 DEF Resolve, Built
  <2> QED BY <2>1, <2>2
<1>10. CASE Setcap
  <2>1. /\ host'.packages = host.packages /\ host'.runner = host.runner
        /\ host'.binaries[bin].present = host.binaries[bin].present
    BY <1>10, <1>s, <1>t, <1>h DEF Setcap, Hosts, Binary
  <2>9. pc = "downscope" /\ pc' = "chown" /\ ~dry /\ UNCHANGED <<ans, dry, bin>>
    BY <1>10, <1>s DEF Setcap
  <2> QED BY <2>1, <2>9
<1>11. CASE Chown
  <2>1. /\ host'.packages = host.packages /\ host'.runner = host.runner
        /\ host'.binaries[bin].present = host.binaries[bin].present
    BY <1>11, <1>s, <1>t, <1>h DEF Chown, Hosts, Binary
  <2>9. pc = "chown" /\ pc' = "chmod" /\ ~dry /\ UNCHANGED <<ans, dry, bin>>
    BY <1>11, <1>s DEF Chown
  <2> QED BY <2>1, <2>9
<1>12. CASE Chmod
  <2>1. /\ host'.packages = host.packages /\ host'.runner = host.runner
        /\ host'.binaries[bin].present = host.binaries[bin].present
        /\ host'.binaries[bin].restricted
    BY <1>12, <1>s, <1>t, <1>h DEF Chmod, Hosts, Binary
  <2>2. ans.mode = "setuid"
    BY <1>12, <1>s DEF Chmod, ModeInv
  <2>9. pc = "chmod" /\ pc' = "toml" /\ ~dry /\ UNCHANGED <<ans, dry, bin>>
    BY <1>12, <1>s DEF Chmod
  <2> QED BY <2>1, <2>2, <2>9
<1>13. CASE OpenSudoers
  <2>1. /\ host'.packages = host.packages /\ host'.runner = host.runner
        /\ host'.binaries = host.binaries
    BY <1>13, <1>s, <1>t DEF OpenSudoers, Hosts
  <2>9. pc = "downscope" /\ pc' = "sudoers" /\ ~dry /\ UNCHANGED <<ans, dry, bin>>
    BY <1>13, <1>s DEF OpenSudoers
  <2> QED BY <2>1, <2>9
<1>14. CASE FillSudoers
  <2>1. /\ host'.packages = host.packages /\ host'.runner = host.runner
        /\ host'.binaries = host.binaries
        /\ host'.sudoers = Rule(bin, ans.usersValid)
    BY <1>14, <1>s, <1>t DEF FillSudoers, Hosts
  <2>9. pc = "sudoers" /\ pc' = "visudo" /\ ~dry /\ UNCHANGED <<ans, dry, bin>>
    BY <1>14, <1>s DEF FillSudoers
  <2> QED BY <2>1, <2>9
<1>15. CASE Visudo
  <2>1. CASE ans.usersValid
    <3>1. ans.mode = "sudo" /\ ans.usersValid = TRUE
      <4>1. pc = "visudo" /\ ans.usersValid \in BOOLEAN
        BY <1>15, <1>t DEF Visudo, Do, Die, Answers
      <4> QED BY <4>1, <2>1 DEF ModeInv
    <3>2. pc = "visudo" /\ pc' = "toml" /\ ~dry /\ UNCHANGED <<host, ans, dry, bin>>
      BY <1>15, <1>s, <2>1 DEF Visudo
    <3> QED BY <3>1, <3>2
  <2>2. CASE ~ans.usersValid
    <3>1. ~dry
      BY <1>15 DEF Visudo, Do, Die, script
    <3> QED BY <1>15, <1>i, <2>2, <3>1 DEF Visudo, Die
  <2> QED BY <2>1, <2>2
<1>16. CASE NoDownscope
  <2>1. /\ pc = "downscope" /\ pc' = "toml" /\ ~dry /\ ans.mode = "none"
        /\ UNCHANGED <<host, ans, dry, bin>>
    BY <1>16, <1>s DEF NoDownscope
  <2> QED BY <2>1
<1>17. CASE OpenToml
  <2>1. /\ host'.packages = host.packages /\ host'.runner = host.runner
        /\ host'.binaries = host.binaries /\ host'.sudoers = host.sudoers
    BY <1>17, <1>s, <1>t DEF OpenToml, Hosts
  <2>9. pc = "toml" /\ pc' = "filltoml" /\ ~dry /\ UNCHANGED <<ans, dry, bin>>
    BY <1>17, <1>s DEF OpenToml
  <2> QED BY <2>1, <2>9
<1>18. CASE FillToml
  <2>1. /\ host'.packages = host.packages /\ host'.runner = host.runner
        /\ host'.binaries = host.binaries /\ host'.sudoers = host.sudoers
        /\ host'.toml = Toml(ans.mode)
    BY <1>18, <1>s, <1>t DEF FillToml, Hosts
  <2>9. pc = "filltoml" /\ pc' = "register" /\ ~dry /\ UNCHANGED <<ans, dry, bin>>
    BY <1>18, <1>s DEF FillToml
  <2> QED BY <2>1, <2>9
<1>19. CASE SkipRegistration
  <2>1. /\ pc = "register" /\ pc' = "start" /\ ~dry /\ HasEntry(host.config, ans.name)
        /\ UNCHANGED <<host, ans, dry, bin>>
    BY <1>19, <1>s DEF SkipRegistration
  <2> QED BY <2>1
<1>20. CASE Register
  <2>1. /\ host'.packages = host.packages /\ host'.runner = host.runner
        /\ host'.binaries = host.binaries /\ host'.sudoers = host.sudoers
        /\ host'.toml = host.toml
        /\ host'.config = Append(host.config, Entry(ans.name))
    BY <1>20, <1>s, <1>t DEF Register, Hosts
  <2>2. HasEntry(host'.config, ans.name)
    <3>1. Entry(ans.name) \in Runner /\ Entry(ans.name).name = ans.name
      BY <1>t DEF Entry, Runner, Answers
    <3>2. /\ host'.config[Len(host.config) + 1] = Entry(ans.name)
          /\ host'.config \in Seq(Runner) /\ Len(host'.config) = Len(host.config) + 1
      BY <1>h, <2>1, <3>1, AppendProperties
    <3>3. Len(host.config) + 1 \in DOMAIN host'.config
      <4>1. Len(host.config) \in Nat /\ DOMAIN host'.config = 1..Len(host'.config)
        BY <1>h, <3>2, LenProperties
      <4> QED BY <3>2, <4>1
    <3> QED BY <3>1, <3>2, <3>3 DEF HasEntry
  <2>9. pc = "register" /\ pc' = "append" /\ ~dry /\ UNCHANGED <<ans, dry, bin>>
    BY <1>20, <1>s DEF Register
  <2> QED BY <2>1, <2>2, <2>9
<1>21. CASE AppendCustom
  <2> DEFINE c == host.config
             wired == [c EXCEPT ![Len(c)].custom = Append(@, bin)]
  <2>1. pc = "append" /\ pc' = "start" /\ ~dry /\ UNCHANGED <<ans, dry, bin>>
    BY <1>21, <1>s DEF AppendCustom
  <2>2. host' = [host EXCEPT !.config = wired]
    BY <1>21, <1>s, <2>1 DEF AppendCustom
  <2>3. /\ host'.packages = host.packages /\ host'.runner = host.runner
        /\ host'.binaries = host.binaries /\ host'.sudoers = host.sudoers
        /\ host'.toml = host.toml /\ host'.config = wired
    <3> HIDE DEF wired
    <3> QED BY <1>t, <2>2 DEF Hosts
  <2>4. HasEntry(host'.config, ans.name)
    <3>1. c \in [1..Len(c) -> Runner]
      BY <1>h, LenProperties
    <3>2. PICK i \in DOMAIN c : c[i].name = ans.name
      BY <2>1 DEF HasEntry
    <3>3. i \in DOMAIN wired /\ wired[i].name = c[i].name
      <4>1. c[i] \in Runner
        BY <3>1, <3>2
      <4> QED BY <3>1, <3>2, <4>1 DEF Runner
    <3> QED BY <2>1, <2>3, <3>2, <3>3 DEF HasEntry
  <2> QED BY <2>1, <2>3, <2>4
<1>22. CASE RestartService
  <2>1. /\ host'.packages = host.packages /\ host'.runner = host.runner
        /\ host'.binaries = host.binaries /\ host'.sudoers = host.sudoers
        /\ host'.toml = host.toml /\ host'.config = host.config /\ host'.service
    BY <1>22, <1>s, <1>t DEF RestartService, Hosts
  <2>9. pc = "start" /\ pc' = "done" /\ ~dry /\ UNCHANGED <<ans, dry, bin>>
    BY <1>22, <1>s DEF RestartService
  <2> QED BY <2>1, <2>9
<1>23. CASE \E i \in DOMAIN host.config : RemoveEntry(i)
  BY <1>23, <1>i DEF RemoveEntry
<1>24. CASE UNCHANGED vars
  BY <1>24 DEF vars
<1> QED BY <1>1, <1>2, <1>3, <1>4, <1>5, <1>6, <1>7, <1>8, <1>9, <1>10, <1>11, <1>12,
           <1>13, <1>14, <1>15, <1>16, <1>17, <1>18, <1>19, <1>20, <1>21, <1>22, <1>23,
           <1>24 DEF Next

\* A run that reaches its end has configured what its answers ask for, whatever
\* earlier runs, stopped at any command, and the administrator left behind.
THEOREM FinishedConfigured == Spec => []FinishedIsConfigured
<1>1. Init => ModeInv /\ ProgressInv
  BY DEF Init, ModeInv, ProgressInv, BinaryFound, Downscoped
<1>2. ProgressInv => FinishedIsConfigured
  BY DEF ProgressInv, FinishedIsConfigured, BinaryFound, Downscoped
<1> QED BY <1>1, <1>2, TypeInit, TypeStep, ModeStep, ProgressStep, PTL DEF Spec

-----------------------------------------------------------------------------
(* config.toml.  An entry without a table is the one the run under way is  *)
(* about to wire, unless a run was stopped there.                          *)

BeingWired(i) == pc = "append" /\ ~dry /\ i = Len(host.config)

ConfigInv ==
    /\ ConfigStaysReadable
    /\ \A i \in DOMAIN host.config : LET c == host.config[i].custom IN
        /\ c = <<>> => stops > 0 \/ BeingWired(i)
        /\ \A k \in DOMAIN c : host.binaries[c[k]].present
    /\ pc = "append" /\ ~dry =>
        /\ host.config # <<>>
        /\ host.config[Len(host.config)].custom = <<>>

ConfigActions ==
    Register \/ AppendCustom \/ \E i \in DOMAIN host.config : RemoveEntry(i)

\* Nothing else touches config.toml, a binary once installed is only replaced,
\* and stops are not forgotten; nor does anything else lead to the wiring, or
\* from it but by being stopped.
LEMMA ConfigKept ==
    ASSUME TypeOK, [Next]_vars, ~ConfigActions
    PROVE  /\ host'.config = host.config
           /\ \A b \in Binaries : host.binaries[b].present => host'.binaries[b].present
           /\ stops \in Nat /\ stops' \in Nat /\ stops' >= stops
           /\ pc' = "append" /\ ~dry' => pc = "append" /\ ~dry
           /\ pc = "append" /\ ~dry => (pc' = "append" /\ ~dry') \/ stops' > 0
<1>t. /\ host \in Hosts /\ bin \in Binaries /\ stops \in Nat
  BY DEF TypeOK
<1>h. host.binaries \in [Binaries -> Binary]
  BY <1>t DEF Hosts
<1> DEFINE Kept(h) == /\ h.config = host.config
                      /\ \A b \in Binaries :
                             host.binaries[b].present => h.binaries[b].present
<1>k. Kept(host)
  OBVIOUS
<1>d. ASSUME NEW from, NEW to, NEW h, Do(from, to, h), Kept(h),
             from # "append", to # "append"
      PROVE  /\ Kept(host') /\ stops' = stops
             /\ pc # "append" /\ pc' # "append"
  BY <1>d DEF Do, Run, script
<1>e. ASSUME NEW from, Die(from), from # "append"
      PROVE  Kept(host') /\ stops' = stops /\ pc # "append" /\ pc' # "append"
  BY <1>e DEF Die, script
<1>2. /\ Kept([host EXCEPT !.packages = TRUE])
      /\ Kept([host EXCEPT !.runner = TRUE])
      /\ Kept([host EXCEPT !.service = TRUE])
      /\ Kept([host EXCEPT !.source = "cloned"])
      /\ Kept([host EXCEPT !.source = "partial"])
      /\ \A x : Kept([host EXCEPT !.sudoers = x])
      /\ \A x : Kept([host EXCEPT !.toml = x])
  BY <1>t DEF Hosts
<1>3. /\ Kept([host EXCEPT !.binaries[bin].capable = TRUE])
      /\ Kept([host EXCEPT !.binaries[bin].capable = FALSE])
      /\ Kept([host EXCEPT !.binaries[bin].restricted = TRUE])
  BY <1>t, <1>h DEF Hosts, Binary
<1>4. ASSUME NEW made \in SUBSET Built
      PROVE  Kept([host EXCEPT !.binaries = [b \in Binaries |->
                       IF b \in made THEN Installed ELSE host.binaries[b]]])
  <2>1. Installed.present
    BY DEF Installed, Absent
  <2> DEFINE f == [b \in Binaries |-> IF b \in made THEN Installed ELSE host.binaries[b]]
  <2>2. \A b \in Binaries : host.binaries[b].present => f[b].present
    BY <2>1
  <2> HIDE DEF f
  <2>3. Kept([host EXCEPT !.binaries = f])
    BY <1>t, <2>2 DEF Hosts
  <2> QED BY <2>3 DEF f
<1> HIDE DEF Kept
<1> SUFFICES \/ Kept(host') /\ stops' = stops /\ pc # "append" /\ pc' # "append"
             \/ Kept(host') /\ stops' \in Nat /\ stops' > stops /\ pc' # "append"
             \/ UNCHANGED vars
  BY <1>t, <1>k DEF Kept, vars
<1>5. CASE \E a \in Answers, d \in BOOLEAN : Start(a, d)
  BY <1>5, <1>k DEF Start
<1>6. CASE UseExisting \/ Resolve
  BY <1>6, <1>k DEF UseExisting, Resolve
<1>7. CASE NoExisting \/ NothingBuilt
  BY <1>7, <1>e DEF NoExisting, NothingBuilt
<1>8. CASE InstallPackages \/ InstallRunner \/ Clone \/ RestartService \/ Finish
  BY <1>8, <1>d, <1>k, <1>2
     DEF InstallPackages, InstallRunner, Clone, RestartService, Finish
<1>9. CASE Pull \/ Visudo \/ NoDownscope
  BY <1>9, <1>d, <1>e, <1>k DEF Pull, Visudo, NoDownscope
<1>10. CASE Make
  <2>1. PICK made \in SUBSET Built :
          Do("make", "resolve",
             [host EXCEPT !.binaries = [b \in Binaries |->
                  IF b \in made THEN Installed ELSE host.binaries[b]]])
    BY <1>10 DEF Make
  <2> QED BY <2>1, <1>4, <1>d
<1>11. CASE Setcap \/ Chown \/ Chmod
  BY <1>11, <1>d, <1>3 DEF Setcap, Chown, Chmod
<1>12. CASE OpenSudoers \/ FillSudoers \/ OpenToml \/ FillToml
  BY <1>12, <1>d, <1>2 DEF OpenSudoers, FillSudoers, OpenToml, FillToml
<1>13. CASE SkipRegistration
  <2>1. Do("register", "start", host)
    BY <1>13 DEF SkipRegistration
  <2> QED BY <2>1, <1>d, <1>k
<1>14. CASE Stop
  <2>1. pc' = "idle" /\ stops' = stops + 1
    BY <1>14 DEF Stop
  <2>2. Kept(host')
    BY <1>14, <1>k, <1>2 DEF Stop
  <2> QED BY <2>1, <2>2, <1>t
<1> QED BY <1>5, <1>6, <1>7, <1>8, <1>9, <1>10, <1>11, <1>12, <1>13, <1>14
        DEF Next, ConfigActions

LEMMA ConfigStep ==
    TypeOK /\ ProgressInv /\ ConfigInv /\ [Next]_vars => ConfigInv'
<1> SUFFICES ASSUME TypeOK, ProgressInv, ConfigInv, [Next]_vars
             PROVE  ConfigInv'
  OBVIOUS
<1> DEFINE c == host.config
<1>t. host \in Hosts /\ bin \in Binaries /\ ans \in Answers /\ stops \in Nat
  BY DEF TypeOK
<1>c. /\ c \in Seq(Runner) /\ Len(c) \in Nat /\ DOMAIN c = 1..Len(c)
      /\ \A i \in DOMAIN c : c[i] \in Runner /\ c[i].custom \in Seq(Binaries)
  <2>1. c \in Seq(Runner)
    BY <1>t DEF Hosts
  <2>2. Len(c) \in Nat /\ c \in [1..Len(c) -> Runner] /\ DOMAIN c = 1..Len(c)
    BY <2>1, LenProperties
  <2> QED BY <2>1, <2>2 DEF Runner
<1>r. \A i, j \in DOMAIN c : /\ c[i].name = c[j].name => i = j
                             /\ Len(c[i].custom) <= 1
  BY DEF ConfigInv, ConfigStaysReadable
<1>w. \A i \in DOMAIN c :
        /\ c[i].custom = <<>> => stops > 0 \/ BeingWired(i)
        /\ \A k \in DOMAIN c[i].custom : host.binaries[c[i].custom[k]].present
  BY DEF ConfigInv
<1>1. CASE ~ConfigActions
  <2>1. /\ host'.config = host.config
        /\ \A b \in Binaries : host.binaries[b].present => host'.binaries[b].present
        /\ stops \in Nat /\ stops' \in Nat /\ stops' >= stops
        /\ pc' = "append" /\ ~dry' => pc = "append" /\ ~dry
        /\ pc = "append" /\ ~dry => (pc' = "append" /\ ~dry') \/ stops' > 0
    BY <1>1, ConfigKept
  <2>2. ConfigStaysReadable'
    BY <2>1 DEF ConfigInv, ConfigStaysReadable
  <2>3. ASSUME NEW i \in DOMAIN c
        PROVE  /\ c[i].custom = <<>> => stops' > 0 \/ BeingWired(i)'
               /\ \A k \in DOMAIN c[i].custom : host'.binaries[c[i].custom[k]].present
    <3>1. c[i].custom = <<>> => stops' > 0 \/ BeingWired(i)'
      BY <1>w, <2>1 DEF BeingWired
    <3>2. \A k \in DOMAIN c[i].custom : c[i].custom[k] \in Binaries
      BY <1>c
    <3> QED BY <1>w, <2>1, <3>1, <3>2
  <2>4. (pc = "append" /\ ~dry =>
            /\ host.config # <<>>
            /\ host.config[Len(host.config)].custom = <<>>)'
    BY <2>1 DEF ConfigInv
  <2> QED BY <2>1, <2>2, <2>3, <2>4 DEF ConfigInv
<1>2. CASE (Register \/ AppendCustom) /\ dry
  <2>1. host' = host /\ dry' /\ stops' = stops /\ pc \in {"register", "append"}
    BY <1>2 DEF Register, AppendCustom, Do, Run, script
  <2>2. \A i \in DOMAIN c : ~BeingWired(i)
    BY <1>2 DEF BeingWired
  <2> QED BY <1>r, <1>w, <2>1, <2>2 DEF ConfigInv, ConfigStaysReadable
<1>3. CASE Register /\ ~dry
  <2> DEFINE e == Entry(ans.name)
             d == Append(c, e)
  <2>1. /\ pc = "register" /\ pc' = "append" /\ ~dry' /\ stops' = stops
        /\ ~HasEntry(c, ans.name)
        /\ host' = [host EXCEPT !.config = Append(c, Entry(ans.name))]
    BY <1>3 DEF Register, Do, Run, script
  <2>2. host'.config = d /\ host'.binaries = host.binaries
    <3> HIDE DEF d
    <3>1. host' = [host EXCEPT !.config = d]
      BY <2>1 DEF d
    <3> QED BY <1>t, <3>1 DEF Hosts
  <2>3. e \in Runner /\ e.name = ans.name /\ e.custom = <<>>
    BY <1>t DEF Entry, Runner, Answers
  <2> HIDE DEF e
  <2>4. /\ d \in Seq(Runner) /\ Len(d) = Len(c) + 1 /\ d[Len(c) + 1] = e
        /\ \A i \in 1..Len(c) : d[i] = c[i]
    BY <1>c, <2>3, AppendProperties
  <2>5. DOMAIN d = 1..(Len(c) + 1) /\ d # <<>>
    BY <1>c, <2>3, <2>4, LenProperties, AppendProperties
  <2> HIDE DEF d
  <2>6. \A i \in 1..Len(c) : c[i].name # ans.name
    BY <1>c, <2>1 DEF HasEntry
  <2>7. ConfigStaysReadable'
    <3>1. ASSUME NEW i \in DOMAIN d, NEW j \in DOMAIN d
          PROVE  /\ d[i].name = d[j].name => i = j
                 /\ Len(d[i].custom) <= 1
      <4>1. \A n \in DOMAIN d : n \in 1..Len(c) \/ (n = Len(c) + 1 /\ d[n] = e)
        BY <1>c, <2>4, <2>5
      <4>2. Len(e.custom) <= 1
        BY <2>3
      <4> QED BY <1>c, <1>r, <2>3, <2>4, <2>6, <3>1, <4>1, <4>2
    <3> QED BY <2>2, <3>1 DEF ConfigStaysReadable
  <2>8. ASSUME NEW i \in DOMAIN d
        PROVE  /\ d[i].custom = <<>> => stops' > 0 \/ BeingWired(i)'
               /\ \A k \in DOMAIN d[i].custom : host'.binaries[d[i].custom[k]].present
    <3>1. CASE i \in 1..Len(c)
      <4>1. ~BeingWired(i)
        BY <2>1 DEF BeingWired
      <4> QED BY <1>c, <1>w, <2>1, <2>2, <2>4, <3>1, <4>1
    <3>2. CASE i = Len(c) + 1
      <4>1. BeingWired(i)'
        BY <2>1, <2>2, <2>4, <3>2 DEF BeingWired
      <4>2. d[i].custom = <<>>
        BY <2>3, <2>4, <3>2
      <4> QED BY <4>1, <4>2
    <3> QED BY <1>c, <2>5, <2>8, <3>1, <3>2
  <2>9. host'.config # <<>> /\ host'.config[Len(host'.config)].custom = <<>>
    BY <2>2, <2>3, <2>4, <2>5
  <2> QED BY <2>2, <2>7, <2>8, <2>9 DEF ConfigInv
<1>4. CASE AppendCustom /\ ~dry
  <2> DEFINE n == Len(c)
             d == [c EXCEPT ![n].custom = Append(@, bin)]
  <2>1. /\ pc = "append" /\ pc' = "start" /\ stops' = stops
        /\ host' = [host EXCEPT !.config = d]
    BY <1>4 DEF AppendCustom, Do, Run, script
  <2>2. c # <<>> /\ c[n].custom = <<>>
    BY <1>4, <2>1 DEF ConfigInv
  <2>3. host.binaries[bin].present
    BY <1>4, <2>1 DEF ProgressInv, BinaryFound
  <2>4. n \in DOMAIN c
    <3>1. n # 0
      BY <1>c, <2>2, EmptySeq
    <3> QED BY <1>c, <3>1
  <2>5. /\ DOMAIN d = DOMAIN c /\ \A i \in DOMAIN c : d[i].name = c[i].name
        /\ \A i \in DOMAIN c : i # n => d[i] = c[i]
        /\ d[n].custom = <<bin>>
    <3>1. d = [c EXCEPT ![n] = [c[n] EXCEPT !.custom = <<bin>>]]
      <4>1. Append(c[n].custom, bin) = <<bin>>
        BY <2>2
      <4> QED BY <4>1
    <3> HIDE DEF d, n
    <3>2. \A i \in DOMAIN c : c[i] \in [name : Names, custom : Seq(Binaries)]
      BY <1>c DEF Runner
    <3>3. DOMAIN c = 1..Len(c) /\ c \in Seq(Runner)
      BY <1>c
    <3>4. [c[n] EXCEPT !.custom = <<bin>>].custom = <<bin>>
          /\ [c[n] EXCEPT !.custom = <<bin>>].name = c[n].name
      BY <2>4, <3>2
    <3> QED BY <2>4, <3>1, <3>3, <3>4
  <2>6. host'.config = d /\ host'.binaries = host.binaries
    <3> HIDE DEF d
    <3> QED BY <1>t, <2>1 DEF Hosts
  <2> HIDE DEF d
  <2>7. \A i \in DOMAIN c : i # n => ~BeingWired(i)
    BY DEF BeingWired
  <2>8. Len(<<bin>>) = 1 /\ DOMAIN <<bin>> = {1} /\ <<bin>>[1] = bin /\ <<bin>> # <<>>
    OBVIOUS
  <2> HIDE DEF n
  <2>9. ConfigStaysReadable'
    <3>1. ASSUME NEW i \in DOMAIN d, NEW j \in DOMAIN d
          PROVE  /\ d[i].name = d[j].name => i = j
                 /\ Len(d[i].custom) <= 1
      <4>1. d[i].name = d[j].name => i = j
        BY <1>r, <2>5, <3>1
      <4>2. CASE i = n
        <5>1. d[i].custom = <<bin>>
          BY <2>5, <4>2
        <5>2. Len(d[i].custom) = 1
          BY <5>1
        <5> QED BY <4>1, <5>2
      <4>3. CASE i # n
        BY <1>r, <2>5, <4>1, <4>3
      <4> QED BY <4>2, <4>3
    <3> QED BY <2>6, <3>1 DEF ConfigStaysReadable
  <2>10. ASSUME NEW i \in DOMAIN d
         PROVE  /\ d[i].custom = <<>> => stops' > 0 \/ BeingWired(i)'
                /\ \A k \in DOMAIN d[i].custom : host'.binaries[d[i].custom[k]].present
    <3>1. CASE i = n
      <4>1. d[i].custom = <<bin>>
        BY <2>5, <3>1
      <4>2. \A k \in DOMAIN <<bin>> : host'.binaries[<<bin>>[k]].present
        BY <2>3, <2>6
      <4> QED BY <2>8, <4>1, <4>2
    <3>2. CASE i # n
      BY <1>w, <2>1, <2>5, <2>6, <2>7, <3>2
    <3> QED BY <3>1, <3>2
  <2> QED BY <2>1, <2>6, <2>9, <2>10 DEF ConfigInv
<1>5. ASSUME NEW i \in DOMAIN host.config, RemoveEntry(i)
      PROVE  ConfigInv'
  <2> DEFINE d == SubSeq(c, 1, i - 1) \o SubSeq(c, i + 1, Len(c))
             Was(k) == IF k < i THEN k ELSE k + 1
  <2>1. /\ d \in Seq(Runner) /\ Len(d) = Len(c) - 1
        /\ \A k \in DOMAIN d : d[k] = c[Was(k)]
    BY <1>c, Removal
  <2>2. pc = "idle" /\ pc' = "idle" /\ stops' = stops /\ host' = [host EXCEPT !.config = d]
    BY <1>5 DEF RemoveEntry, script
  <2> HIDE DEF d
  <2>3. host'.config = d /\ host'.binaries = host.binaries
    BY <1>t, <2>2 DEF Hosts
  <2>4. DOMAIN d = 1..(Len(c) - 1)
    BY <2>1, LenProperties
  <2>5. \A k \in DOMAIN d : Was(k) \in DOMAIN c
    BY <1>c, <2>4
  <2>6. \A k, l \in DOMAIN d : Was(k) = Was(l) => k = l
    BY <1>c, <2>4
  <2> HIDE DEF Was
  <2>7. ConfigStaysReadable'
    BY <1>r, <2>1, <2>3, <2>5, <2>6 DEF ConfigStaysReadable
  <2>8. \A k \in DOMAIN c : ~BeingWired(k)
    BY <2>2 DEF BeingWired
  <2>9. ASSUME NEW k \in DOMAIN d
        PROVE  /\ d[k].custom = <<>> => stops' > 0 \/ BeingWired(k)'
               /\ \A m \in DOMAIN d[k].custom : host'.binaries[d[k].custom[m]].present
    BY <1>w, <2>1, <2>2, <2>3, <2>5, <2>8
  <2> QED BY <2>2, <2>3, <2>7, <2>9 DEF ConfigInv
<1> QED BY <1>1, <1>2, <1>3, <1>4, <1>5 DEF ConfigActions

LEMMA ConfigInit == Init => ConfigInv
<1> SUFFICES ASSUME Init
             PROVE  ConfigInv
  OBVIOUS
<1>1. PICK own \in BOOLEAN : host = Fresh(own)
  BY DEF Init
<1>2. host.config = <<>> /\ pc = "idle"
  BY <1>1 DEF Fresh, Init
<1> QED BY <1>2 DEF ConfigInv, ConfigStaysReadable

\* Over any number of runs, stopped anywhere, for any names, no runner is
\* registered twice and none has two tables.
THEOREM ConfigReadable == Spec => []ConfigStaysReadable
<1>1. ConfigInv => ConfigStaysReadable
  BY DEF ConfigInv
<1>2. Init => ModeInv /\ ProgressInv
  BY DEF Init, ModeInv, ProgressInv, BinaryFound, Downscoped
<1> QED BY <1>1, <1>2, TypeInit, TypeStep, ModeStep, ProgressStep, ConfigInit, ConfigStep,
           PTL DEF Spec

\* Unless a run was stopped, every runner registered is wired to a binary that
\* is there.
THEOREM RunnersWired == Spec => []WiredUnlessCut
<1>1. ConfigInv => WiredUnlessCut
  BY DEF ConfigInv, WiredUnlessCut, BeingWired
<1>2. Init => ModeInv /\ ProgressInv
  BY DEF Init, ModeInv, ProgressInv, BinaryFound, Downscoped
<1> QED BY <1>1, <1>2, TypeInit, TypeStep, ModeStep, ProgressStep, ConfigInit, ConfigStep,
           PTL DEF Spec

=============================================================================
