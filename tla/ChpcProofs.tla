----------------------------- MODULE ChpcProofs -----------------------------
(***************************************************************************)
(* Proofs about Chpc, for every set of checks, contents of checks.conf,    *)
(* threshold, backend and number of disruptions.                           *)
(***************************************************************************)
EXTENDS Chpc, TLAPS

\* Where the pieces of the state that a step moves have to end up.
LEMMA BumpType ==
    ASSUME NEW c \in 0..MaxCount
    PROVE  Bump(c) \in 1..MaxCount /\ (Bump(c) = c + 1 \/ Bump(c) = c)
BY MaxCountAssumption DEF Bump

\* The next line of a file is a line of it, or the cycle is over.
LEMMA StartLineType ==
    ASSUME NEW file \in ChecksFiles \cup {<<>>}, NEW i \in Nat \ {0},
           StartLine(file, i)
    PROVE  /\ pc' \in {"idle", "check"}
           /\ specs' \in ChecksFiles \cup {<<>>}
           /\ pos' \in Nat
           /\ pc' = "check" => pos' \in 1..Len(specs')
           /\ count' = 0
<1>1. CASE i <= Len(file)
  <2>1. pc' = "check" /\ specs' = file /\ pos' = i /\ count' = 0
    BY <1>1 DEF StartLine
  <2>2. file \in Seq(Lines)
    <3>1. <<>> \in Seq(Lines)
      OBVIOUS
    <3> QED BY <3>1, CycleAssumption
  <2>3. Len(file) \in Nat
    BY <2>2
  <2> QED BY <1>1, <2>1, <2>3
<1>2. CASE ~(i <= Len(file))
  BY <1>2 DEF StartLine, EndCycle
<1> QED BY <1>1, <1>2

\* What StartLineType says, of the line after the one being evaluated.
LEMMA NextLineType ==
    ASSUME TypeOK, pc \in AtLine, NextLine
    PROVE  /\ pc' \in {"idle", "check"}
           /\ specs' \in ChecksFiles \cup {<<>>}
           /\ pos' \in Nat
           /\ pc' = "check" => pos' \in 1..Len(specs')
           /\ count' = 0
<1>1. specs \in ChecksFiles \cup {<<>>} /\ pos + 1 \in Nat \ {0}
  BY DEF TypeOK, CycleTypeOK
<1> QED BY <1>1, StartLineType DEF NextLine

-----------------------------------------------------------------------------
\* The part of the types that is about the daemon's place in its cycle.
PlaceOK ==
    /\ pc \in PCs
    /\ specs \in ChecksFiles \cup {<<>>}
    /\ pos \in Nat
    /\ pc \in AtLine => pos \in 1..Len(specs)
    /\ pc \in AfterCheck => specs[pos] \in Keys
    /\ count \in 0..MaxCount

\* A step to the next line keeps the daemon's place in order.
LEMMA NextLinePlace ==
    ASSUME TypeOK, pc \in AtLine, NextLine
    PROVE  PlaceOK'
<1>1. pc' \notin AfterCheck
  BY NextLineType DEF AtLine, AfterCheck
<1>2. pc' \in PCs /\ (pc' \in AtLine => pc' = "check")
  BY NextLineType DEF PCs, AtLine
<1>3. 0 \in 0..MaxCount
  BY MaxCountAssumption
<1> QED BY <1>1, <1>2, <1>3, NextLineType DEF PlaceOK

\* So does a step along the handling of one line.
LEMMA GotoPlace ==
    ASSUME TypeOK, NEW from, NEW to, Goto(from, to), to \in PCs,
           to \in AtLine => from \in AtLine,
           to \in AfterCheck => from \in AfterCheck
    PROVE  PlaceOK'
BY DEF Goto, PlaceOK, TypeOK, CycleTypeOK

\* And so does ending the cycle.
LEMMA EndCyclePlace == EndCycle => PlaceOK'
<1>1. 0 \in 0..MaxCount
  BY MaxCountAssumption
<1> QED BY <1>1 DEF EndCycle, PlaceOK, PCs, AtLine, AfterCheck

\* A drain or resume command leaves a node.
LEMMA NodeSteps ==
    ASSUME NodeTypeOK, NEW who \in Keys \cup {Human}, NEW outcome,
           DrainNode(who, outcome) \/ ResumeNode(who, outcome)
    PROVE  NodeTypeOK'
<1>1. \/ node' = [up |-> FALSE, by |-> who]
      \/ node' = [up |-> TRUE, by |-> who]
      \/ node' = node
  BY Zenon DEF DrainNode, ResumeNode
<1>2. [up |-> FALSE, by |-> who] \in [up : BOOLEAN, by : Keys \cup {Human}]
  OBVIOUS
<1>3. [up |-> TRUE, by |-> who] \in [up : BOOLEAN, by : Keys \cup {Human}]
  OBVIOUS
<1> QED BY <1>1, <1>2, <1>3 DEF NodeTypeOK

\* Clearing and booking drains keep the tables' types.
LEMMA StateSteps ==
    ASSUME StateTypeOK, NEW k \in Keys,
           MarkDrained(k) \/ ClearDrained(k) \/ ClearAllDrained
    PROVE  StateTypeOK'
BY MaxCountAssumption DEF StateTypeOK, MarkDrained, ClearDrained, ClearAllDrained

-----------------------------------------------------------------------------
\* Every step of the daemon preserves the types.
LEMMA CycleStepType == TypeOK /\ CycleStep /\ UNCHANGED <<cliVars, disruptions>> => TypeOK'
<1> SUFFICES ASSUME TypeOK, CycleStep, UNCHANGED <<cliVars, disruptions>>
             PROVE  TypeOK'
  OBVIOUS
<1> USE DEF cliVars
<1>t. /\ NodeTypeOK /\ StateTypeOK /\ PlaceOK
      /\ evidence \in [Keys -> 0..MaxCount]
  BY DEF TypeOK, CycleTypeOK, PlaceOK
<1>q. ASSUME NodeTypeOK', StateTypeOK', PlaceOK', (evidence \in [Keys -> 0..MaxCount])'
      PROVE  TypeOK'
  BY <1>q DEF TypeOK, CycleTypeOK, PlaceOK
<1>u. ASSUME PlaceOK', UNCHANGED <<node, fails, active, evidence>>
      PROVE  TypeOK'
  BY <1>q, <1>t, <1>u DEF NodeTypeOK, StateTypeOK
<1>1. CASE AskResourceManager
  BY <1>1, <1>u, GotoPlace DEF AskResourceManager, Ask, PCs, AtLine, AfterCheck
<1>2. CASE ReadActiveDrains
  BY <1>2, <1>u, GotoPlace DEF ReadActiveDrains, PCs, AtLine, AfterCheck
<1>3. CASE Reconcile
  <2>1. PlaceOK'
    BY <1>3, GotoPlace DEF Reconcile, PCs, AtLine, AfterCheck
  <2>2. StateTypeOK'
    BY <1>3, <1>t, MaxCountAssumption DEF Reconcile, ClearAllDrained, StateTypeOK
  <2> QED BY <1>3, <1>q, <1>t, <2>1, <2>2 DEF Reconcile, NodeTypeOK
<1>4. CASE LoadSpecs
  <2>1. CASE EndCycle
    BY <1>4, <1>u, <2>1, EndCyclePlace DEF LoadSpecs, Load
  <2>2. CASE \E file \in ChecksFiles : StartLine(file, 1)
    <3>1. /\ pc' \in {"idle", "check"}
          /\ specs' \in ChecksFiles \cup {<<>>}
          /\ pos' \in Nat
          /\ pc' = "check" => pos' \in 1..Len(specs')
          /\ count' = 0
      BY <2>2, StartLineType
    <3>2. 0 \in 0..MaxCount
      BY MaxCountAssumption
    <3>3. PlaceOK'
      BY <3>1, <3>2 DEF PlaceOK, PCs, AtLine, AfterCheck
    <3> QED BY <1>4, <1>u, <3>3 DEF LoadSpecs, Load
  <2> QED BY <1>4, <2>1, <2>2 DEF LoadSpecs, Load
<1>5. CASE SkipUnknownCheck
  BY <1>5, <1>u, NextLinePlace DEF SkipUnknownCheck, AtLine
<1>6. CASE RunCheck
  <2>1. Key \in Keys /\ pc = "check" /\ pc' = "record"
    BY <1>6 DEF RunCheck
  <2>2. count' \in 0..MaxCount
    <3>1. fails[Key] \in 0..MaxCount
      BY <1>t, <2>1 DEF StateTypeOK
    <3>2. \A ok \in BOOLEAN : NextCount(Key, ok) \in 0..MaxCount
      BY <3>1, BumpType, MaxCountAssumption DEF NextCount
    <3> QED BY <1>6, <3>2 DEF RunCheck
  <2>3. PlaceOK'
    BY <1>6, <1>t, <2>1, <2>2 DEF RunCheck, PlaceOK, PCs, AtLine, AfterCheck, Key
  <2> QED BY <1>6, <1>u, <2>3 DEF RunCheck
<1>7. CASE RecordResult
  <2>1. PlaceOK'
    BY <1>7, GotoPlace DEF RecordResult, PCs, AtLine, AfterCheck
  <2>2. Key \in Keys /\ count \in 0..MaxCount
    BY <1>7, <1>t DEF RecordResult, Goto, PlaceOK, AfterCheck, AtLine, Key
  <2>3. StateTypeOK'
    BY <1>7, <1>t, <2>2 DEF RecordResult, StoreResult, StateTypeOK
  <2>4. (evidence \in [Keys -> 0..MaxCount])'
    <3>1. evidence[Key] \in 0..MaxCount /\ Bump(evidence[Key]) \in 0..MaxCount
          /\ 0 \in 0..MaxCount
      BY <1>t, <2>2, BumpType, MaxCountAssumption
    <3> QED BY <1>7, <1>t, <3>1 DEF RecordResult
  <2> QED BY <1>7, <1>q, <1>t, <2>1, <2>3, <2>4 DEF RecordResult, NodeTypeOK
<1>8. CASE DecideResume
  BY <1>8, <1>u, GotoPlace DEF DecideResume, PCs, AtLine, AfterCheck
<1>9. CASE DecideDrain
  BY <1>9, <1>u, GotoPlace DEF DecideDrain, PCs, AtLine, AfterCheck
<1>10. CASE DecideNothing
  BY <1>10, <1>u, NextLinePlace DEF DecideNothing, AtLine
<1>11. CASE BackendResume
  <2>1. PICK outcome \in Outcomes : ResumeEnds(outcome)
    BY <1>11 DEF BackendResume
  <2>2. Key \in Keys /\ pc \in AtLine
    BY <2>1, <1>t DEF ResumeEnds, PlaceOK, AfterCheck, AtLine, Key
  <2>3. NodeTypeOK'
    BY <2>1, <2>2, <1>t, NodeSteps DEF ResumeEnds
  <2>4. PlaceOK'
    <3>1. CASE outcome.ok
      BY <2>1, <3>1, GotoPlace DEF ResumeEnds, PCs, AtLine, AfterCheck
    <3>2. CASE ~outcome.ok
      BY <2>1, <2>2, <3>2, NextLinePlace DEF ResumeEnds
    <3> QED BY <3>1, <3>2
  <2> QED BY <2>1, <1>q, <1>t, <2>3, <2>4 DEF ResumeEnds, StateTypeOK
<1>12. CASE ClearResumed
  <2>1. Key \in Keys /\ pc \in AtLine
    BY <1>12, <1>t DEF ClearResumed, PlaceOK, AfterCheck, AtLine, Key
  <2>2. PlaceOK'
    BY <1>12, <2>1, NextLinePlace DEF ClearResumed
  <2>3. StateTypeOK'
    BY <1>12, <2>1, <1>t, StateSteps DEF ClearResumed
  <2> QED BY <1>12, <1>q, <1>t, <2>2, <2>3 DEF ClearResumed, NodeTypeOK
<1>13. CASE BackendDrain
  <2>1. PICK outcome \in Outcomes : DrainEnds(outcome)
    BY <1>13 DEF BackendDrain
  <2>2. Key \in Keys
    BY <2>1, <1>t DEF DrainEnds, Goto, PlaceOK, AfterCheck, AtLine, Key
  <2>3. NodeTypeOK'
    BY <2>1, <2>2, <1>t, NodeSteps DEF DrainEnds
  <2>4. PlaceOK'
    BY <2>1, GotoPlace DEF DrainEnds, PCs, AtLine, AfterCheck
  <2> QED BY <2>1, <1>q, <1>t, <2>3, <2>4 DEF DrainEnds, StateTypeOK
<1>14. CASE BookDrain
  <2>1. Key \in Keys /\ pc \in AtLine
    BY <1>14, <1>t DEF BookDrain, PlaceOK, AfterCheck, AtLine, Key
  <2>2. PlaceOK'
    BY <1>14, <2>1, NextLinePlace DEF BookDrain
  <2>3. StateTypeOK'
    BY <1>14, <2>1, <1>t, StateSteps DEF BookDrain
  <2> QED BY <1>14, <1>q, <1>t, <2>2, <2>3 DEF BookDrain, NodeTypeOK
<1> QED
  BY <1>1, <1>2, <1>3, <1>4, <1>5, <1>6, <1>7, <1>8, <1>9, <1>10, <1>11,
     <1>12, <1>13, <1>14 DEF CycleStep

\* The part of the types that bounds everybody else.
DisruptionsOK ==
    /\ disruptions \in [Disruptors -> Nat]
    /\ \A who \in Disruptors : disruptions[who] <= MaxDisruptions[who]

\* Everybody else's steps leave the daemon's place alone.
LEMMA OthersType ==
    TypeOK /\ (Crash \/ CliResume \/ Cli \/ CliKilled \/ Intervene) => TypeOK'
<1> SUFFICES ASSUME TypeOK, Crash \/ CliResume \/ Cli \/ CliKilled \/ Intervene
             PROVE  TypeOK'
  OBVIOUS
<1>t. /\ NodeTypeOK /\ StateTypeOK /\ PlaceOK /\ DisruptionsOK
      /\ evidence \in [Keys -> 0..MaxCount]
  BY DEF TypeOK, CycleTypeOK, PlaceOK, DisruptionsOK
<1>d. ASSUME NEW who \in Disruptors, Disrupt(who)
      PROVE  DisruptionsOK'
  <2>1. /\ disruptions \in [Disruptors -> Nat]
        /\ \A w \in Disruptors : disruptions[w] <= MaxDisruptions[w]
    BY <1>t DEF DisruptionsOK
  <2>2. disruptions[who] < MaxDisruptions[who] /\ disruptions' = [disruptions EXCEPT ![who] = @ + 1]
    BY <1>d DEF Disrupt
  <2>3. disruptions' \in [Disruptors -> Nat]
    BY <2>1, <2>2
  <2>4. \A w \in Disruptors : MaxDisruptions[w] \in Nat
    BY DisruptionsAssumption
  <2>5. \A w \in Disruptors : disruptions'[w] = IF w = who THEN disruptions[w] + 1 ELSE disruptions[w]
    BY <2>1, <2>2
  <2>6. \A w \in Disruptors : disruptions'[w] <= MaxDisruptions[w]
    BY <2>1, <2>2, <2>4, <2>5
  <2> QED BY <2>3, <2>6 DEF DisruptionsOK
<1>l. ASSUME UNCHANGED localVars
      PROVE  PlaceOK'
  BY <1>l, <1>t DEF PlaceOK, localVars
<1>1. CASE Crash
  <2>1. PlaceOK'
    BY <1>1, EndCyclePlace DEF Crash, Abort
  <2>2. DisruptionsOK'
    BY <1>1, <1>d DEF Crash, Disruptors
  <2> QED BY <1>1, <1>t, <2>1, <2>2
          DEF Crash, Abort, cliVars, TypeOK, DisruptionsOK, CycleTypeOK, PlaceOK, NodeTypeOK, StateTypeOK
<1>2. CASE CliResume
  <2>1. PICK outcome \in Outcomes : ResumeNode(Human, outcome)
    BY <1>2 DEF CliResume
  <2>2. NodeTypeOK'
    BY <2>1, <1>t, NodeSteps
  <2>3. DisruptionsOK'
    BY <1>2, <1>d DEF CliResume, Disruptors
  <2>4. cliPc' \in {"clear_all", "clear_keys"} /\ cliTodo' \in SUBSET Keys
    BY <1>2 DEF CliResume, KeysNamed
  <2>5. PlaceOK'
    BY <1>2, <1>l DEF CliResume
  <2> QED BY <1>2, <1>t, <2>2, <2>3, <2>4, <2>5
          DEF CliResume, TypeOK, DisruptionsOK, CycleTypeOK, PlaceOK, StateTypeOK
<1>3. CASE Cli
  <2>1. CASE CliClearAll
    <3>1. StateTypeOK'
      BY <2>1, <1>t, MaxCountAssumption DEF CliClearAll, ClearAllDrained, StateTypeOK
    <3>2. PlaceOK'
      BY <2>1, <1>l DEF CliClearAll
    <3> QED BY <2>1, <1>t, <3>1, <3>2
            DEF CliClearAll, TypeOK, DisruptionsOK, CycleTypeOK, PlaceOK, NodeTypeOK
  <2>2. CASE \E k \in Keys : CliClearKey(k)
    <3>1. PICK k \in Keys : CliClearKey(k)
      BY <2>2
    <3>2. StateTypeOK'
      BY <3>1, <1>t, StateSteps DEF CliClearKey
    <3>3. PlaceOK'
      BY <3>1, <1>l DEF CliClearKey
    <3> QED BY <3>1, <1>t, <3>2, <3>3
            DEF CliClearKey, TypeOK, DisruptionsOK, CycleTypeOK, PlaceOK, NodeTypeOK
  <2> QED BY <1>3, <2>1, <2>2 DEF Cli
<1>4. CASE CliKilled
  <2>1. DisruptionsOK'
    BY <1>4, <1>d DEF CliKilled, Disruptors
  <2>2. PlaceOK'
    BY <1>4, <1>l DEF CliKilled
  <2> QED BY <1>4, <1>t, <2>1, <2>2
          DEF CliKilled, TypeOK, DisruptionsOK, CycleTypeOK, PlaceOK, NodeTypeOK, StateTypeOK
<1>5. CASE Intervene
  <2>1. DisruptionsOK'
    BY <1>5, <1>d DEF Intervene, Disruptors
  <2>2. PlaceOK'
    BY <1>5, <1>l DEF Intervene
  <2>3. NodeTypeOK'
    BY <1>5 DEF Intervene, NodeTypeOK
  <2> QED BY <1>5, <1>t, <2>1, <2>2, <2>3
          DEF Intervene, TypeOK, DisruptionsOK, CycleTypeOK, PlaceOK, StateTypeOK, cliVars
<1> QED BY <1>1, <1>2, <1>3, <1>4, <1>5

\* A step that changes nothing keeps the types.
LEMMA StutterType == TypeOK /\ UNCHANGED vars => TypeOK'
BY DEF vars, TypeOK, CycleTypeOK, NodeTypeOK, StateTypeOK, AtLine, AfterCheck

\* The books start empty and the daemon between cycles.
LEMMA InitType == Init => TypeOK
BY MaxCountAssumption, DisruptionsAssumption
   DEF Init, CycleInit, NodeInit, StateInit, TypeOK, CycleTypeOK, NodeTypeOK,
       StateTypeOK, PCs, AtLine, AfterCheck

\* Every step, of whomever, preserves the types.
LEMMA NextType == TypeOK /\ [Next]_vars => TypeOK'
BY CycleStepType, OthersType, StutterType DEF Next, Daemon

\* Every reachable state of the daemon, its database, the node and the
\* command line is well-typed: in particular the daemon never evaluates a line
\* that checks.conf does not have, nor acts on a check that does not exist.
THEOREM TypeCorrect == Spec => []TypeOK
BY InitType, NextType, PTL DEF Spec

-----------------------------------------------------------------------------
\* The hypothesis under which counts and evidence agree: no content of
\* checks.conf names a builtin check with the same arguments twice.
NoRepeatedLine ==
    \A file \in ChecksFiles : \A i, j \in 1..Len(file) :
        file[i] \in Keys /\ file[i] = file[j] => i = j

\* Between the steps of one evaluation: the count about to be written is at
\* most one more than the evidence, and the decision taken was the right one.
CountIsEarned ==
    /\ pc = "record" => count = 0 \/ count <= Bump(evidence[Key])
    /\ pc = "decide" /\ count = 0 => evidence[Key] = 0
    /\ pc = "resume" => evidence[Key] = 0 /\ OptedIn(Key)
    /\ pc = "drain" => count >= Threshold

\* The inductive invariant.
IInv == TypeOK /\ CountsAreEvidence /\ CountIsEarned

Acting == {"record", "decide", "resume", "drain", "mark"}

\* Counters may be kept or cleared while no check is being decided on.
LEMMA Quiet ==
    ASSUME IInv, evidence' = evidence, \A k \in Keys : fails'[k] \in {0, fails[k]},
           pc' \notin Acting
    PROVE  (CountsAreEvidence /\ CountIsEarned)'
<1>1. \A k \in Keys : evidence[k] \in 0..MaxCount /\ fails[k] <= evidence[k]
  BY DEF IInv, TypeOK, CycleTypeOK, CountsAreEvidence
<1>2. \A k \in Keys : fails'[k] <= evidence'[k]
  BY <1>1
<1> QED BY <1>2 DEF CountsAreEvidence, CountIsEarned, Acting

\* They may also be kept or cleared by somebody else at any time.
LEMMA Beside ==
    ASSUME IInv, evidence' = evidence, \A k \in Keys : fails'[k] \in {0, fails[k]},
           UNCHANGED localVars
    PROVE  (CountsAreEvidence /\ CountIsEarned)'
<1>1. \A k \in Keys : evidence[k] \in 0..MaxCount /\ fails[k] <= evidence[k]
  BY DEF IInv, TypeOK, CycleTypeOK, CountsAreEvidence
<1>2. \A k \in Keys : fails'[k] <= evidence'[k]
  BY <1>1
<1>3. Key' = Key
  BY DEF localVars, Key
<1> QED BY <1>2, <1>3
        DEF IInv, CountsAreEvidence, CountIsEarned, localVars, OptedIn, Bump

\* Clearing one counter or all of them is such a change.
LEMMA Clearing ==
    ASSUME TypeOK, NEW j \in Keys, ClearDrained(j) \/ ClearAllDrained
    PROVE  \A k \in Keys : fails'[k] \in {0, fails[k]}
BY DEF TypeOK, CycleTypeOK, StateTypeOK, ClearDrained, ClearAllDrained

\* The line being evaluated was not evaluated before in this cycle.
LEMMA NotRepeated ==
    ASSUME TypeOK, NoRepeatedLine, pc \in AfterCheck
    PROVE  ~RepeatedLine
<1>1. pos \in 1..Len(specs) /\ specs[pos] \in Keys /\ specs \in ChecksFiles
  BY DEF TypeOK, CycleTypeOK, AfterCheck
<1>2. Len(specs) \in Nat
  BY <1>1, CycleAssumption
<1>3. ASSUME NEW i \in 1..(pos - 1), specs[i] = specs[pos]
      PROVE  FALSE
  <2>1. i \in 1..Len(specs) /\ i # pos
    BY <1>1, <1>2
  <2> QED BY <1>1, <1>3, <2>1 DEF NoRepeatedLine
<1> QED BY <1>3 DEF RepeatedLine, Key

-----------------------------------------------------------------------------
\* Every step of the daemon keeps counts and evidence in step.
LEMMA CycleStepInv ==
    ASSUME NoRepeatedLine, IInv, CycleStep
    PROVE  (CountsAreEvidence /\ CountIsEarned)'
<1>t. /\ TypeOK
      /\ pc \in AtLine => pos \in 1..Len(specs)
      /\ pc \in AfterCheck => Key \in Keys
      /\ count \in 0..MaxCount
      /\ fails \in [Keys -> 0..MaxCount]
      /\ evidence \in [Keys -> 0..MaxCount]
  BY DEF IInv, TypeOK, CycleTypeOK, StateTypeOK, Key
<1>n. ASSUME pc \in AtLine, NextLine
      PROVE  pc' \notin Acting
  BY <1>n, <1>t, NextLineType DEF Acting
<1>1. CASE AskResourceManager
  BY <1>1, Quiet DEF AskResourceManager, Ask, Goto, Acting
<1>2. CASE ReadActiveDrains
  BY <1>2, Quiet DEF ReadActiveDrains, Goto, Acting
<1>3. CASE Reconcile
  <2>1. \A k \in Keys : fails'[k] \in {0, fails[k]}
    BY <1>3 DEF Reconcile, ClearAllDrained
  <2> QED BY <1>3, <2>1, Quiet DEF Reconcile, Goto, Acting
<1>4. CASE LoadSpecs
  <2>1. pc' \notin Acting
    BY <1>4 DEF LoadSpecs, Load, StartLine, EndCycle, Acting
  <2> QED BY <1>4, <2>1, Quiet DEF LoadSpecs, Load
<1>5. CASE SkipUnknownCheck
  BY <1>5, <1>n, Quiet DEF SkipUnknownCheck, AtLine
<1>6. CASE RunCheck
  <2>1. Key \in Keys /\ pc' = "record" /\ Key' = Key
    BY <1>6 DEF RunCheck, Key
  <2>2. fails[Key] <= evidence[Key]
    BY <2>1 DEF IInv, CountsAreEvidence
  <2>3. count' = 0 \/ count' = Bump(fails[Key])
    BY <1>6 DEF RunCheck, NextCount
  <2>4. Bump(fails[Key]) <= Bump(evidence[Key])
    BY <1>t, <2>1, <2>2, MaxCountAssumption DEF Bump
  <2>5. (CountsAreEvidence)'
    BY <1>6, <2>1 DEF RunCheck, IInv, CountsAreEvidence
  <2>6. (CountIsEarned)'
    <3>1. evidence' = evidence
      BY <1>6 DEF RunCheck
    <3>2. Bump(evidence[Key])' = Bump(evidence[Key])
      BY <2>1, <3>1 DEF Bump
    <3>3. (count = 0 \/ count <= Bump(evidence[Key]))'
      BY <2>3, <2>4, <3>2
    <3> QED BY <2>1, <3>3 DEF CountIsEarned
  <2> QED BY <2>5, <2>6
<1>7. CASE RecordResult
  <2>1. /\ pc = "record" /\ pc' = "decide" /\ count' = count /\ Key' = Key
        /\ Key \in Keys
    BY <1>7, <1>t DEF RecordResult, Goto, Key, AfterCheck, AtLine
  <2>2. ~RepeatedLine
    BY <1>t, <2>1, NotRepeated DEF AfterCheck, AtLine
  <2>3. evidence'[Key] = IF count = 0 THEN 0 ELSE Bump(evidence[Key])
    BY <1>7, <1>t, <2>1, <2>2 DEF RecordResult, Passed
  <2>4. count = 0 \/ count <= Bump(evidence[Key])
    BY <2>1 DEF IInv, CountIsEarned
  <2>5. count <= evidence'[Key]
    BY <2>3, <2>4, <1>t
  <2>6. \A k \in Keys : fails'[k] <= evidence'[k]
    <3> TAKE k \in Keys
    <3>1. CASE k = Key
      BY <1>7, <1>t, <2>5, <3>1 DEF RecordResult, StoreResult
    <3>2. CASE k # Key
      BY <1>7, <1>t, <3>2 DEF RecordResult, StoreResult, IInv, CountsAreEvidence
    <3> QED BY <3>1, <3>2
  <2> QED BY <2>1, <2>3, <2>5, <2>6 DEF CountsAreEvidence, CountIsEarned
<1>8. CASE DecideResume
  BY <1>8, <1>t DEF DecideResume, MustResume, Passed, Goto, Key, OptedIn, IInv,
                    CountsAreEvidence, CountIsEarned
<1>9. CASE DecideDrain
  BY <1>9, <1>t DEF DecideDrain, MustDrain, Passed, Goto, Key, IInv,
                    CountsAreEvidence, CountIsEarned
<1>10. CASE DecideNothing
  BY <1>10, <1>n, Quiet DEF DecideNothing, AtLine
<1>11. CASE BackendResume
  <2>1. PICK outcome \in Outcomes : ResumeEnds(outcome)
    BY <1>11 DEF BackendResume
  <2>2. pc' \notin Acting
    BY <2>1, <1>n DEF ResumeEnds, Goto, AtLine, Acting
  <2> QED BY <2>1, <2>2, Quiet DEF ResumeEnds
<1>12. CASE ClearResumed
  <2>1. Key \in Keys /\ pc \in AtLine
    BY <1>12, <1>t DEF ClearResumed, AfterCheck, AtLine
  <2>2. \A k \in Keys : fails'[k] \in {0, fails[k]}
    BY <1>12, <1>t, <2>1, Clearing DEF ClearResumed
  <2> QED BY <1>12, <1>n, <2>1, <2>2, Quiet DEF ClearResumed
<1>13. CASE BackendDrain
  BY <1>13, <1>t DEF BackendDrain, DrainEnds, Goto, Key, IInv, CountsAreEvidence,
                     CountIsEarned
<1>14. CASE BookDrain
  BY <1>14, <1>n, Quiet DEF BookDrain, MarkDrained, AtLine
<1> QED
  BY <1>1, <1>2, <1>3, <1>4, <1>5, <1>6, <1>7, <1>8, <1>9, <1>10, <1>11,
     <1>12, <1>13, <1>14 DEF CycleStep

\* So does every other step.
LEMMA OthersInv ==
    ASSUME IInv, Crash \/ CliResume \/ Cli \/ CliKilled \/ Intervene
    PROVE  (CountsAreEvidence /\ CountIsEarned)'
<1>t. TypeOK
  BY DEF IInv
<1>1. CASE Crash
  BY <1>1, Quiet DEF Crash, Abort, EndCycle, Acting
<1>2. CASE CliResume
  BY <1>2, Beside DEF CliResume
<1>3. CASE Cli
  <2>1. evidence' = evidence /\ UNCHANGED localVars
    BY <1>3 DEF Cli, CliClearAll, CliClearKey
  <2>2. \A k \in Keys : fails'[k] \in {0, fails[k]}
    BY <1>3, <1>t, Clearing DEF Cli, CliClearAll, CliClearKey, ClearAllDrained
  <2> QED BY <2>1, <2>2, Beside
<1>4. CASE CliKilled
  BY <1>4, Beside DEF CliKilled
<1>5. CASE Intervene
  BY <1>5, Beside DEF Intervene
<1> QED BY <1>1, <1>2, <1>3, <1>4, <1>5

\* The strengthened invariant holds initially.
LEMMA InitInv == Init => IInv
BY InitType DEF Init, CycleInit, StateInit, IInv, CountsAreEvidence, CountIsEarned

\* And it is inductive.
LEMMA NextInv == NoRepeatedLine /\ IInv /\ [Next]_vars => IInv'
<1> SUFFICES ASSUME NoRepeatedLine, IInv, [Next]_vars
             PROVE  IInv'
  OBVIOUS
<1>1. TypeOK'
  BY NextType DEF IInv
<1>2. (CountsAreEvidence /\ CountIsEarned)'
  <2>1. CASE Daemon
    BY <2>1, CycleStepInv DEF Daemon
  <2>2. CASE UNCHANGED vars
    BY <2>2, Beside DEF vars, localVars
  <2> QED BY <2>1, <2>2, OthersInv DEF Next
<1> QED BY <1>1, <1>2 DEF IInv

\* Unless checks.conf repeats a line, no interleaving with `chpc resume` or
\* with crashes ever makes a counter claim more failures in a row than were
\* recorded, neither the stored one nor the one the daemon acts on.
THEOREM CountsCorrect == NoRepeatedLine => (Spec => []CountsAreEvidence)
<1>1. IInv => CountsAreEvidence
  BY DEF IInv
<1> SUFFICES ASSUME NoRepeatedLine
             PROVE  Spec => []CountsAreEvidence
  OBVIOUS
<1>2. IInv /\ [Next]_vars => IInv'
  BY NextInv
<1> QED BY <1>1, <1>2, InitInv, PTL DEF Spec

-----------------------------------------------------------------------------
\* A daemon's step that leaves the evidence alone moves the node, if at all,
\* by a drain or a resume its policy allows.
LEMMA CycleStepPolicy ==
    ASSUME NoRepeatedLine, IInv, CycleStep
    PROVE  [Policy!Next]_<<node, evidence>>
<1>t. /\ pc \in AfterCheck => Key \in Keys
      /\ evidence \in [Keys -> 0..MaxCount]
      /\ count \in 0..MaxCount
  BY DEF IInv, TypeOK, CycleTypeOK, Key
<1>u. ASSUME UNCHANGED <<node, evidence>>
      PROVE  [Policy!Next]_<<node, evidence>>
  BY <1>u
<1>1. CASE RecordResult
  <2>1. pc = "record" /\ Key \in Keys /\ node' = node
    BY <1>1, <1>t DEF RecordResult, Goto, AfterCheck, AtLine
  <2>2. evidence[Key] \in 0..MaxCount
    BY <1>t, <2>1
  <2>3. Bump(evidence[Key]) \in {evidence[Key], evidence[Key] + 1}
    BY <2>2, BumpType
  <2>4. \E n \in {0, evidence[Key], evidence[Key] + 1} :
            evidence' = [evidence EXCEPT ![Key] = n]
    <3>1. CASE Passed
      BY <1>1, <3>1 DEF RecordResult
    <3>2. CASE ~Passed /\ RepeatedLine
      BY <1>1, <3>2 DEF RecordResult
    <3>3. CASE ~Passed /\ ~RepeatedLine
      BY <1>1, <2>3, <3>3 DEF RecordResult
    <3> QED BY <3>1, <3>2, <3>3
  <2> QED BY <2>1, <2>4 DEF Policy!Next, Policy!Observe
<1>2. CASE BackendResume
  <2>1. PICK outcome \in Outcomes : ResumeEnds(outcome)
    BY <1>2 DEF BackendResume
  <2>2. /\ Key \in Keys /\ evidence[Key] = 0 /\ OptedIn(Key)
        /\ evidence' = evidence /\ ResumeNode(Key, outcome)
    BY <2>1, <1>t DEF ResumeEnds, AfterCheck, AtLine, IInv, CountIsEarned
  <2>3. CASE outcome.done
    <3>1. node' = [up |-> TRUE, by |-> Key]
      BY <2>2, <2>3 DEF ResumeNode
    <3> QED BY <2>2, <3>1 DEF Policy!Next, Policy!Resume
  <2>4. CASE ~outcome.done
    BY <1>u, <2>2, <2>4 DEF ResumeNode
  <2> QED BY <2>3, <2>4
<1>3. CASE BackendDrain
  <2>1. PICK outcome \in Outcomes : DrainEnds(outcome)
    BY <1>3 DEF BackendDrain
  <2>2. /\ Key \in Keys /\ pc = "drain"
        /\ evidence' = evidence /\ DrainNode(Key, outcome)
    BY <2>1, <1>t DEF DrainEnds, Goto, AfterCheck, AtLine
  <2>3. evidence[Key] >= Threshold
    <3>1. count >= Threshold /\ count <= evidence[Key]
      BY <2>2 DEF IInv, CountIsEarned, CountsAreEvidence
    <3>2. evidence[Key] \in 0..MaxCount /\ Threshold \in 1..MaxCount
      BY <1>t, <2>2, CycleAssumption
    <3> QED BY <1>t, <3>1, <3>2, MaxCountAssumption
  <2>4. CASE outcome.done
    <3>1. node' = [up |-> FALSE, by |-> Key]
      BY <2>2, <2>4 DEF DrainNode
    <3> QED BY <2>2, <2>3, <3>1 DEF Policy!Next, Policy!Drain
  <2>5. CASE ~outcome.done
    BY <1>u, <2>2, <2>5 DEF DrainNode
  <2> QED BY <2>4, <2>5
<1>4. CASE ~RecordResult /\ ~BackendResume /\ ~BackendDrain
  <2>1. UNCHANGED <<node, evidence>>
    BY <1>4 DEF CycleStep, AskResourceManager, Ask, ReadActiveDrains, Reconcile,
                LoadSpecs, Load, SkipUnknownCheck, RunCheck, DecideResume, DecideDrain,
                DecideNothing, ClearResumed, BookDrain
  <2> QED BY <1>u, <2>1
<1> QED BY <1>1, <1>2, <1>3, <1>4

\* Everybody else's steps are interventions, or do not concern the policy.
LEMMA OthersPolicy ==
    ASSUME Crash \/ CliResume \/ Cli \/ CliKilled \/ Intervene
    PROVE  [Policy!Next]_<<node, evidence>>
<1>1. CASE CliResume
  <2>1. PICK outcome \in Outcomes : ResumeNode(Human, outcome)
    BY <1>1 DEF CliResume
  <2>2. evidence' = evidence
    BY <1>1 DEF CliResume
  <2>3. CASE outcome.done
    <3>1. node' = [up |-> TRUE, by |-> Human]
      BY <2>1, <2>3 DEF ResumeNode
    <3> QED BY <2>2, <3>1 DEF Policy!Next, Policy!Intervene
  <2>4. CASE ~outcome.done
    BY <2>1, <2>2, <2>4 DEF ResumeNode
  <2> QED BY <2>3, <2>4
<1>2. CASE Intervene
  BY <1>2 DEF Intervene, Policy!Next, Policy!Intervene
<1>3. CASE Crash \/ Cli \/ CliKilled
  BY <1>3 DEF Crash, Abort, Cli, CliClearAll, CliClearKey, CliKilled
<1> QED BY <1>1, <1>2, <1>3

\* Unless checks.conf repeats a line, chpc implements ChpcPolicy: it drains
\* only after Threshold failed cycles in a row, and resumes only on account of
\* an opted-in check that has passed.
THEOREM Refinement == NoRepeatedLine => (Spec => ImplementsPolicy)
<1> SUFFICES ASSUME NoRepeatedLine
             PROVE  Spec => ImplementsPolicy
  OBVIOUS
<1>1. Init => Policy!Init
  BY DEF Init, CycleInit, NodeInit, Policy!Init
<1>2. IInv /\ [Next]_vars => [Policy!Next]_<<node, evidence>>
  <2> SUFFICES ASSUME IInv, [Next]_vars
               PROVE  [Policy!Next]_<<node, evidence>>
    OBVIOUS
  <2>1. CASE Daemon
    BY <2>1, CycleStepPolicy DEF Daemon
  <2>2. CASE UNCHANGED vars
    BY <2>2 DEF vars
  <2> QED BY <2>1, <2>2, OthersPolicy DEF Next
<1>3. IInv /\ [Next]_vars => IInv'
  BY NextInv
<1> QED BY <1>1, <1>2, <1>3, InitInv, PTL DEF Spec, ImplementsPolicy, Policy!Spec

-----------------------------------------------------------------------------
\* Between reading that the node is in service and wiping the books, the
\* daemon itself imposes no drain; whoever else does, does so as Human.
NoOwnDrain == (pc = "reconcile" \/ pc = "clear") => node.up \/ node.by = Human

\* No step of anybody's disturbs it.
LEMMA NoOwnDrainStep == TypeOK /\ NoOwnDrain /\ [Next]_vars => NoOwnDrain'
<1> SUFFICES ASSUME TypeOK, NoOwnDrain, [Next]_vars,
                    pc' = "reconcile" \/ pc' = "clear"
             PROVE  (node.up \/ node.by = Human)'
  BY DEF NoOwnDrain
<1>1. CASE AskResourceManager
  <2>1. node.up
    BY <1>1 DEF AskResourceManager, Ask, Goto, IsDrainedAnswers
  <2> QED BY <1>1, <2>1 DEF AskResourceManager, Ask
<1>2. CASE ReadActiveDrains
  BY <1>2 DEF ReadActiveDrains, Goto, NoOwnDrain
<1>3. CASE CycleStep /\ ~AskResourceManager /\ ~ReadActiveDrains
  <2>1. ASSUME pc \in AtLine, NextLine
        PROVE  pc' \notin {"reconcile", "clear"}
    BY <2>1, NextLineType
  <2>2. pc' \notin {"reconcile", "clear"}
    BY <1>3, <2>1
       DEF CycleStep, Reconcile, LoadSpecs, Load, StartLine, EndCycle, SkipUnknownCheck,
           RunCheck, RecordResult, DecideResume, DecideDrain, DecideNothing,
           BackendResume, ResumeEnds, ClearResumed, BackendDrain, DrainEnds, BookDrain,
           Goto, AtLine
  <2> QED BY <2>2
<1>4. CASE Crash
  BY <1>4 DEF Crash, Abort, EndCycle
<1>5. CASE CliResume
  <2>1. PICK outcome \in Outcomes : ResumeNode(Human, outcome)
    BY <1>5 DEF CliResume
  <2>2. pc' = pc
    BY <1>5 DEF CliResume, localVars
  <2>3. node' = [up |-> TRUE, by |-> Human] \/ node' = node
    BY <2>1, Zenon DEF ResumeNode
  <2> QED BY <2>2, <2>3 DEF NoOwnDrain
<1>6. CASE Intervene
  <2>1. PICK up \in BOOLEAN : node' = [up |-> up, by |-> Human]
    BY <1>6 DEF Intervene
  <2> QED BY <2>1
<1>7. CASE Cli \/ CliKilled \/ UNCHANGED vars
  BY <1>7 DEF Cli, CliClearAll, CliClearKey, CliKilled, vars, localVars, NoOwnDrain
<1> QED BY <1>1, <1>2, <1>3, <1>4, <1>5, <1>6, <1>7 DEF Next, Daemon

\* No interleaving makes reconciliation wipe the books of a drain that chpc
\* itself has in force.
THEOREM WipesAreSafe == Spec => []WipeSparesOwnDrains
<1>1. Init => NoOwnDrain
  BY DEF Init, CycleInit, NoOwnDrain
<1>2. NoOwnDrain => WipeSparesOwnDrains
  BY DEF NoOwnDrain, WipeSparesOwnDrains
<1> QED BY <1>1, <1>2, NoOwnDrainStep, TypeCorrect, PTL DEF Spec

-----------------------------------------------------------------------------
\* No drain that chpc imposed is in force.
NotOurs == node.up \/ node.by = Human

\* Why a drain chpc imposed stays on its books: they are only cleared by the
\* daemon where no such drain is in force (after a look at the node that said
\* so, or a resume that worked), or by `chpc resume`.
BooksInv ==
    /\ DrainIsBooked
    /\ NoOwnDrain
    /\ pc = "clear_key" => NotOurs
    /\ Mode # "live" => NotOurs
    /\ disruptions["cli"] = 0 => cliPc = "idle"

\* Unless done, a command leaves the node as it was; only live ones are done.
LEMMA OutcomeIsLive ==
    ASSUME NEW outcome \in Outcomes, outcome.done
    PROVE  Mode = "live"
BY ModeAssumption DEF Outcomes

\* A command that reports success in a live installation has been obeyed.
LEMMA SuccessIsDone ==
    ASSUME NEW outcome \in Outcomes, outcome.ok, Mode = "live"
    PROVE  outcome.done
BY DEF Outcomes

\* Each step of the daemon keeps its drains booked.
LEMMA CycleStepBooks ==
    ASSUME TypeOK, BooksInv, CycleStep, UNCHANGED <<cliVars, disruptions>>
    PROVE  /\ DrainIsBooked'
           /\ (pc = "clear_key" => NotOurs)'
           /\ (Mode # "live" => NotOurs)'
<1>t. /\ pc \in AfterCheck => Key \in Keys
      /\ active \subseteq Keys
  BY DEF TypeOK, CycleTypeOK, StateTypeOK, Key
<1>n. ASSUME pc \in AtLine, NextLine
      PROVE  pc' \in {"idle", "check"}
  BY <1>n, NextLineType DEF BooksInv
<1>u. ASSUME UNCHANGED <<node, active>>, pc # "mark", pc' # "clear_key"
      PROVE  /\ DrainIsBooked'
             /\ (pc = "clear_key" => NotOurs)'
             /\ (Mode # "live" => NotOurs)'
  BY <1>u DEF BooksInv, DrainIsBooked, NotOurs
<1>1. CASE Reconcile
  <2>1. NotOurs /\ node' = node /\ pc' = "load"
    BY <1>1 DEF Reconcile, Goto, BooksInv, NoOwnDrain, NotOurs
  <2> QED BY <2>1 DEF DrainIsBooked, NotOurs
<1>2. CASE BackendResume
  <2>1. PICK outcome \in Outcomes : ResumeEnds(outcome)
    BY <1>2 DEF BackendResume
  <2>2. pc = "resume" /\ ResumeNode(Key, outcome) /\ active' = active /\ pc' # "mark"
    BY <2>1, <1>n DEF ResumeEnds, Goto, AtLine
  <2>3. CASE outcome.done
    <3>1. NotOurs'
      BY <2>2, <2>3 DEF ResumeNode, NotOurs
    <3> QED BY <3>1 DEF DrainIsBooked, NotOurs
  <2>4. CASE ~outcome.done
    <3>1. node' = node
      BY <2>2, <2>4 DEF ResumeNode
    <3>2. pc' = "clear_key" => outcome.ok
      BY <2>1, <2>2, <1>n DEF ResumeEnds, AtLine
    <3>3. pc' = "clear_key" => NotOurs
      BY <2>4, <3>2, SuccessIsDone DEF BooksInv
    <3>4. DrainIsBooked'
      BY <2>2, <3>1 DEF BooksInv, DrainIsBooked
    <3> QED BY <3>1, <3>3, <3>4 DEF BooksInv, NotOurs
  <2> QED BY <2>3, <2>4
<1>3. CASE ClearResumed
  <2>1. NotOurs /\ node' = node /\ pc' # "clear_key"
    BY <1>3, <1>n DEF ClearResumed, Goto, BooksInv, NotOurs, AtLine
  <2> QED BY <2>1 DEF DrainIsBooked, NotOurs
<1>4. CASE BackendDrain
  <2>1. PICK outcome \in Outcomes : DrainEnds(outcome)
    BY <1>4 DEF BackendDrain
  <2>2. /\ pc = "drain" /\ pc' = "mark" /\ Key' = Key
        /\ DrainNode(Key, outcome) /\ active' = active
    BY <2>1 DEF DrainEnds, Goto, Key
  <2>3. CASE outcome.done
    <3>1. node' = [up |-> FALSE, by |-> Key] /\ Mode = "live"
      BY <2>2, <2>3, OutcomeIsLive DEF DrainNode
    <3> QED BY <2>2, <3>1 DEF DrainIsBooked
  <2>4. CASE ~outcome.done
    BY <1>u, <2>2, <2>4 DEF DrainNode
  <2> QED BY <2>3, <2>4
<1>5. CASE BookDrain
  <2>1. /\ pc = "mark" /\ pc' # "clear_key" /\ node' = node
        /\ active' = active \cup {Key}
    BY <1>5, <1>n DEF BookDrain, MarkDrained, AtLine
  <2>2. DrainIsBooked'
    BY <2>1 DEF BooksInv, DrainIsBooked
  <2> QED BY <2>1, <2>2 DEF BooksInv, NotOurs
<1>6. CASE ~Reconcile /\ ~BackendResume /\ ~ClearResumed /\ ~BackendDrain /\ ~BookDrain
  <2>1. UNCHANGED <<node, active>> /\ pc # "mark"
    BY <1>6 DEF CycleStep, AskResourceManager, Ask, ReadActiveDrains, LoadSpecs, Load,
                SkipUnknownCheck, RunCheck, RecordResult, StoreResult, DecideResume,
                DecideDrain, DecideNothing, Goto
  <2>2. pc' # "clear_key"
    BY <1>6, <1>n
       DEF CycleStep, AskResourceManager, Ask, ReadActiveDrains, LoadSpecs, Load,
           StartLine, EndCycle, SkipUnknownCheck, RunCheck, RecordResult, DecideResume,
           DecideDrain, DecideNothing, Goto, AtLine
  <2> QED BY <1>u, <2>1, <2>2
<1> QED BY <1>1, <1>2, <1>3, <1>4, <1>5, <1>6

\* So does every other step, as long as it is no crash and no `chpc resume`.
LEMMA OthersBooks ==
    ASSUME TypeOK, BooksInv,
           Crash \/ CliResume \/ Cli \/ CliKilled \/ Intervene \/ UNCHANGED vars
    PROVE  /\ DrainIsBooked'
           /\ (pc = "clear_key" => NotOurs)'
           /\ (Mode # "live" => NotOurs)'
           /\ (disruptions["cli"] = 0 => cliPc = "idle")'
<1>t. \A who \in Disruptors : disruptions[who] \in Nat
  BY DEF TypeOK
<1>d. ASSUME NEW who \in Disruptors, Disrupt(who)
      PROVE  /\ disruptions'[who] # 0
             /\ \A w \in Disruptors \ {who} : disruptions'[w] = disruptions[w]
  BY <1>d, <1>t DEF Disrupt, TypeOK
<1>1. CASE Crash
  <2>1. /\ disruptions'["crash"] # 0 /\ disruptions'["cli"] = disruptions["cli"]
        /\ node' = node /\ pc' = "idle" /\ cliPc' = cliPc
    BY <1>1, <1>d DEF Crash, Abort, EndCycle, Disruptors, cliVars
  <2> QED BY <2>1 DEF DrainIsBooked, BooksInv, NotOurs
<1>2. CASE CliResume
  <2>1. PICK outcome \in Outcomes : ResumeNode(Human, outcome)
    BY <1>2 DEF CliResume
  <2>2. disruptions'["cli"] # 0 /\ pc' = pc
    BY <1>2, <1>d DEF CliResume, Disruptors, localVars
  <2>3. NotOurs => NotOurs'
    BY <2>1, Zenon DEF ResumeNode, NotOurs
  <2> QED BY <2>2, <2>3 DEF DrainIsBooked, BooksInv, NotOurs
<1>3. CASE Cli
  <2>1. cliPc # "idle" /\ UNCHANGED <<node, pc, disruptions>>
    BY <1>3 DEF Cli, CliClearAll, CliClearKey, localVars
  <2>2. disruptions'["cli"] # 0
    BY <2>1 DEF BooksInv
  <2> QED BY <2>1, <2>2 DEF DrainIsBooked, BooksInv, NotOurs
<1>4. CASE CliKilled
  <2>1. disruptions'["crash"] # 0 /\ cliPc' = "idle" /\ UNCHANGED <<node, pc>>
    BY <1>4, <1>d DEF CliKilled, Disruptors, localVars
  <2> QED BY <2>1 DEF DrainIsBooked, BooksInv, NotOurs
<1>5. CASE Intervene
  <2>1. node'.by = Human /\ cliPc' = cliPc /\ disruptions'["cli"] = disruptions["cli"]
    <3>1. PICK up \in BOOLEAN : node' = [up |-> up, by |-> Human]
      BY <1>5 DEF Intervene
    <3> QED BY <1>5, <1>d, <3>1 DEF Intervene, cliVars, Disruptors
  <2> QED BY <2>1 DEF DrainIsBooked, BooksInv, NotOurs
<1>6. CASE UNCHANGED vars
  BY <1>6 DEF vars, BooksInv, DrainIsBooked, NotOurs, Key
<1> QED BY <1>1, <1>2, <1>3, <1>4, <1>5, <1>6

\* Whatever the backend reports and whoever else moves the node, a drain that
\* chpc imposed is on its books, so that it can be lifted again: until the
\* daemon is killed in mid-cycle or somebody runs `chpc resume`.
THEOREM DrainsAreBooked == Spec => []DrainIsBooked
<1>1. Init => BooksInv
  BY DEF Init, CycleInit, NodeInit, BooksInv, DrainIsBooked, NoOwnDrain, NotOurs
<1>2. TypeOK /\ BooksInv /\ [Next]_vars => BooksInv'
  <2> SUFFICES ASSUME TypeOK, BooksInv, [Next]_vars
               PROVE  BooksInv'
    OBVIOUS
  <2>1. NoOwnDrain'
    BY NoOwnDrainStep DEF BooksInv
  <2>2. CASE Daemon
    <3>1. (disruptions["cli"] = 0 => cliPc = "idle")'
      BY <2>2 DEF Daemon, cliVars, BooksInv
    <3> QED BY <2>1, <2>2, <3>1, CycleStepBooks DEF Daemon, BooksInv
  <2>3. CASE ~Daemon
    BY <2>1, <2>3, OthersBooks DEF Next, BooksInv
  <2> QED BY <2>2, <2>3
<1>3. BooksInv => DrainIsBooked
  BY DEF BooksInv
<1> QED BY <1>1, <1>2, <1>3, TypeCorrect, PTL DEF Spec

=============================================================================
