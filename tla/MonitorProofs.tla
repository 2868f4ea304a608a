---------------------------- MODULE MonitorProofs ----------------------------
(***************************************************************************)
(* Proofs about Monitor, for every set of nodes and categories, window,    *)
(* threshold and number of crashes, in a dry run and out of it; and about  *)
(* Cluster, for any nodes, checks, categories, thresholds and modes of the *)
(* two tools, and any number of crashes and moves.                         *)
(***************************************************************************)
EXTENDS Cluster, FiniteSetTheorems, TLAPS

\* A command leaves the nodes in states they may be in.
LEMMA SetNodeType ==
    ASSUME RmTypeOK, NEW n \in Nodes, NEW state \in RmStates, NEW outcome,
           SetNode(n, state, outcome)
    PROVE  RmTypeOK'
<1>1. rm' = [rm EXCEPT ![n] = state] \/ rm' = rm
  BY Zenon DEF SetNode
<1> QED BY <1>1 DEF RmTypeOK

\* The sightings of the fixes' categories are pairs of the history.
LEMMA ReadType == ASSUME RmTypeOK, NEW n \in Nodes PROVE Read(n) \in Readings
<1>1. rm[n] \in RmStates
  BY DEF RmTypeOK
<1> QED BY <1>1 DEF RmStates, InService, OutFor, ForcedOutFor, Read, Readings

\* Ages stay within the window.
LEMMA OlderType ==
    ASSUME NEW ages, NEW elapsed \in Nat
    PROVE  Older(ages, elapsed) \in SUBSET (0..Window)
BY WindowAssumption DEF Older

\* The node being handled keeps its place in the poll until it is done with.
PlaceOK ==
    /\ pc \in {"idle", "pick", "quarantine", "drain", "fix", "resume"}
    /\ todo \in SUBSET Nodes
    /\ pc # "idle" => todo # {}
    /\ seen \in [Nodes -> Readings]
    /\ cur \in Nodes
    /\ pc \in {"quarantine", "drain", "fix", "resume"} => cur \in todo
    /\ pc \in {"quarantine", "drain"} => seen[cur] \in Categories \ {AdminDrain}
    /\ pc \in {"fix", "resume"} => seen[cur] \in AutoFixable

\* A node that is done with leads to the next one or out of the poll.
LEMMA DonePlace ==
    ASSUME PlaceOK, NEW n, Done(n), cur' \in Nodes
    PROVE  PlaceOK'
BY DEF PlaceOK, Done

\* Recording, quarantining and clearing keep the tables' types.
LEMMA TableSteps ==
    ASSUME HistoryTypeOK, NEW p \in Pairs
    PROVE  /\ Record(p) => (occurrences \in [Pairs -> SUBSET (0..Window)])'
           /\ Quarantine(p) \/ ClearQuarantineOf(p) => (quarantined \in SUBSET Pairs)'
BY WindowAssumption DEF HistoryTypeOK, Record, Quarantine, ClearQuarantineOf

\* Every step of the agent preserves the types.
LEMMA AgentStepType == AgentTypeOK /\ AgentStep => AgentTypeOK'
<1> SUFFICES ASSUME AgentTypeOK, AgentStep PROVE AgentTypeOK'
  OBVIOUS
<1>t. RmTypeOK /\ HistoryTypeOK /\ PlaceOK /\ fixes \in [Pairs -> SUBSET (0..Window)]
  BY DEF AgentTypeOK, PlaceOK
<1>q. ASSUME RmTypeOK', HistoryTypeOK', PlaceOK', (fixes \in [Pairs -> SUBSET (0..Window)])'
      PROVE  AgentTypeOK'
  BY <1>q DEF AgentTypeOK, PlaceOK
<1>s. pc \in {"quarantine", "drain", "fix", "resume"} => Sighting \in Pairs
  BY <1>t, CategoriesAssumption DEF PlaceOK, Sighting, Pairs
<1>1. CASE StartPoll
  <2>1. PICK elapsed \in 1..(Window + 1), listed \in BOOLEAN : Poll(elapsed, listed)
    BY <1>1 DEF StartPoll
  <2>2. elapsed \in Nat
    BY WindowAssumption
  <2>3. (occurrences \in [Pairs -> SUBSET (0..Window)])' /\ (fixes \in [Pairs -> SUBSET (0..Window)])'
    BY <2>1, <2>2, OlderType DEF Poll
  <2>4. PlaceOK'
    <3>1. CASE listed
      <4>1. cur \in Nodes /\ Nodes # {}
        BY <1>t DEF PlaceOK
      <4>2. pc' = "pick" /\ todo' = Nodes /\ cur' = cur /\ seen' = [n \in Nodes |-> Read(n)]
        BY <2>1, <3>1 DEF Poll
      <4>3. \A n \in Nodes : Read(n) \in Readings
        BY <1>t, ReadType
      <4>4. seen' \in [Nodes -> Readings]
        BY <4>2, <4>3
      <4> QED BY <4>1, <4>2, <4>4 DEF PlaceOK
    <3>2. CASE ~listed
      BY <2>1, <3>2, <1>t DEF Poll, PlaceOK
    <3> QED BY <3>1, <3>2
  <2>5. rm' = rm /\ quarantined' = quarantined
    BY <2>1 DEF Poll
  <2> QED BY <1>t, <1>q, <2>3, <2>4, <2>5 DEF HistoryTypeOK, RmTypeOK
<1>2. ASSUME NEW n \in Nodes, Handle(n)
      PROVE  AgentTypeOK'
  <2>1. CASE Recovered(n)
    <3>1. PlaceOK'
      BY <1>t, <2>1, DonePlace DEF Recovered, Done, PlaceOK
    <3> QED BY <1>t, <1>q, <2>1, <3>1 DEF Recovered, ClearQuarantine, HistoryTypeOK, RmTypeOK
  <2>2. CASE LeaveAlone(n)
    <3>1. PlaceOK'
      BY <1>t, <2>2, DonePlace DEF LeaveAlone, Done, PlaceOK
    <3> QED BY <1>t, <1>q, <2>2, <3>1 DEF LeaveAlone, HistoryTypeOK, RmTypeOK
  <2>3. ToHandle(n) => seen[n] \in Categories \ {AdminDrain} /\ <<n, seen[n]>> \in Pairs
    BY <1>t DEF ToHandle, Pick, PlaceOK, Readings, Pairs
  <2>4. CASE Recurrence(n)
    <3>1. PlaceOK'
      BY <1>t, <2>3, <2>4 DEF Recurrence, ToHandle, Pick, PlaceOK
    <3>2. HistoryTypeOK'
      BY <1>t, <2>3, <2>4, TableSteps DEF Recurrence, HistoryTypeOK
    <3> QED BY <1>t, <1>q, <2>4, <3>1, <3>2 DEF Recurrence, RmTypeOK
  <2>5. CASE FirstSighting(n)
    <3>1. PlaceOK'
      <4>1. CASE seen[n] \in AutoFixable
        BY <1>t, <2>5, <4>1 DEF FirstSighting, ToHandle, Pick, PlaceOK
      <4>2. CASE seen[n] \notin AutoFixable
        BY <1>t, <2>5, <4>2, DonePlace DEF FirstSighting, Done, PlaceOK
      <4> QED BY <4>1, <4>2
    <3>2. HistoryTypeOK'
      BY <1>t, <2>3, <2>5, TableSteps DEF FirstSighting, HistoryTypeOK
    <3> QED BY <1>t, <1>q, <2>5, <3>1, <3>2 DEF FirstSighting, RmTypeOK
  <2> QED BY <1>2, <2>1, <2>2, <2>4, <2>5 DEF Handle
<1>3. CASE MarkQuarantined
  <2>1. PlaceOK'
    BY <1>t, <1>3 DEF MarkQuarantined, PlaceOK
  <2>2. HistoryTypeOK'
    BY <1>t, <1>s, <1>3, TableSteps DEF MarkQuarantined, HistoryTypeOK
  <2> QED BY <1>t, <1>q, <1>3, <2>1, <2>2 DEF MarkQuarantined, RmTypeOK
<1>4. CASE ForceDrain
  <2>1. PICK outcome \in Outcomes : SetNode(cur, ForcedOutFor(seen[cur]), outcome)
    BY <1>4 DEF ForceDrain
  <2>2. ForcedOutFor(seen[cur]) \in RmStates /\ cur \in Nodes
    BY <1>4, <1>t DEF ForceDrain, PlaceOK, RmStates
  <2>3. RmTypeOK'
    BY <1>t, <2>1, <2>2, SetNodeType
  <2>4. PlaceOK'
    BY <1>t, <1>4, DonePlace DEF ForceDrain, Done, PlaceOK
  <2> QED BY <1>t, <1>q, <1>4, <2>3, <2>4 DEF ForceDrain, HistoryTypeOK
<1>5. CASE TryFix
  <2>1. PICK ok \in BOOLEAN : AttemptFix(ok)
    BY <1>5 DEF TryFix
  <2>2. PlaceOK'
    <3>1. CASE ok
      BY <1>t, <2>1, <3>1 DEF AttemptFix, PlaceOK
    <3>2. CASE ~ok
      BY <1>t, <2>1, <3>2, DonePlace DEF AttemptFix, Done, PlaceOK
    <3> QED BY <3>1, <3>2
  <2>3. (fixes \in [Pairs -> SUBSET (0..Window)])'
    BY <1>t, <1>s, <2>1, WindowAssumption DEF AttemptFix
  <2> QED BY <1>t, <1>q, <2>1, <2>2, <2>3 DEF AttemptFix, HistoryTypeOK, RmTypeOK
<1>6. CASE ResumeFixed
  <2>1. PICK outcome \in Outcomes : SetNode(cur, InService, outcome)
    BY <1>6 DEF ResumeFixed
  <2>2. InService \in RmStates /\ cur \in Nodes
    BY <1>t DEF PlaceOK, RmStates
  <2>3. RmTypeOK'
    BY <1>t, <2>1, <2>2, SetNodeType
  <2>4. PlaceOK'
    BY <1>t, <1>6, DonePlace DEF ResumeFixed, Done, PlaceOK
  <2> QED BY <1>t, <1>q, <1>6, <2>3, <2>4 DEF ResumeFixed, HistoryTypeOK
<1> QED BY <1>1, <1>2, <1>3, <1>4, <1>5, <1>6 DEF AgentStep

\* So does everybody else's.
LEMMA OthersType ==
    ASSUME TypeOK, Crash \/ \E n \in Nodes : Move(n) \/ Resolve(n)
    PROVE  TypeOK'
<1>1. CASE Crash
  BY <1>1, CrashesAssumption
     DEF Crash, Abort, TypeOK, AgentTypeOK, RmTypeOK, HistoryTypeOK
<1>2. ASSUME NEW n \in Nodes, Move(n)
      PROVE  TypeOK'
  <2>1. RmTypeOK'
    BY <1>2 DEF Move, TypeOK, AgentTypeOK, RmTypeOK, RmStates
  <2> QED BY <1>2, <2>1 DEF Move, TypeOK, AgentTypeOK, HistoryTypeOK, agentVars
<1>3. ASSUME NEW n \in Nodes, Resolve(n)
      PROVE  TypeOK'
  <2>1. quarantined' \subseteq quarantined
    BY <1>3 DEF Resolve, ClearQuarantine, ClearQuarantineOf
  <2> QED BY <1>3, <2>1 DEF Resolve, TypeOK, AgentTypeOK, RmTypeOK, HistoryTypeOK, agentVars
<1> QED BY <1>1, <1>2, <1>3

\* Type correctness: in particular the agent never handles a node that is not
\* in its poll, nor an administrator's drain or an unfixable category by a fix.
THEOREM TypeCorrect == Spec => []TypeOK
<1>1. Init => TypeOK
  <2> SUFFICES ASSUME Init PROVE TypeOK
    OBVIOUS
  <2>1. rm \in [Nodes -> RmStates]
    BY DEF Init, AgentInit, RmInit, RmStates
  <2> QED BY <2>1, CrashesAssumption
     DEF Init, AgentInit, HistoryInit, TypeOK, AgentTypeOK, RmTypeOK, HistoryTypeOK, Readings
<1>2. TypeOK /\ [Next]_vars => TypeOK'
  <2> SUFFICES ASSUME TypeOK, [Next]_vars PROVE TypeOK'
    OBVIOUS
  <2>1. CASE Agent
    BY <2>1, AgentStepType DEF Agent, TypeOK
  <2>2. CASE UNCHANGED vars
    BY <2>2 DEF vars, TypeOK, AgentTypeOK, RmTypeOK, HistoryTypeOK, agentVars
  <2> QED BY <2>1, <2>2, OthersType DEF Next
<1> QED BY <1>1, <1>2, PTL DEF Spec

-----------------------------------------------------------------------------
\* Sightings of p that are not younger than age a.
Upto(p, a) == {b \in occurrences[p] : b >= a}

\* Every fix was recorded as a sighting first, and when the latest one was
\* made the problem had been sighted fewer than Threshold times in the window
\* that ended with it.
LatestFixJustified ==
    \A p \in Pairs :
        fixes[p] # {} =>
            \E a \in fixes[p] :
                /\ fixes[p] \subseteq Upto(p, a)
                /\ Cardinality(Upto(p, a)) < Threshold

\* What the history says when a decision taken in one step is acted on.
FixJustified ==
    pc = "fix" => /\ 0 \in occurrences[Sighting]
                  /\ Cardinality(occurrences[Sighting]) < Threshold
DrainJustified ==
    pc \in {"quarantine", "drain"} =>
        /\ 0 \in occurrences[Sighting]
        /\ Cardinality(occurrences[Sighting]) >= Threshold
ResumeJustified == pc = "resume" => 0 \in fixes[Sighting]

Justified == FixJustified /\ DrainJustified /\ ResumeJustified

IInv == TypeOK /\ LatestFixJustified /\ Justified

\* Sets of ages are finite.
LEMMA AgesFinite ==
    ASSUME NEW ages \in SUBSET (0..Window)
    PROVE  IsFiniteSet(ages) /\ Cardinality(ages) \in Nat
<1>1. IsFiniteSet(0..Window)
  BY FS_Interval, WindowAssumption
<1> QED BY <1>1, FS_Subset, FS_CardinalityType

\* Growing older, a set of ages does not gain members: counted up to an age,
\* it has no more than it had up to the corresponding age before.
LEMMA OlderCounts ==
    ASSUME NEW ages \in SUBSET (0..Window), NEW elapsed \in Nat, NEW a \in Nat
    PROVE  Cardinality({b \in Older(ages, elapsed) : b >= a + elapsed})
           <= Cardinality({b \in ages : b >= a})
<1> DEFINE S == {b \in Older(ages, elapsed) : b >= a + elapsed}
           T == {b \in ages : b >= a}
           f == [b \in S |-> b - elapsed]
<1>1. IsFiniteSet(T)
  BY AgesFinite
<1>2. \A b \in S : b \in Nat /\ b - elapsed \in T
  BY WindowAssumption DEF Older
<1>3. f \in [S -> T]
  BY <1>2
<1>4. \A b, c \in S : f[b] = f[c] => b = c
  BY <1>2
<1>5. f \in Injection(S, T)
  BY <1>3, <1>4 DEF Injection, IsInjective
<1> QED BY <1>1, <1>5, FS_Injection

\* Recording a sighting in the poll that is under way.
LEMMA RecordCounts ==
    ASSUME TypeOK, NEW p \in Pairs, Record(p)
    PROVE  /\ occurrences'[p] = Prior(p) \cup {0}
           /\ Cardinality(occurrences'[p]) = Cardinality(Prior(p)) + 1
           /\ \A q \in Pairs : q # p => occurrences'[q] = occurrences[q]
<1>1. occurrences \in [Pairs -> SUBSET (0..Window)]
  BY DEF TypeOK, AgentTypeOK, HistoryTypeOK
<1>2. occurrences'[p] = Prior(p) \cup {0}
  BY <1>1 DEF Record, Prior
<1>3. Prior(p) \in SUBSET (0..Window) /\ 0 \notin Prior(p)
  BY <1>1 DEF Prior
<1>4. Cardinality(Prior(p) \cup {0}) = Cardinality(Prior(p)) + 1
  BY <1>3, AgesFinite, FS_AddElement
<1> QED BY <1>1, <1>2, <1>4 DEF Record

\* With the passing of time the latest fix stays justified.
LEMMA PollFixes ==
    ASSUME IInv, NEW elapsed \in Nat,
           occurrences' = [p \in Pairs |-> Older(occurrences[p], elapsed)],
           fixes' = [p \in Pairs |-> Older(fixes[p], elapsed)]
    PROVE  LatestFixJustified'
<1> SUFFICES ASSUME NEW p \in Pairs, fixes'[p] # {}
             PROVE  \E a \in fixes'[p] : /\ fixes'[p] \subseteq Upto(p, a)'
                                         /\ Cardinality(Upto(p, a)') < Threshold
  BY DEF LatestFixJustified
<1>1. /\ fixes[p] \in SUBSET (0..Window)
      /\ occurrences[p] \in SUBSET (0..Window)
  BY DEF IInv, TypeOK, AgentTypeOK, HistoryTypeOK
<1>2. fixes'[p] = Older(fixes[p], elapsed) /\ occurrences'[p] = Older(occurrences[p], elapsed)
  OBVIOUS
<1>3. fixes[p] # {}
  BY <1>2 DEF Older
<1>4. PICK a \in fixes[p] : fixes[p] \subseteq Upto(p, a) /\ Cardinality(Upto(p, a)) < Threshold
  BY <1>3 DEF IInv, LatestFixJustified
<1>5. a \in Nat /\ a <= Window
  BY <1>1, WindowAssumption
<1>6. a + elapsed \in fixes'[p]
  <2>1. PICK b \in fixes'[p] : TRUE
    OBVIOUS
  <2>2. b \in elapsed..Window /\ b - elapsed \in fixes[p]
    BY <1>2, <2>1 DEF Older
  <2>3. b - elapsed >= a
    BY <1>4, <2>2 DEF Upto
  <2> QED BY <1>2, <1>5, <2>2, <2>3, WindowAssumption DEF Older
<1>7. fixes'[p] \subseteq Upto(p, a + elapsed)'
  BY <1>2, <1>4, <1>5, WindowAssumption DEF Older, Upto
<1>8. Cardinality(Upto(p, a + elapsed)') < Threshold
  <2>1. Upto(p, a + elapsed)' = {b \in Older(occurrences[p], elapsed) : b >= a + elapsed}
    BY <1>2 DEF Upto
  <2>2. Cardinality(Upto(p, a + elapsed)') <= Cardinality(Upto(p, a))
    BY <1>1, <1>5, <2>1, OlderCounts DEF Upto
  <2>3. Upto(p, a) \in SUBSET (0..Window)
    BY <1>1 DEF Upto
  <2>4. Upto(p, a + elapsed)' \in SUBSET (0..Window)
    BY <2>1, WindowAssumption DEF Older
  <2> QED BY <1>4, <2>2, <2>3, <2>4, AgesFinite, ThresholdAssumption
<1> QED BY <1>6, <1>7, <1>8

\* Recording one more sighting takes no justification away: a fix of the poll
\* under way has this sighting recorded already.
LEMMA RecordFixes ==
    ASSUME IInv, NEW p \in Pairs, Record(p), UNCHANGED fixes
    PROVE  LatestFixJustified'
<1> SUFFICES ASSUME NEW q \in Pairs, fixes[q] # {}
             PROVE  \E a \in fixes[q] : /\ fixes[q] \subseteq Upto(q, a)'
                                        /\ Cardinality(Upto(q, a)') < Threshold
  BY DEF LatestFixJustified
<1>0. occurrences[q] \in SUBSET (0..Window) /\ fixes[q] \in SUBSET (0..Window) /\ TypeOK
  BY DEF IInv, TypeOK, AgentTypeOK, HistoryTypeOK
<1>1. PICK a \in fixes[q] : fixes[q] \subseteq Upto(q, a) /\ Cardinality(Upto(q, a)) < Threshold
  BY DEF IInv, LatestFixJustified
<1>2. a \in Nat /\ (a = 0 => 0 \in occurrences[q])
  BY <1>0, <1>1, WindowAssumption DEF Upto
<1>3. occurrences'[q] = occurrences[q] \/ (q = p /\ occurrences'[q] = Prior(q) \cup {0})
  BY <1>0, RecordCounts
<1>4. Upto(q, a)' = Upto(q, a)
  <2>1. CASE occurrences'[q] = occurrences[q]
    BY <2>1 DEF Upto
  <2>2. CASE occurrences'[q] = Prior(q) \cup {0}
    BY <1>0, <1>2, <2>2, WindowAssumption DEF Upto, Prior
  <2> QED BY <1>3, <2>1, <2>2
<1> QED BY <1>1, <1>4

\* Nothing of the history's sightings and fixes moves.
LEMMA KeepFixes ==
    ASSUME LatestFixJustified, UNCHANGED <<occurrences, fixes>>
    PROVE  LatestFixJustified'
BY DEF LatestFixJustified, Upto

\* A decision that no step has acted on yet stays justified while neither it
\* nor the history moves.
LEMMA KeepJustified ==
    ASSUME Justified, UNCHANGED <<pc, seen, cur, occurrences, fixes>>
    PROVE  Justified'
BY DEF Justified, FixJustified, DrainJustified, ResumeJustified, Sighting

\* Between nodes and between polls there is no decision to justify.
LEMMA NoDecision == ASSUME pc' \in {"idle", "pick"} PROVE Justified'
BY DEF Justified, FixJustified, DrainJustified, ResumeJustified

\* In neither place is there a decision left to justify.
LEMMA DoneNoDecision == ASSUME NEW n, Done(n) PROVE Justified'
<1>1. pc' \in {"idle", "pick"}
  BY DEF Done
<1> QED BY <1>1, NoDecision

\* Every step of the agent preserves the invariant's two parts about history.
LEMMA AgentStepInv ==
    ASSUME IInv, AgentStep
    PROVE  LatestFixJustified' /\ Justified'
<1>t. /\ TypeOK /\ LatestFixJustified /\ Justified
      /\ occurrences \in [Pairs -> SUBSET (0..Window)]
      /\ fixes \in [Pairs -> SUBSET (0..Window)]
  BY DEF IInv, TypeOK, AgentTypeOK, HistoryTypeOK
<1>s. pc \in {"quarantine", "drain", "fix", "resume"} => Sighting \in Pairs
  BY <1>t, CategoriesAssumption DEF TypeOK, AgentTypeOK, Sighting, Pairs
<1>c. \A p \in Pairs : Cardinality(Prior(p)) \in Nat
  BY <1>t, AgesFinite DEF Prior
<1>1. CASE StartPoll
  <2>1. PICK elapsed \in 1..(Window + 1), listed \in BOOLEAN : Poll(elapsed, listed)
    BY <1>1 DEF StartPoll
  <2>2. elapsed \in Nat
    BY WindowAssumption
  <2>3. LatestFixJustified'
    BY <2>1, <2>2, PollFixes DEF Poll
  <2>4. pc' \in {"idle", "pick"}
    BY <2>1 DEF Poll
  <2> QED BY <2>3, <2>4, NoDecision
<1>2. ASSUME NEW n \in Nodes, Handle(n)
      PROVE  LatestFixJustified' /\ Justified'
  <2>1. CASE Recovered(n) \/ LeaveAlone(n)
    BY <1>t, <2>1, KeepFixes, DoneNoDecision DEF Recovered, LeaveAlone
  <2>2. ToHandle(n) => <<n, seen[n]>> \in Pairs
    BY <1>t DEF ToHandle, Pick, TypeOK, AgentTypeOK, Readings, Pairs
  <2>3. CASE Recurrence(n)
    <3>1. <<n, seen[n]>> \in Pairs /\ Record(<<n, seen[n]>>) /\ Sighting' = <<n, seen[n]>>
      BY <2>2, <2>3 DEF Recurrence, Sighting
    <3>2. 0 \in (occurrences[Sighting])' /\ Cardinality((occurrences[Sighting])') >= Threshold
      BY <1>t, <2>3, <3>1, RecordCounts DEF Recurrence, Recurring
    <3>3. Justified'
      BY <2>3, <3>2 DEF Recurrence, Justified, FixJustified, DrainJustified, ResumeJustified
    <3>4. LatestFixJustified'
      BY <2>3, <3>1, RecordFixes DEF Recurrence
    <3> QED BY <3>3, <3>4
  <2>4. CASE FirstSighting(n)
    <3>1. <<n, seen[n]>> \in Pairs /\ Record(<<n, seen[n]>>)
      BY <2>2, <2>4 DEF FirstSighting
    <3>2. LatestFixJustified'
      BY <2>4, <3>1, RecordFixes DEF FirstSighting
    <3>3. CASE seen[n] \notin AutoFixable
      BY <2>4, <3>2, <3>3, DoneNoDecision DEF FirstSighting
    <3>4. CASE seen[n] \in AutoFixable
      <4>1. pc' = "fix" /\ Sighting' = <<n, seen[n]>>
        BY <2>4, <3>4 DEF FirstSighting, Sighting
      <4>2. Cardinality(Prior(<<n, seen[n]>>)) + 1 < Threshold
        BY <1>c, <2>4, <3>1, ThresholdAssumption DEF FirstSighting, Recurring
      <4>3. 0 \in (occurrences[Sighting])' /\ Cardinality((occurrences[Sighting])') < Threshold
        BY <1>t, <3>1, <4>1, <4>2, RecordCounts
      <4> QED BY <3>2, <4>1, <4>3 DEF Justified, FixJustified, DrainJustified, ResumeJustified
    <3> QED BY <3>3, <3>4
  <2> QED BY <1>2, <2>1, <2>3, <2>4 DEF Handle
<1>3. CASE MarkQuarantined
  <2>1. Justified'
    BY <1>t, <1>3 DEF MarkQuarantined, Justified, FixJustified, DrainJustified, ResumeJustified,
                      Sighting
  <2> QED BY <1>t, <1>3, <2>1, KeepFixes DEF MarkQuarantined
<1>4. CASE ForceDrain \/ ResumeFixed
  BY <1>t, <1>4, KeepFixes, DoneNoDecision DEF ForceDrain, ResumeFixed
<1>5. CASE TryFix
  <2>1. PICK ok \in BOOLEAN : AttemptFix(ok)
    BY <1>5 DEF TryFix
  <2>2. Sighting \in Pairs /\ fixes' = [fixes EXCEPT ![Sighting] = @ \cup {0}]
    BY <1>s, <2>1 DEF AttemptFix
  <2>3. LatestFixJustified'
    <3> SUFFICES ASSUME NEW p \in Pairs, fixes'[p] # {}
                 PROVE  \E a \in fixes'[p] : /\ fixes'[p] \subseteq Upto(p, a)'
                                             /\ Cardinality(Upto(p, a)') < Threshold
      BY DEF LatestFixJustified
    <3>1. \A a : Upto(p, a)' = Upto(p, a)
      BY <2>1 DEF AttemptFix, Upto
    <3>2. CASE p # Sighting
      <4>1. fixes'[p] = fixes[p]
        BY <1>t, <2>2, <3>2
      <4> QED BY <1>t, <3>1, <4>1 DEF LatestFixJustified
    <3>3. CASE p = Sighting
      <4>1. fixes'[p] = fixes[p] \cup {0}
        BY <1>t, <2>2, <3>3
      <4>2. 0 \in occurrences[p] /\ Cardinality(occurrences[p]) < Threshold
        BY <1>t, <2>1, <3>3 DEF AttemptFix, Justified, FixJustified
      <4>3. Upto(p, 0) = occurrences[p]
        BY <1>t, WindowAssumption DEF Upto
      <4>4. fixes[p] \subseteq occurrences[p]
        BY <1>t DEF LatestFixJustified, Upto
      <4> QED BY <3>1, <4>1, <4>2, <4>3, <4>4
    <3> QED BY <3>2, <3>3
  <2>4. Justified'
    <3>1. CASE ok
      <4>1. 0 \in (fixes[Sighting])' /\ pc' = "resume"
        BY <1>t, <2>1, <2>2, <3>1 DEF AttemptFix, Sighting
      <4> QED BY <4>1 DEF Justified, FixJustified, DrainJustified, ResumeJustified
    <3>2. CASE ~ok
      BY <2>1, <3>2, DoneNoDecision DEF AttemptFix
    <3> QED BY <3>1, <3>2
  <2> QED BY <2>3, <2>4
<1> QED BY <1>1, <1>2, <1>3, <1>4, <1>5 DEF AgentStep

\* So does everything else.
LEMMA NextInv == IInv /\ TypeOK' /\ [Next]_vars => IInv'
<1> SUFFICES ASSUME IInv, TypeOK', [Next]_vars PROVE LatestFixJustified' /\ Justified'
  BY DEF IInv
<1>1. CASE Agent
  BY <1>1, AgentStepInv DEF Agent
<1>2. CASE Crash
  BY <1>2, KeepFixes, NoDecision DEF Crash, Abort, IInv
<1>3. CASE (\E n \in Nodes : Move(n) \/ Resolve(n)) \/ UNCHANGED vars
  <2>1. UNCHANGED <<pc, seen, cur, occurrences, fixes>>
    BY <1>3 DEF Move, Resolve, vars, agentVars
  <2> QED BY <2>1, KeepFixes, KeepJustified DEF IInv
<1> QED BY <1>1, <1>2, <1>3 DEF Next

\* The history justifies every decision and every fix, at all times.
THEOREM Invariance == Spec => []IInv
<1>1. Init => LatestFixJustified /\ Justified
  BY DEF Init, AgentInit, HistoryInit, LatestFixJustified, Justified, FixJustified,
         DrainJustified, ResumeJustified
<1>2. IInv /\ TypeOK' /\ [Next]_vars => IInv'
  BY NextInv
<1>3. IInv <=> TypeOK /\ LatestFixJustified /\ Justified
  BY DEF IInv
<1> QED BY <1>1, <1>2, <1>3, TypeCorrect, PTL DEF Spec

\* However polls, crashes, `slurm-monitor resolve` and other actors interleave,
\* no category is given Threshold automated fixes on a node within a window.
THEOREM FixesRare == Spec => []FixesAreRare
<1>1. IInv => FixesAreRare
  <2> SUFFICES ASSUME IInv, NEW p \in Pairs
               PROVE  Cardinality(fixes[p]) < Threshold
    BY DEF FixesAreRare
  <2>1. fixes[p] \in SUBSET (0..Window) /\ occurrences[p] \in SUBSET (0..Window)
    BY DEF IInv, TypeOK, AgentTypeOK, HistoryTypeOK
  <2>2. CASE fixes[p] = {}
    BY <2>2, FS_EmptySet, ThresholdAssumption
  <2>3. CASE fixes[p] # {}
    <3>1. PICK a \in fixes[p] : fixes[p] \subseteq Upto(p, a) /\ Cardinality(Upto(p, a)) < Threshold
      BY <2>3 DEF IInv, LatestFixJustified
    <3>2. Upto(p, a) \in SUBSET (0..Window)
      BY <2>1 DEF Upto
    <3>3. IsFiniteSet(Upto(p, a)) /\ Cardinality(Upto(p, a)) \in Nat /\ Cardinality(fixes[p]) \in Nat
      BY <2>1, <3>2, AgesFinite
    <3>4. Cardinality(fixes[p]) <= Cardinality(Upto(p, a))
      BY <3>1, <3>3, FS_Subset
    <3> QED BY <3>1, <3>3, <3>4, ThresholdAssumption
  <2> QED BY <2>2, <2>3
<1> QED BY <1>1, Invariance, PTL

-----------------------------------------------------------------------------
\* The operators of the abstract module are those of the agent's own.
LEMMA PolicyOperators ==
    /\ \A ages, elapsed : Policy!Older(ages, elapsed) = Older(ages, elapsed)
    /\ \A S : Policy!Cardinality(S) = Cardinality(S)
    /\ Policy!Pairs = Pairs
    /\ Policy!InService = InService
    /\ \A c : Policy!OutFor(c) = OutFor(c) /\ Policy!ForcedOutFor(c) = ForcedOutFor(c)
<1>1. \A ages, elapsed : Policy!Older(ages, elapsed) = Older(ages, elapsed)
  BY Zenon DEF Policy!Older, Older
<1>2. \A S : Policy!Cardinality(S) = Cardinality(S)
  BY Zenon DEF Policy!Cardinality, Cardinality
<1>3. \A c : Policy!OutFor(c) = OutFor(c) /\ Policy!ForcedOutFor(c) = ForcedOutFor(c)
  BY Zenon DEF Policy!OutFor, OutFor, Policy!ForcedOutFor, ForcedOutFor
<1>4. Policy!InService = InService
  BY Zenon DEF Policy!InService, InService, Policy!Fine, Fine
<1> QED BY <1>1, <1>2, <1>3, <1>4 DEF Policy!Pairs, Pairs

\* Every step of the agent is one the policy allows.
LEMMA AgentStepPolicy ==
    ASSUME IInv, AgentStep
    PROVE  [Policy!Next]_<<rm, occurrences, fixes>>
<1>t. TypeOK /\ Justified
  BY DEF IInv
<1>s. pc \in {"quarantine", "drain", "fix", "resume"} =>
          cur \in Nodes /\ Sighting \in Pairs /\ seen[cur] \in Categories
  BY <1>t, CategoriesAssumption DEF TypeOK, AgentTypeOK, Sighting, Pairs
<1>1. CASE StartPoll
  <2>1. PICK elapsed \in 1..(Window + 1), listed \in BOOLEAN : Poll(elapsed, listed)
    BY <1>1 DEF StartPoll
  <2>2. Policy!TimePasses
    BY <2>1, PolicyOperators DEF Poll, Policy!TimePasses
  <2> QED BY <2>2 DEF Policy!Next
<1>2. ASSUME NEW n \in Nodes, Handle(n)
      PROVE  [Policy!Next]_<<rm, occurrences, fixes>>
  <2>1. CASE Recovered(n) \/ LeaveAlone(n)
    BY <2>1 DEF Recovered, LeaveAlone
  <2>2. CASE Recurrence(n) \/ FirstSighting(n)
    <3>1. <<n, seen[n]>> \in Pairs
      BY <1>t, <2>2 DEF Recurrence, FirstSighting, ToHandle, Pick, TypeOK, AgentTypeOK,
                        Readings, Pairs
    <3>2. Policy!Sight(<<n, seen[n]>>)
      BY <2>2 DEF Recurrence, FirstSighting, Record, Policy!Sight, Policy!Record
    <3> QED BY <3>1, <3>2, PolicyOperators DEF Policy!Next
  <2> QED BY <1>2, <2>1, <2>2 DEF Handle
<1>3. CASE MarkQuarantined
  BY <1>3 DEF MarkQuarantined
<1>4. CASE ForceDrain
  <2>1. PICK outcome \in Outcomes : SetNode(cur, ForcedOutFor(seen[cur]), outcome)
    BY <1>4 DEF ForceDrain
  <2>2. rm' = [rm EXCEPT ![cur] = ForcedOutFor(seen[cur])] \/ rm' = rm
    BY <2>1, Zenon DEF SetNode
  <2>3. UNCHANGED <<occurrences, fixes>>
    BY <1>4 DEF ForceDrain
  <2>4. CASE rm' = [rm EXCEPT ![cur] = ForcedOutFor(seen[cur])]
    <3>1. pc = "drain" /\ seen[cur] # AdminDrain
      BY <1>4, <1>t DEF ForceDrain, TypeOK, AgentTypeOK
    <3>2. /\ 0 \in occurrences[<<cur, seen[cur]>>]
          /\ Cardinality(occurrences[<<cur, seen[cur]>>]) >= Threshold
      BY <3>1, <1>t DEF Justified, DrainJustified, Sighting
    <3>3. Policy!Drain(cur, seen[cur])
      BY <2>3, <2>4, <3>1, <3>2, PolicyOperators DEF Policy!Drain
    <3>4. cur \in Nodes /\ seen[cur] \in Categories
      BY <1>s, <3>1
    <3> QED BY <3>3, <3>4 DEF Policy!Next
  <2> QED BY <2>2, <2>3, <2>4
<1>5. CASE TryFix
  <2>1. PICK ok \in BOOLEAN : AttemptFix(ok)
    BY <1>5 DEF TryFix
  <2>2. pc = "fix" /\ Sighting[2] \in AutoFixable
    BY <2>1, <1>t DEF AttemptFix, TypeOK, AgentTypeOK, Sighting
  <2>3. Policy!Fix(Sighting)
    BY <2>1, <2>2, <1>t, PolicyOperators DEF AttemptFix, Policy!Fix, Justified, FixJustified
  <2>4. Sighting \in Policy!Pairs
    BY <1>s, <2>2, PolicyOperators
  <2> QED BY <2>3, <2>4 DEF Policy!Next
<1>6. CASE ResumeFixed
  <2>1. PICK outcome \in Outcomes : SetNode(cur, InService, outcome)
    BY <1>6 DEF ResumeFixed
  <2>2. rm' = [rm EXCEPT ![cur] = InService] \/ rm' = rm
    BY <2>1, Zenon DEF SetNode
  <2>3. UNCHANGED <<occurrences, fixes>>
    BY <1>6 DEF ResumeFixed
  <2>4. CASE rm' = [rm EXCEPT ![cur] = InService]
    <3>1. pc = "resume" /\ seen[cur] \in AutoFixable
      BY <1>6, <1>t DEF ResumeFixed, TypeOK, AgentTypeOK
    <3>2. 0 \in fixes[<<cur, seen[cur]>>]
      BY <3>1, <1>t DEF Justified, ResumeJustified, Sighting
    <3>3. Policy!Resume(cur)
      BY <2>3, <2>4, <3>1, <3>2, PolicyOperators DEF Policy!Resume
    <3>4. cur \in Nodes
      BY <1>s, <3>1
    <3> QED BY <3>3, <3>4 DEF Policy!Next
  <2> QED BY <2>2, <2>3, <2>4
<1> QED BY <1>1, <1>2, <1>3, <1>4, <1>5, <1>6 DEF AgentStep

\* slurm_monitor implements MonitorPolicy: a forced drain only for a problem
\* sighted Threshold times within the window, a resume only after a fix, and a
\* fix only for a self-healing problem sighted less often.
THEOREM Refinement == Spec => ImplementsPolicy
<1>1. Init => Policy!Init
  BY PolicyOperators DEF Init, AgentInit, RmInit, HistoryInit, Policy!Init, Policy!RmInit,
                         Policy!HistoryInit
<1>2. IInv /\ [Next]_vars => [Policy!Next]_<<rm, occurrences, fixes>>
  <2> SUFFICES ASSUME IInv, [Next]_vars PROVE [Policy!Next]_<<rm, occurrences, fixes>>
    OBVIOUS
  <2>1. CASE Agent
    BY <2>1, AgentStepPolicy DEF Agent
  <2>2. ASSUME NEW n \in Nodes, Move(n)
        PROVE  [Policy!Next]_<<rm, occurrences, fixes>>
    <3>1. Policy!Move(n)
      BY <2>2, PolicyOperators DEF Move, Policy!Move
    <3> QED BY <3>1 DEF Policy!Next
  <2>3. CASE Crash \/ (\E n \in Nodes : Resolve(n)) \/ UNCHANGED vars
    BY <2>3 DEF Crash, Abort, Resolve, vars
  <2> QED BY <2>1, <2>2, <2>3 DEF Next
<1> QED BY <1>1, <1>2, Invariance, PTL DEF Spec, ImplementsPolicy, Policy!Spec

-----------------------------------------------------------------------------
(* Cluster.  What a step of either tool may do to the node they share. *)

\* The agent lists the nodes, leaves them, forces one out or puts one back.
Lists ==
    /\ pc = "idle" /\ pc' = "pick"
    /\ rm' = rm /\ seen' = [n \in Nodes |-> Read(n)]

Listed == pc = "idle" /\ pc' = "pick"
Leaves == ~Listed /\ rm' = rm /\ seen' = seen /\ todo' \subseteq todo

ForcesOut ==
    /\ ~Listed /\ cur \in todo /\ seen' = seen /\ todo' = todo \ {cur}
    /\ rm' = [rm EXCEPT ![cur] = ForcedOutFor(seen[cur])]

PutsBack ==
    /\ ~Listed /\ cur \in todo /\ seen' = seen /\ todo' = todo \ {cur}
    /\ seen[cur] \in AutoFixable
    /\ rm' = [rm EXCEPT ![cur] = InService]

\* Nothing else is in a step of the agent, of its crashes or of `resolve`.
LEMMA AgentEffect ==
    ASSUME TypeOK, Agent \/ Crash \/ Resolve(Host)
    PROVE  Lists \/ Leaves \/ ForcesOut \/ PutsBack
<1>t. PlaceOK
  BY DEF TypeOK, AgentTypeOK, PlaceOK
<1>1. CASE StartPoll
  <2>1. PICK elapsed \in 1..(Window + 1), listed \in BOOLEAN : Poll(elapsed, listed)
    BY <1>1 DEF StartPoll
  <2>2. CASE listed
    BY <2>1, <2>2 DEF Poll, Lists
  <2>3. CASE ~listed
    BY <2>1, <2>3 DEF Poll, Leaves, Listed
  <2> QED BY <2>2, <2>3
<1>2. ASSUME NEW n \in Nodes, Handle(n)
      PROVE  Leaves
  BY <1>2 DEF Handle, Recovered, LeaveAlone, Recurrence, FirstSighting, ToHandle, Pick,
              Done, Leaves, Listed
<1>3. CASE MarkQuarantined
  BY <1>3 DEF MarkQuarantined, Leaves, Listed
<1>4. CASE ForceDrain
  <2>1. PICK outcome \in Outcomes : SetNode(cur, ForcedOutFor(seen[cur]), outcome)
    BY <1>4 DEF ForceDrain
  <2>2. rm' = rm \/ rm' = [rm EXCEPT ![cur] = ForcedOutFor(seen[cur])]
    BY <2>1, Zenon DEF SetNode
  <2>3. pc = "drain" /\ cur \in todo /\ seen' = seen /\ todo' = todo \ {cur}
    BY <1>4, <1>t DEF ForceDrain, Done, PlaceOK
  <2> QED BY <2>2, <2>3 DEF Leaves, ForcesOut, Listed
<1>5. CASE TryFix
  <2>1. PICK ok \in BOOLEAN : AttemptFix(ok)
    BY <1>5 DEF TryFix
  <2> QED BY <2>1 DEF AttemptFix, Done, Leaves, Listed
<1>6. CASE ResumeFixed
  <2>1. PICK outcome \in Outcomes : SetNode(cur, InService, outcome)
    BY <1>6 DEF ResumeFixed
  <2>2. rm' = rm \/ rm' = [rm EXCEPT ![cur] = InService]
    BY <2>1, Zenon DEF SetNode
  <2>3. /\ pc = "resume" /\ cur \in todo /\ seen[cur] \in AutoFixable
        /\ seen' = seen /\ todo' = todo \ {cur}
    BY <1>6, <1>t DEF ResumeFixed, Done, PlaceOK
  <2> QED BY <2>2, <2>3 DEF Leaves, PutsBack, Listed
<1>7. CASE Crash
  BY <1>7 DEF Crash, Abort, Leaves, Listed
<1>8. CASE Resolve(Host)
  BY <1>8 DEF Resolve, agentVars, Leaves, Listed
<1> QED BY <1>1, <1>2, <1>3, <1>4, <1>5, <1>6, <1>7, <1>8 DEF Agent, AgentStep

\* The line chpc acts on names a check, which was opted in if it resumes.
LineOK ==
    /\ daemonPc \in Daemon!AfterCheck => specs[pos] \in Keys
    /\ daemonPc = "resume" => Daemon!OptedIn(specs[pos])

\* It stays so through a cycle.
LEMMA LineStep == LineOK /\ Daemon!CycleStep => LineOK'
BY DEF LineOK, Daemon!CycleStep, Daemon!AfterCheck, Daemon!AtLine, Daemon!Key, Daemon!OptedIn,
       Daemon!AskResourceManager, Daemon!Ask, Daemon!ReadActiveDrains, Daemon!Reconcile,
       Daemon!LoadSpecs, Daemon!Load, Daemon!SkipUnknownCheck, Daemon!RunCheck,
       Daemon!RecordResult, Daemon!DecideResume, Daemon!MustResume, Daemon!DecideDrain,
       Daemon!DecideNothing, Daemon!BackendResume, Daemon!ResumeEnds, Daemon!ClearResumed,
       Daemon!BackendDrain, Daemon!DrainEnds, Daemon!BookDrain, Daemon!Goto, Daemon!NextLine,
       Daemon!StartLine, Daemon!EndCycle

\* chpc drains the node on account of a check, or resumes it on account of an
\* opted-in one.
DrainsFor(k) == node' = [up |-> FALSE, by |-> k]
ResumesFor(k) == Daemon!OptedIn(k) /\ node' = [up |-> TRUE, by |-> k]

LEMMA DaemonEffect ==
    ASSUME LineOK, Daemon!CycleStep
    PROVE  node' = node \/ \E k \in Keys : DrainsFor(k) \/ ResumesFor(k)
<1>1. CASE Daemon!BackendResume
  <2>1. PICK outcome \in Daemon!Outcomes : Daemon!ResumeEnds(outcome)
    BY <1>1 DEF Daemon!BackendResume
  <2>2. daemonPc = "resume" /\ Daemon!ResumeNode(specs[pos], outcome)
    BY <2>1 DEF Daemon!ResumeEnds, Daemon!Key
  <2>3. node' = node \/ node' = [up |-> TRUE, by |-> specs[pos]]
    BY <2>2, Zenon DEF Daemon!ResumeNode
  <2> QED BY <2>2, <2>3 DEF LineOK, Daemon!AfterCheck, Daemon!AtLine, ResumesFor
<1>2. CASE Daemon!BackendDrain
  <2>1. PICK outcome \in Daemon!Outcomes : Daemon!DrainEnds(outcome)
    BY <1>2 DEF Daemon!BackendDrain
  <2>2. daemonPc = "drain" /\ Daemon!DrainNode(specs[pos], outcome)
    BY <2>1 DEF Daemon!DrainEnds, Daemon!Goto, Daemon!Key
  <2>3. node' = node \/ node' = [up |-> FALSE, by |-> specs[pos]]
    BY <2>2, Zenon DEF Daemon!DrainNode
  <2> QED BY <2>2, <2>3 DEF LineOK, Daemon!AfterCheck, Daemon!AtLine, DrainsFor
<1>3. CASE ~Daemon!BackendResume /\ ~Daemon!BackendDrain
  BY <1>3 DEF Daemon!CycleStep, Daemon!AskResourceManager, Daemon!Ask,
       Daemon!ReadActiveDrains, Daemon!Reconcile, Daemon!LoadSpecs, Daemon!Load,
       Daemon!SkipUnknownCheck, Daemon!RunCheck, Daemon!RecordResult, Daemon!DecideResume,
       Daemon!DecideDrain, Daemon!DecideNothing, Daemon!ClearResumed, Daemon!BookDrain
<1> QED BY <1>1, <1>2, <1>3

-----------------------------------------------------------------------------
(* The inductive invariant: what the two views, the agent's listing and    *)
(* the histories say of one another.                                       *)

NodeOK == node \in [up : BOOLEAN, by : Keys \cup {Human}] /\ moves \in Nat

\* The two views are of one node.
OneNode ==
    /\ node.up = rm[Host].up
    /\ DrainedByChpc => rm[Host] = OutFor(CategoryOf[node.by])

\* What the agent has listed of a drain by chpc, or of its own note.
ListingOK ==
    Host \in todo =>
        /\ drainListed /\ DrainedByChpc => seen[Host] = CategoryOf[node.by]
        /\ rm[Host].note => seen[Host] = Fine
        /\ forced => seen[Host] = Fine \/ \E k \in Keys : seen[Host] = CategoryOf[k]

\* A node forced out carries the note, unless chpc has drained it since.
ForcedOK ==
    /\ rm[Host].note => forced
    /\ forced => ~node.up /\ (rm[Host].note \/ DrainedByChpc)

SharedInv == NodeOK /\ OneNode /\ ListingOK /\ ForcedOK
ClusterInv == TypeOK /\ LineOK /\ SharedInv

\* A reason chpc has written is one of the agent's categories.
LEMMA SeenByAgentType ==
    ASSUME NEW state \in [up : BOOLEAN, by : Keys]
    PROVE  /\ SeenByAgent(state) \in RmStates
           /\ SeenByAgent(state).up = state.up /\ ~SeenByAgent(state).note
           /\ ~state.up => SeenByAgent(state) = OutFor(CategoryOf[state.by])
BY CategoryOfAssumption DEF SeenByAgent, RmStates, InService, OutFor

\* chpc's steps keep the types of the agent's variables.
LEMMA DaemonStepType == TypeOK /\ LineOK /\ DaemonStep => TypeOK'
<1> SUFFICES ASSUME TypeOK, LineOK, DaemonStep PROVE TypeOK'
  OBVIOUS
<1>1. RmTypeOK'
  <2>1. CASE node' = node
    BY <2>1 DEF DaemonStep, TypeOK, AgentTypeOK, RmTypeOK
  <2>2. CASE node' # node
    <3>1. PICK k \in Keys : DrainsFor(k) \/ ResumesFor(k)
      BY <2>2, DaemonEffect DEF DaemonStep
    <3>2. SeenByAgent(node') \in RmStates
      BY <3>1, SeenByAgentType DEF DrainsFor, ResumesFor
    <3>3. rm' = [rm EXCEPT ![Host] = SeenByAgent(node')]
      BY <2>2 DEF DaemonStep
    <3> QED BY <3>2, <3>3, HostAssumption DEF TypeOK, AgentTypeOK, RmTypeOK
  <2> QED BY <2>1, <2>2
<1> QED BY <1>1 DEF DaemonStep, TypeOK, AgentTypeOK, HistoryTypeOK, agentVars

LEMMA DaemonStepShared == ClusterInv /\ DaemonStep => SharedInv'
<1> SUFFICES ASSUME ClusterInv, DaemonStep PROVE SharedInv'
  OBVIOUS
<1>t. rm \in [Nodes -> RmStates]
  BY DEF ClusterInv, TypeOK, AgentTypeOK, RmTypeOK
<1>u. todo' = todo /\ seen' = seen /\ moves' = moves
  BY DEF DaemonStep, agentVars
<1>1. CASE node' = node
  BY <1>1, <1>u DEF ClusterInv, SharedInv, DaemonStep, NotListed, NodeOK, OneNode, ListingOK,
                    ForcedOK, DrainedByChpc
<1>2. CASE node' # node
  <2>1. PICK k \in Keys : DrainsFor(k) \/ ResumesFor(k)
    BY <1>2, DaemonEffect DEF DaemonStep, ClusterInv
  <2>2. node' \in [up : BOOLEAN, by : Keys] /\ node'.by = k
    <3>1. node' = [up |-> FALSE, by |-> k] \/ node' = [up |-> TRUE, by |-> k]
      BY <2>1 DEF DrainsFor, ResumesFor
    <3>2. /\ [up |-> FALSE, by |-> k] \in [up : BOOLEAN, by : Keys]
          /\ [up |-> TRUE, by |-> k] \in [up : BOOLEAN, by : Keys]
      OBVIOUS
    <3>3. node' \in [up : BOOLEAN, by : Keys]
      BY <3>1, <3>2
    <3>4. node'.by = k
      BY <3>1
    <3> QED BY <3>3, <3>4
  <2>3. rm'[Host] = SeenByAgent(node')
    BY <1>2, <1>t, HostAssumption DEF DaemonStep
  <2>4. NodeOK' /\ OneNode'
    BY <1>u, <2>2, <2>3, SeenByAgentType DEF ClusterInv, SharedInv, NodeOK, OneNode, DrainedByChpc
  <2>5. ~drainListed' /\ forced' = (forced /\ ~node'.up) /\ ~rm'[Host].note
    BY <1>2, <2>2, <2>3, SeenByAgentType DEF DaemonStep, NotListed
  <2>6. ListingOK'
    BY <1>u, <2>5 DEF ClusterInv, SharedInv, ListingOK
  <2>7. ForcedOK'
    BY <2>2, <2>5 DEF ForcedOK, DrainedByChpc
  <2> QED BY <2>4, <2>6, <2>7 DEF SharedInv
<1> QED BY <1>1, <1>2

\* What of the agent's steps reaches chpc's node.
LEMMA AgentSeen ==
    ASSUME ClusterInv, rm' \in [Nodes -> RmStates], SeenByChpc
    PROVE  /\ node' \in [up : BOOLEAN, by : Keys \cup {Human}] /\ OneNode'
           /\ rm'[Host] = rm[Host] => node' = node
           /\ rm'[Host] # rm[Host] => node'.by = Human /\ node'.up = rm'[Host].up
<1>1. rm'[Host].up \in BOOLEAN
  <2>1. rm'[Host] \in RmStates
    BY HostAssumption
  <2>2. \A state \in RmStates : state.up = FALSE \/ state.up = TRUE
    BY DEF RmStates, InService, OutFor, ForcedOutFor
  <2> QED BY <2>1, <2>2
<1>2. CASE rm'[Host] = rm[Host]
  BY <1>2 DEF SeenByChpc, ClusterInv, SharedInv, NodeOK, OneNode, DrainedByChpc
<1>3. CASE rm'[Host] # rm[Host]
  BY <1>1, <1>3, HumanAssumption DEF SeenByChpc, OneNode, DrainedByChpc
<1> QED BY <1>2, <1>3

LEMMA AgentActType == TypeOK /\ AgentAct => TypeOK'
<1> SUFFICES ASSUME TypeOK, AgentAct PROVE TypeOK'
  OBVIOUS
<1>1. CASE Agent
  BY <1>1, AgentStepType DEF Agent, TypeOK
<1>2. CASE Crash \/ Resolve(Host)
  BY <1>2, OthersType, HostAssumption
<1> QED BY <1>1, <1>2 DEF AgentAct

LEMMA AgentActShared == ClusterInv /\ AgentAct => SharedInv'
<1> SUFFICES ASSUME ClusterInv, AgentAct PROVE SharedInv'
  OBVIOUS
<1>t. /\ rm \in [Nodes -> RmStates] /\ rm' \in [Nodes -> RmStates]
      /\ seen \in [Nodes -> Readings] /\ Host \in Nodes
  BY AgentActType, HostAssumption DEF ClusterInv, TypeOK, AgentTypeOK, RmTypeOK
<1>e. Lists \/ Leaves \/ ForcesOut \/ PutsBack
  BY AgentEffect DEF AgentAct, ClusterInv
<1>n. /\ node' \in [up : BOOLEAN, by : Keys \cup {Human}] /\ OneNode'
      /\ rm'[Host] = rm[Host] => node' = node
      /\ rm'[Host] # rm[Host] => node'.by = Human /\ node'.up = rm'[Host].up
  BY <1>t, AgentSeen DEF AgentAct
<1>m. moves' = moves /\ forced' = (~node'.up /\ (forced \/ rm'[Host].note))
  BY DEF AgentAct
<1>1. NodeOK' /\ OneNode'
  BY <1>n, <1>m DEF ClusterInv, SharedInv, NodeOK
<1>2. ListingOK' /\ ForcedOK'
  <2>1. CASE Lists
    <3>1. rm' = rm /\ node' = node /\ seen'[Host] = Read(Host)
      BY <2>1, <1>n, <1>t DEF Lists
    <3>2. drainListed' = DrainedByChpc
      BY <2>1 DEF Lists, AgentAct
    <3>3. ForcedOK'
      BY <3>1, <1>m DEF ClusterInv, SharedInv, ForcedOK, DrainedByChpc
    <3>4. DrainedByChpc => Read(Host) = CategoryOf[node.by] /\ node.by \in Keys
      BY DEF ClusterInv, SharedInv, OneNode, OutFor, Read, DrainedByChpc
    <3>5. rm[Host].note => Read(Host) = Fine
      BY DEF Read
    <3>6. DrainedByChpc' = DrainedByChpc
      BY <3>1 DEF DrainedByChpc
    <3>7. forced' => rm[Host].note \/ DrainedByChpc
      BY <3>1, <3>3, <3>6 DEF ForcedOK
    <3> QED BY <3>1, <3>2, <3>3, <3>4, <3>5, <3>6, <3>7 DEF ListingOK
  <2>2. CASE Leaves
    <3>1. rm' = rm /\ node' = node /\ seen' = seen /\ todo' \subseteq todo
      BY <2>2, <1>n DEF Leaves
    <3>2. (drainListed' => drainListed) /\ (forced' <=> forced)
      <4>1. drainListed' => drainListed
        BY <2>2 DEF Leaves, Listed, AgentAct
      <4>2. forced' <=> forced
        BY <3>1, <1>m DEF ClusterInv, SharedInv, ForcedOK
      <4> QED BY <4>1, <4>2
    <3> QED BY <3>1, <3>2 DEF ClusterInv, SharedInv, ListingOK, ForcedOK, DrainedByChpc
  <2>3. CASE (ForcesOut \/ PutsBack) /\ cur # Host
    <3>1. rm'[Host] = rm[Host] /\ node' = node /\ seen' = seen /\ todo' \subseteq todo
      BY <2>3, <1>n, <1>t DEF ForcesOut, PutsBack
    <3>2. (drainListed' => drainListed) /\ (forced' <=> forced)
      <4>1. drainListed' => drainListed
        BY <2>3 DEF ForcesOut, PutsBack, Listed, AgentAct
      <4>2. forced' <=> forced
        BY <3>1, <1>m DEF ClusterInv, SharedInv, ForcedOK
      <4> QED BY <4>1, <4>2
    <3> QED BY <3>1, <3>2 DEF ClusterInv, SharedInv, ListingOK, ForcedOK, DrainedByChpc
  <2>4. CASE ForcesOut /\ cur = Host
    <3>1. Host \notin todo' /\ rm'[Host] = ForcedOutFor(seen[Host])
      BY <2>4, <1>t DEF ForcesOut
    <3>2. rm'[Host].note /\ ~rm'[Host].up
      BY <3>1 DEF ForcedOutFor
    <3>3. ~node'.up
      BY <3>2, <1>1 DEF OneNode
    <3> QED BY <3>1, <3>2, <3>3, <1>m DEF ListingOK, ForcedOK
  <2>5. CASE PutsBack /\ cur = Host
    <3>1. Host \notin todo' /\ rm'[Host] = InService
      BY <2>5, <1>t DEF PutsBack
    <3>2. ~rm'[Host].note /\ rm'[Host].up
      BY <3>1 DEF InService
    <3>3. node'.up
      BY <3>2, <1>1 DEF OneNode
    <3> QED BY <3>1, <3>2, <3>3, <1>m DEF ListingOK, ForcedOK
  <2> QED BY <1>e, <2>1, <2>2, <2>3, <2>4, <2>5
<1> QED BY <1>1, <1>2 DEF SharedInv

LEMMA OthersMoveInv == ClusterInv /\ OthersMove => TypeOK' /\ SharedInv'
<1> SUFFICES ASSUME ClusterInv, OthersMove PROVE TypeOK' /\ SharedInv'
  OBVIOUS
<1>1. PICK n \in Nodes : Move(n)
  BY DEF OthersMove
<1>2. TypeOK'
  BY <1>1, OthersType DEF ClusterInv
<1>t. /\ rm \in [Nodes -> RmStates] /\ rm' \in [Nodes -> RmStates] /\ Host \in Nodes
  BY <1>2, HostAssumption DEF ClusterInv, TypeOK, AgentTypeOK, RmTypeOK
<1>n. /\ node' \in [up : BOOLEAN, by : Keys \cup {Human}] /\ OneNode'
      /\ rm'[Host] = rm[Host] => node' = node
      /\ rm'[Host] # rm[Host] => node'.by = Human /\ node'.up = rm'[Host].up
  BY <1>t, AgentSeen DEF OthersMove
<1>m. /\ moves' = moves + 1 /\ forced' = (forced /\ rm'[Host] = rm[Host])
      /\ drainListed' = (drainListed /\ node' = node) /\ todo' = todo /\ seen' = seen
  BY <1>1 DEF OthersMove, NotListed, Move, agentVars
<1>3. NodeOK' /\ OneNode'
  BY <1>n, <1>m DEF ClusterInv, SharedInv, NodeOK
<1>4. rm'[Host] # rm[Host] => ~rm'[Host].note
  BY <1>1, <1>t DEF Move, InService, OutFor
<1>5. CASE rm'[Host] = rm[Host]
  <2>1. node' = node /\ (forced' <=> forced) /\ (drainListed' => drainListed)
    BY <1>5, <1>n, <1>m
  <2> QED BY <1>2, <1>5, <1>m, <1>3, <2>1 DEF ClusterInv, SharedInv, ListingOK, ForcedOK, DrainedByChpc
<1>6. CASE rm'[Host] # rm[Host]
  <2>1. ~DrainedByChpc' /\ ~forced'
    BY <1>6, <1>n, <1>m, HumanAssumption DEF DrainedByChpc
  <2> QED BY <1>2, <1>6, <1>m, <1>3, <1>4, <2>1 DEF SharedInv, ListingOK, ForcedOK
<1> QED BY <1>2, <1>5, <1>6 DEF SharedInv, ClusterInv

LEMMA ClusterInvInit == ClusterInit => ClusterInv
<1> SUFFICES ASSUME ClusterInit PROVE ClusterInv
  OBVIOUS
<1>1. TypeOK
  <2>1. rm \in [Nodes -> RmStates]
    BY DEF ClusterInit, Init, AgentInit, RmInit, RmStates
  <2> QED BY <2>1, CrashesAssumption
     DEF ClusterInit, Init, AgentInit, HistoryInit, TypeOK, AgentTypeOK, RmTypeOK, HistoryTypeOK,
         Readings
<1>2. LineOK
  BY DEF ClusterInit, Daemon!CycleInit, LineOK, Daemon!AfterCheck, Daemon!AtLine
<1>3. rm[Host] = InService /\ node = [up |-> TRUE, by |-> Human] /\ todo = {} /\ ~forced
      /\ moves = 0
  BY HostAssumption DEF ClusterInit, Init, AgentInit, RmInit, Daemon!CycleInit, Daemon!NodeInit
<1> QED BY <1>1, <1>2, <1>3 DEF ClusterInv, SharedInv, NodeOK, OneNode, ListingOK, ForcedOK,
             DrainedByChpc, InService

LEMMA ClusterInvStep == ClusterInv /\ [ClusterNext]_clusterVars => ClusterInv'
<1> SUFFICES ASSUME ClusterInv, [ClusterNext]_clusterVars PROVE ClusterInv'
  OBVIOUS
<1>1. CASE DaemonStep
  BY <1>1, DaemonStepType, DaemonStepShared, LineStep DEF DaemonStep, ClusterInv
<1>2. CASE DaemonCrash
  <2>1. LineOK'
    BY <1>2 DEF DaemonCrash, Daemon!Abort, Daemon!EndCycle, LineOK, Daemon!AfterCheck, Daemon!AtLine
  <2>2. TypeOK'
    BY <1>2, CrashesAssumption DEF DaemonCrash, ClusterInv, TypeOK, AgentTypeOK, RmTypeOK,
                                   HistoryTypeOK, agentVars
  <2>3. SharedInv'
    BY <1>2 DEF DaemonCrash, Daemon!Abort, agentVars, ClusterInv, SharedInv, NodeOK, OneNode,
                ListingOK, ForcedOK, DrainedByChpc
  <2> QED BY <2>1, <2>2, <2>3 DEF ClusterInv
<1>3. CASE AgentAct
  <2>1. LineOK'
    BY <1>3 DEF AgentAct, daemonVars, ClusterInv, LineOK, Daemon!OptedIn
  <2> QED BY <1>3, <2>1, AgentActType, AgentActShared DEF ClusterInv
<1>4. CASE OthersMove
  <2>1. LineOK'
    BY <1>4 DEF OthersMove, daemonVars, ClusterInv, LineOK, Daemon!OptedIn
  <2> QED BY <1>4, <2>1, OthersMoveInv DEF ClusterInv
<1>5. CASE UNCHANGED clusterVars
  BY <1>5 DEF clusterVars, daemonVars, vars, agentVars, ClusterInv, TypeOK, AgentTypeOK, RmTypeOK,
              HistoryTypeOK, LineOK, Daemon!OptedIn, SharedInv, NodeOK, OneNode, ListingOK,
              ForcedOK, DrainedByChpc
<1> QED BY <1>1, <1>2, <1>3, <1>4, <1>5 DEF ClusterNext

-----------------------------------------------------------------------------
\* A step that puts the node back comes from an opted-in check, from an
\* administrator, or from the agent that handles it for a reason it heals.
LEMMA ComesBack ==
    ASSUME ClusterInv, [ClusterNext]_clusterVars, ~node.up, node'.up
    PROVE  \/ moves' # moves
           \/ \E k \in Keys : ResumesFor(k)
           \/ Host \in todo /\ seen[Host] \in AutoFixable
<1>1. CASE DaemonStep
  BY <1>1, DaemonEffect DEF DaemonStep, ClusterInv, DrainsFor
<1>2. CASE AgentAct
  <2>t. rm \in [Nodes -> RmStates] /\ Host \in Nodes
    BY HostAssumption DEF ClusterInv, TypeOK, AgentTypeOK, RmTypeOK
  <2>1. ~rm[Host].up /\ rm'[Host].up
    BY <1>2, AgentActShared DEF ClusterInv, SharedInv, OneNode
  <2>2. Lists \/ Leaves \/ ForcesOut \/ PutsBack
    BY <1>2, AgentEffect DEF AgentAct, ClusterInv
  <2>3. PutsBack /\ cur = Host
    BY <2>t, <2>1, <2>2 DEF Lists, Leaves, ForcesOut, PutsBack, ForcedOutFor
  <2> QED BY <2>3 DEF PutsBack
<1>3. CASE OthersMove
  BY <1>3 DEF OthersMove, ClusterInv, SharedInv, NodeOK
<1>4. CASE DaemonCrash \/ UNCHANGED clusterVars
  BY <1>4 DEF DaemonCrash, Daemon!Abort, clusterVars
<1> QED BY <1>1, <1>2, <1>3, <1>4 DEF ClusterNext

\* A drain by chpc that the agent has listed ends by the agent's hand only for
\* a reason the agent heals, in any interleaving of the two and of anybody else.
THEOREM DrainsStand == ClusterSpec => ListedDrainStands
<1>1. ASSUME ClusterInv, [ClusterNext]_clusterVars
      PROVE  [DrainedByChpc /\ drainListed /\ node'.up /\ node'.by = Human
              => moves' # moves \/ CategoryOf[node.by] \in AutoFixable]_clusterVars
  <2> SUFFICES ASSUME DrainedByChpc, drainListed, node'.up, node'.by = Human, moves' = moves
               PROVE  CategoryOf[node.by] \in AutoFixable
    OBVIOUS
  <2>1. ~\E k \in Keys : ResumesFor(k)
    BY HumanAssumption DEF ResumesFor
  <2>2. Host \in todo /\ seen[Host] \in AutoFixable
    BY <1>1, <2>1, ComesBack DEF DrainedByChpc
  <2> QED BY <1>1, <2>2 DEF ClusterInv, SharedInv, ListingOK
<1> QED BY <1>1, ClusterInvInit, ClusterInvStep, PTL DEF ClusterSpec, ListedDrainStands

\* A node the agent has forced out comes back only by a human's hand, on
\* account of an opted-in check, or after chpc has drained it over the note and
\* some check's reason is one the agent heals.
THEOREM ForcedOutStaysOut == ClusterSpec => ForcedOutStays
<1>1. ASSUME ClusterInv, [ClusterNext]_clusterVars
      PROVE  [forced /\ node'.up
              => \/ moves' # moves
                 \/ \E k \in Keys : node' = [up |-> TRUE, by |-> k] /\ Daemon!OptedIn(k)
                 \/ DrainedByChpc /\ \E k \in Keys : CategoryOf[k] \in AutoFixable]_clusterVars
  <2> SUFFICES ASSUME forced, node'.up, moves' = moves, ~\E k \in Keys : ResumesFor(k)
               PROVE  DrainedByChpc /\ \E k \in Keys : CategoryOf[k] \in AutoFixable
    BY DEF ResumesFor
  <2>1. ~node.up /\ (rm[Host].note \/ DrainedByChpc)
    BY <1>1 DEF ClusterInv, SharedInv, ForcedOK
  <2>2. Host \in todo /\ seen[Host] \in AutoFixable
    BY <1>1, <2>1, ComesBack
  <2>3. seen[Host] # Fine
    BY <2>2, CategoriesAssumption, FineAssumption
  <2> QED BY <1>1, <2>1, <2>2, <2>3 DEF ClusterInv, SharedInv, ListingOK
<1> QED BY <1>1, ClusterInvInit, ClusterInvStep, PTL DEF ClusterSpec, ForcedOutStays

=============================================================================
