----------------------------- MODULE FeedsProofs -----------------------------
(***************************************************************************)
(* Proofs about Feeds, for every set of runs and of Windows versions and   *)
(* any number of updates, kills and failed writes.                         *)
(***************************************************************************)
EXTENDS Feeds, TLAPS

\* The orders of saving, and what is left of one after its first feed.
LEMMA OrderTails ==
    ASSUME NEW order \in Orders, order # <<>>
    PROVE  /\ Tail(order) \in Orders /\ Head(order) \in Systems
           /\ Tail(order) # <<>> <=> Len(order) > 1
<1>1. CASE order = OvalOrder
  BY <1>1 DEF Orders, OvalOrder, Systems, Oval
<1>2. CASE order = Tail(OvalOrder)
  BY <1>2 DEF Orders, OvalOrder, CsvOrders, Systems, Oval
<1>3. ASSUME NEW s \in Csv, order = <<s>>
      PROVE  /\ Tail(order) \in Orders /\ Head(order) \in Systems
             /\ Tail(order) # <<>> <=> Len(order) > 1
  BY <1>3 DEF Orders, CsvOrders, Systems
<1>4. ASSUME NEW s \in Csv, NEW t \in Csv, order = <<s, t>>
      PROVE  /\ Tail(order) \in Orders /\ Head(order) \in Systems
             /\ Tail(order) # <<>> <=> Len(order) > 1
  <2>1. Tail(order) = <<t>> /\ Head(order) = s /\ Len(order) = 2
    BY <1>4
  <2> QED BY <2>1 DEF Orders, CsvOrders, Systems
<1>5. order \in {o \in Csv \X Csv : o[1] # o[2]} => \E s, t \in Csv : order = <<s, t>>
  OBVIOUS
<1> QED BY <1>1, <1>2, <1>3, <1>4, <1>5 DEF Orders, CsvOrders

Places == {"idle", "prompt", "ask", "save", "fill", "confirm", "info", "load", "raised", "failed"}

\* A run that moves within its places, to one where it need not save.
LEMMA GotoType ==
    ASSUME pc \in [Runs -> Places], NEW r \in Runs, NEW place \in Places, Goto(r, place)
    PROVE  /\ pc' \in [Runs -> Places]
           /\ pc'[r] = place
           /\ \A q \in Runs : q # r => pc'[q] = pc[q]
BY DEF Goto

\* The types, without those that relate a run's place and what it has to do.
Shape ==
    /\ StoreTypeOK
    /\ command \in [Runs -> {"scan", "update", "import"}]
    /\ system \in [Runs -> Systems]
    /\ number \in [Runs -> 0..MaxUpdates]
    /\ told \in [Runs -> 0..MaxUpdates]
    /\ waiting \in BOOLEAN
    /\ accidents \in 0..MaxAccidents

Busy == {"save", "fill", "confirm"}

WorkOK ==
    /\ pc \in [Runs -> Places]
    /\ todo \in [Runs -> Orders]
    /\ \A r \in Runs : pc[r] \in Busy => todo[r] # <<>> /\ number[r] # 0

\* TypeOK in two parts, which steps disturb separately.
LEMMA TypeParts == TypeOK <=> Shape /\ WorkOK
BY DEF TypeOK, Shape, WorkOK, Places, Busy

\* A run that goes elsewhere, with the same feeds to save.
LEMMA GotoWork ==
    ASSUME WorkOK, NEW r \in Runs, NEW place \in Places, Goto(r, place), UNCHANGED <<todo, number>>,
           place \in Busy => pc[r] \in Busy
    PROVE  WorkOK'
BY GotoType DEF WorkOK

\* A run that goes on after the prompt has nothing to save.
LEMMA ProceedWork ==
    ASSUME WorkOK, NEW r \in Runs, Proceed(r), UNCHANGED <<todo, number>>
    PROVE  WorkOK'
BY GotoWork DEF Proceed, Places, Busy

\* Nor has one that raises.
LEMMA RaiseWork ==
    ASSUME WorkOK, NEW r \in Runs, Raise(r), UNCHANGED <<todo, number>>
    PROVE  WorkOK'
BY GotoWork DEF Raise, Places, Busy

\* Setting out on an update keeps the types.
LEMMA BeginType ==
    ASSUME Shape, WorkOK, NEW r \in Runs, NEW order \in Orders, Begin(r, order),
           NEW place \in Places, Goto(r, place), place \in Busy => order # <<>>,
           command' \in [Runs -> {"scan", "update", "import"}],
           system' \in [Runs -> Systems], told' \in [Runs -> 0..MaxUpdates]
    PROVE  Shape' /\ WorkOK'
<1>1. updates' \in 0..MaxUpdates /\ files' = files
  BY StoreAssumption DEF Begin, Shape, StoreTypeOK
<1>2. number' \in [Runs -> 0..MaxUpdates] /\ number'[r] # 0 /\ todo'[r] = order
  BY <1>1, StoreAssumption DEF Begin, Shape, WorkOK, StoreTypeOK
<1>3. WorkOK'
  BY <1>2, GotoType DEF WorkOK, Begin
<1> QED BY <1>1, <1>2, <1>3 DEF Begin, Shape, StoreTypeOK

\* Every step of a run preserves the types.
LEMMA StepType ==
    ASSUME TypeOK, NEW r \in Runs, Step(r)
    PROVE  TypeOK'
<1>t. Shape /\ WorkOK
  BY TypeParts
<1>q. Shape' /\ WorkOK' => TypeOK'
  BY TypeParts, PTL
<1>u. ASSUME UNCHANGED <<storeVars, runVars, waiting, accidents>>
      PROVE  Shape'
  BY <1>t, <1>u DEF Shape, StoreTypeOK, storeVars, runVars
<1>0. 0 \in 0..MaxUpdates
  BY StoreAssumption
<1>1. ASSUME NEW c \in {"scan", "update"}, NEW s \in Systems, Start(r, c, s)
      PROVE  TypeOK'
  <2>1. Shape'
    BY <1>t, <1>0, <1>1 DEF Start, Shape, StoreTypeOK, storeVars
  <2>2. WorkOK'
    BY <1>t, <1>1, GotoWork DEF Start, Places, Busy, runVars
  <2> QED BY <1>q, <2>1, <2>2
<1>2. CASE Prompt(r)
  <2>1. WorkOK'
    BY <1>t, <1>2, GotoWork, ProceedWork, RaiseWork DEF Prompt, Places, Busy, runVars
  <2> QED BY <1>2, <1>q, <1>u, <2>1 DEF Prompt
<1>3. CASE Decline(r)
  BY <1>t, <1>3, <1>q, <1>u, ProceedWork DEF Decline, runVars
<1>4. CASE BadSource(r)
  BY <1>t, <1>4, <1>q, <1>u, RaiseWork DEF BadSource, runVars
<1>5. CASE Accept(r)
  <2>1. PICK order \in Orders :
            /\ Begin(r, order)
            /\ IF order = <<>> THEN Proceed(r) ELSE Goto(r, "save")
    BY <1>5 DEF Accept, Orders
  <2>2. PICK place \in Places : Goto(r, place) /\ (place \in Busy => order # <<>>)
    BY <2>1, Zenon DEF Proceed, Places, Busy
  <2>3. UNCHANGED <<command, system, told>>
    BY <1>5 DEF Accept
  <2> QED BY <1>t, <1>q, <2>1, <2>2, <2>3, BeginType DEF Shape
<1>6. CASE Import(r)
  <2>1. PICK order \in Orders : /\ order # <<>> /\ Begin(r, order)
                                /\ system' = [system EXCEPT ![r] = Head(order)]
    BY <1>6 DEF Import, Orders
  <2>2. Head(order) \in Systems /\ "save" \in Places
    BY <2>1, OrderTails DEF Places
  <2>3. system' \in [Runs -> Systems]
    BY <1>t, <2>1, <2>2 DEF Shape
  <2>4. /\ command' \in [Runs -> {"scan", "update", "import"}]
        /\ told' \in [Runs -> 0..MaxUpdates]
    BY <1>t, <1>0, <1>6 DEF Import, Shape
  <2>5. Goto(r, "save")
    BY <1>6 DEF Import
  <2> QED BY <1>t, <1>q, <2>1, <2>2, <2>3, <2>4, <2>5, BeginType
<1>7. CASE OpenFeed(r)
  <2>1. WorkOK'
    BY <1>t, <1>7, GotoWork DEF OpenFeed, Places, Busy, runVars
  <2>2. files' \in [Systems -> Contents]
    BY <1>t, <1>7 DEF OpenFeed, Truncate, Shape, StoreTypeOK, Contents
  <2> QED BY <1>t, <1>7, <1>q, <2>1, <2>2 DEF OpenFeed, Shape, StoreTypeOK, runVars
<1>8. CASE FillFeed(r)
  <2>1. todo[r] # <<>> /\ todo[r] \in Orders
    BY <1>t, <1>8 DEF FillFeed, WorkOK, Busy
  <2>2. WorkOK'
    <3>1. CASE Head(todo[r]) \in Oval /\ Len(todo[r]) > 1
      <4>1. Tail(todo[r]) \in Orders /\ Tail(todo[r]) # <<>>
        BY <2>1, <3>1, OrderTails
      <4>2. Goto(r, "save") /\ todo' = [todo EXCEPT ![r] = Tail(@)]
        BY <1>8, <3>1 DEF FillFeed
      <4>3. number' = number /\ pc[r] \in Busy /\ "save" \in Places
        BY <1>8 DEF FillFeed, runVars, Busy, Places
      <4>4. pc' \in [Runs -> Places] /\ \A q \in Runs : q # r => pc'[q] = pc[q]
        BY <1>t, <4>2, <4>3, GotoType DEF WorkOK
      <4> QED BY <1>t, <4>1, <4>2, <4>3, <4>4 DEF WorkOK
    <3>2. CASE ~(Head(todo[r]) \in Oval /\ Len(todo[r]) > 1)
      BY <1>t, <1>8, <3>2, GotoWork DEF FillFeed, Places, Busy, runVars
    <3> QED BY <3>1, <3>2
  <2>3. files' \in [Systems -> Contents]
    <3>1. number[r] \in 1..MaxUpdates
      BY <1>t, <1>8, StoreAssumption DEF FillFeed, Shape, WorkOK, Busy
    <3> QED BY <1>t, <1>8, <3>1 DEF FillFeed, Fill, Shape, StoreTypeOK, Contents, Feed
  <2> QED BY <1>t, <1>8, <1>q, <2>2, <2>3 DEF FillFeed, Shape, StoreTypeOK, runVars
<1>9. CASE Confirm(r)
  <2>1. todo[r] # <<>> /\ todo[r] \in Orders /\ number[r] # 0
    BY <1>t, <1>9 DEF Confirm, WorkOK, Busy
  <2>2. Tail(todo[r]) \in Orders /\ Head(todo[r]) \in Systems
    BY <2>1, OrderTails
  <2>3. PICK place \in Places : Goto(r, place) /\ (place \in Busy => Tail(todo[r]) # <<>>)
    BY <1>9, Zenon DEF Confirm, Proceed, Raise, Places, Busy
  <2>4. WorkOK'
    BY <1>t, <1>9, <2>1, <2>2, <2>3, GotoType DEF Confirm, WorkOK
  <2>5. told' \in [Runs -> 0..MaxUpdates]
    <3>1. Confirmed(r) \in Systems
      BY <2>2 DEF Confirmed, Systems, Oval
    <3>2. files[Confirmed(r)].update \in 0..MaxUpdates
      <4>1. files[Confirmed(r)] \in Contents
        BY <1>t, <3>1 DEF Shape, StoreTypeOK
      <4> QED BY <4>1, <1>0 DEF Contents, Missing, Torn
    <3>3. told' = [told EXCEPT ![r] = files[Confirmed(r)].update] \/ told' = told
      BY <1>9 DEF Confirm
    <3> QED BY <1>t, <3>2, <3>3 DEF Shape
  <2> QED BY <1>t, <1>9, <1>q, <2>4, <2>5 DEF Confirm, Shape, StoreTypeOK, storeVars
<1>10. CASE Info(r)
  BY <1>t, <1>10, <1>q, <1>u, GotoWork DEF Info, Places, Busy, runVars
<1>11. CASE Load(r)
  BY <1>t, <1>11, <1>q, <1>u, GotoWork DEF Load, Places, Busy, runVars
<1>12. CASE Exit(r)
  BY <1>t, <1>12, <1>q, <1>u, GotoWork DEF Exit, Places, Busy, runVars
<1> QED BY <1>1, <1>2, <1>3, <1>4, <1>5, <1>6, <1>7, <1>8, <1>9, <1>10, <1>11, <1>12 DEF Step

\* So does everything else.
LEMMA OthersType ==
    ASSUME TypeOK, [Next]_vars, \A r \in Runs : ~Step(r)
    PROVE  TypeOK'
<1>t. Shape /\ WorkOK
  BY TypeParts
<1>q. Shape' /\ WorkOK' => TypeOK'
  BY TypeParts, PTL
<1>a. Accident => accidents' \in 0..MaxAccidents
  BY <1>t, FeedsAssumption DEF Accident, Shape
<1>1. ASSUME NEW r \in Runs, Kill(r) \/ WriteFails(r)
      PROVE  TypeOK'
  <2>1. WorkOK'
    BY <1>t, <1>1, GotoWork, RaiseWork DEF Kill, WriteFails, Places, Busy, runVars
  <2> QED BY <1>t, <1>1, <1>q, <1>a, <2>1
       DEF Kill, WriteFails, Shape, StoreTypeOK, storeVars, runVars
<1>2. CASE MoveExport
  BY <1>t, <1>2, <1>q DEF MoveExport, Shape, StoreTypeOK, WorkOK, storeVars, runVars
<1>3. ASSUME NEW s \in Systems, Age(s)
      PROVE  TypeOK'
  <2>1. files[s] \in Contents /\ files[s].state = "complete"
    BY <1>t, <1>3 DEF Age, Expire, Shape, StoreTypeOK
  <2>2. files[s] \in [update : 1..MaxUpdates, stale : BOOLEAN, state : {"complete"}]
    BY <2>1 DEF Contents, Missing, Torn
  <2>3. [files[s] EXCEPT !.stale = TRUE] \in Contents
    BY <2>2 DEF Contents
  <2>4. files' \in [Systems -> Contents]
    BY <1>t, <1>3, <2>3 DEF Age, Expire, Shape, StoreTypeOK
  <2> QED BY <1>t, <1>3, <1>q, <2>4 DEF Age, Expire, Shape, StoreTypeOK, WorkOK, runVars
<1>4. CASE UNCHANGED vars
  BY <1>t, <1>4, <1>q DEF vars, Shape, StoreTypeOK, WorkOK, storeVars, runVars
<1> QED BY <1>1, <1>2, <1>3, <1>4 DEF Next

\* Type correctness: in particular a run that saves has a feed left to save.
THEOREM TypeCorrect == Spec => []TypeOK
<1>1. Init => TypeOK
  <2> SUFFICES ASSUME Init PROVE Shape /\ WorkOK
    BY TypeParts
  <2>1. files \in [Systems -> Contents]
    BY DEF Init, StoreInit, Contents
  <2>2. Rhel \in Systems /\ <<>> \in Orders /\ 0 \in 0..MaxUpdates /\ 0 \in 0..MaxAccidents
    BY StoreAssumption, FeedsAssumption DEF Systems, Oval, Orders, CsvOrders
  <2> QED BY <2>1, <2>2 DEF Init, StoreInit, Shape, StoreTypeOK, WorkOK, Places, Busy
<1>2. TypeOK /\ [Next]_vars => TypeOK'
  <2> SUFFICES ASSUME TypeOK, [Next]_vars PROVE TypeOK'
    OBVIOUS
  <2> QED BY StepType, OthersType
<1> QED BY <1>1, <1>2, PTL DEF Spec

-----------------------------------------------------------------------------
\* What holds of the run that is updating, when it is the only one that may.
UpdateInv ==
    /\ \A r \in Runs : pc[r] \in Busy => r \in Attended
    /\ \A r \in Runs : number[r] <= updates
    /\ \A s \in Systems : files[s].update <= updates
    \* its number is the latest of all
    /\ \A r \in Runs : pc[r] \in Busy => \A s \in Systems : files[s].update <= number[r]
    \* Rocky's turn comes when the feed of RHEL is there
    /\ \A r \in Runs : pc[r] \in {"save", "fill"} /\ todo[r] = <<Rocky>> =>
          files[Rhel].state = "complete" /\ files[Rhel].update = number[r]
    /\ \A r \in Runs : pc[r] = "confirm" => todo[r] # OvalOrder

AheadInv == TypeOK /\ UpdateInv /\ RockyNeverAhead

\* Nobody turns to updating, and no feed changes.
Quiet ==
    /\ UNCHANGED <<storeVars, number>>
    /\ \A r \in Runs : pc'[r] \in Busy => pc'[r] = pc[r] /\ todo'[r] = todo[r]

\* Such a step keeps the invariant.
LEMMA QuietInv == AheadInv /\ Quiet => UpdateInv' /\ RockyNeverAhead'
BY DEF AheadInv, Quiet, UpdateInv, RockyNeverAhead, storeVars, Busy

\* A run that goes to a place where it does not save.
LEMMA GotoQuiet ==
    ASSUME TypeOK, NEW r \in Runs, NEW place \in Places \ Busy, Goto(r, place),
           UNCHANGED <<storeVars, number, todo>>
    PROVE  Quiet
BY DEF Quiet, Goto, TypeOK, Places, Busy

\* The steps of a run that do not touch the feeds, and those of everybody else.
LEMMA QuietSteps ==
    ASSUME TypeOK, NEW r \in Runs,
           \/ \E c \in {"scan", "update"}, s \in Systems : Start(r, c, s)
           \/ Prompt(r) \/ Decline(r) \/ BadSource(r) \/ Info(r) \/ Load(r) \/ Exit(r)
           \/ Kill(r) \/ WriteFails(r)
    PROVE  Quiet
<1>1. PICK place \in Places \ Busy : Goto(r, place)
  <2>1. {"idle", "prompt", "ask", "info", "load", "raised", "failed"} \subseteq Places \ Busy
    BY DEF Places, Busy
  <2> QED BY <2>1, Zenon DEF Start, Prompt, Decline, BadSource, Info, Load, Exit, Kill,
                             WriteFails, Proceed, Raise
<1>2. UNCHANGED <<storeVars, number, todo>>
  BY DEF Start, Prompt, Decline, BadSource, Info, Load, Exit, Kill, WriteFails, storeVars, runVars
<1> QED BY <1>1, <1>2, GotoQuiet

\* Numbers are what their types say.
LEMMA Numbers ==
    ASSUME TypeOK
    PROVE  /\ updates \in Nat /\ \A r \in Runs : number[r] \in Nat
           /\ \A s \in Systems : files[s].update \in Nat
<1>1. \A s \in Systems : files[s] \in Contents
  BY DEF TypeOK, StoreTypeOK
<1>2. \A c \in Contents : c.update \in Nat
  BY StoreAssumption DEF Contents, Missing, Torn
<1> QED BY <1>1, <1>2, StoreAssumption DEF TypeOK, StoreTypeOK

\* An update that sets out has the latest number.
LEMMA BeginInv ==
    ASSUME OneAtATime, AheadInv, NEW r \in Attended, NEW order \in {OvalOrder} \cup CsvOrders,
           Begin(r, order), NEW place \in Places \ {"confirm"}, Goto(r, place), pc[r] \notin Busy
    PROVE  UpdateInv' /\ RockyNeverAhead'
<1>t. r \in Runs /\ TypeOK /\ UpdateInv
  BY FeedsAssumption DEF AheadInv
<1>1. updates' \in Nat /\ updates <= updates' /\ files' = files
  BY <1>t, StoreAssumption DEF Begin, TypeOK, StoreTypeOK
<1>2. number'[r] = updates' /\ todo'[r] = order /\ \A q \in Runs : q # r => number'[q] = number[q]
  BY <1>t DEF Begin, TypeOK
<1>3. /\ pc'[r] = place
      /\ \A q \in Runs : q # r => pc'[q] = pc[q] /\ pc'[q] \notin Busy
  BY <1>t DEF Goto, TypeOK, UpdateInv, OneAtATime
<1>4. order # <<Rocky>>
  BY StoreAssumption DEF OvalOrder, CsvOrders
<1>5. UpdateInv'
  <2>1. \A q \in Runs : number'[q] <= updates'
    BY <1>t, <1>1, <1>2, Numbers DEF UpdateInv
  <2>2. \A s \in Systems : files'[s].update <= updates'
    BY <1>t, <1>1, Numbers DEF UpdateInv
  <2>3. \A q \in Runs : pc'[q] \in Busy => q = r
    BY <1>3
  <2> QED BY <1>2, <1>3, <1>4, <2>1, <2>2, <2>3 DEF UpdateInv, Busy
<1>6. RockyNeverAhead'
  BY <1>1 DEF AheadInv, RockyNeverAhead
<1> QED BY <1>5, <1>6

\* The heads of the orders.
LEMMA OrderHeads ==
    ASSUME NEW order \in Orders, order # <<>>
    PROVE  /\ Head(order) = Rhel => order = OvalOrder
           /\ Head(order) = Rocky => order = <<Rocky>> /\ Tail(order) = <<>>
           /\ Head(order) \in Csv => Tail(order) \notin {OvalOrder, <<Rocky>>}
           /\ Tail(order) # OvalOrder
<1>1. CASE order = OvalOrder
  BY <1>1, StoreAssumption DEF OvalOrder
<1>2. CASE order = Tail(OvalOrder)
  <2>1. order = <<Rocky>> /\ Tail(order) = <<>> /\ Head(order) = Rocky
    BY <1>2 DEF OvalOrder
  <2> QED BY <2>1, StoreAssumption DEF OvalOrder
<1>3. ASSUME NEW s \in Csv, order = <<s>>
      PROVE  Head(order) \in Csv /\ Tail(order) = <<>>
  BY <1>3
<1>4. ASSUME NEW s \in Csv, NEW t \in Csv, order = <<s, t>>
      PROVE  Head(order) \in Csv /\ Tail(order) = <<t>>
  BY <1>4
<1>5. order \in {o \in Csv \X Csv : o[1] # o[2]} => \E s, t \in Csv : order = <<s, t>>
  OBVIOUS
<1> QED BY <1>1, <1>2, <1>3, <1>4, <1>5, StoreAssumption DEF Orders, CsvOrders, OvalOrder

\* Truncating and filling one feed.
LEMMA WriteInv ==
    ASSUME OneAtATime, AheadInv, NEW r \in Runs, OpenFeed(r) \/ FillFeed(r)
    PROVE  UpdateInv' /\ RockyNeverAhead'
<1>t. TypeOK /\ UpdateInv /\ RockyNeverAhead
  BY DEF AheadInv
<1> DEFINE h == Head(todo[r])
<1>1. /\ todo[r] \in Orders /\ todo[r] # <<>> /\ number[r] # 0 /\ pc[r] \in Busy
      /\ pc[r] \in {"save", "fill"}
  BY <1>t DEF OpenFeed, FillFeed, TypeOK, Busy
<1>2. h \in Systems /\ r \in Attended
  BY <1>t, <1>1, OrderTails DEF UpdateInv
<1>3. UNCHANGED <<updates, number>>
  BY DEF OpenFeed, FillFeed, runVars
<1>4. \A q \in Runs : q # r => pc'[q] \notin Busy
  <2>1. \A q \in Runs : q # r => pc'[q] = pc[q]
    BY <1>t DEF OpenFeed, FillFeed, Goto, TypeOK
  <2> QED BY <1>t, <1>2, <2>1 DEF UpdateInv, OneAtATime
<1>5. PICK c \in {Torn, Feed(number[r])} : files' = [files EXCEPT ![h] = c]
  BY DEF OpenFeed, FillFeed, Truncate, Fill
<1>6. c.update <= number[r] /\ c.update \in Nat
  BY <1>t, Numbers DEF Torn, Feed
<1>7. files'[h] = c /\ \A s \in Systems : s # h => files'[s] = files[s]
  BY <1>t, <1>2, <1>5 DEF TypeOK, StoreTypeOK
<1>8. \A s \in Systems : files'[s].update <= number[r] /\ files'[s].update <= updates
  BY <1>t, <1>1, <1>6, <1>7, Numbers DEF UpdateInv
<1>9. h = Rocky => files[Rhel].state = "complete" /\ files[Rhel].update = number[r]
  BY <1>t, <1>1, OrderHeads DEF UpdateInv
<1>10. Rhel \in Systems /\ Rocky \in Systems /\ Rhel # Rocky
  BY StoreAssumption DEF Systems, Oval
<1>11. RockyNeverAhead'
  <2>1. CASE h = Rhel
    <3>1. c = Torn => files'[Rhel].state = "torn"
      BY <1>7, <2>1 DEF Torn
    <3>2. c = Feed(number[r]) => files'[Rhel].update = number[r]
      BY <1>7, <2>1 DEF Feed
    <3> QED BY <1>5, <1>8, <1>10, <3>1, <3>2 DEF RockyNeverAhead
  <2>2. CASE h = Rocky
    BY <1>7, <1>8, <1>9, <1>10, <2>2 DEF RockyNeverAhead
  <2>3. CASE h \notin {Rhel, Rocky}
    BY <1>t, <1>7, <1>10, <2>3 DEF RockyNeverAhead
  <2> QED BY <2>1, <2>2, <2>3
<1>12. pc'[r] \in {"save", "fill"} /\ todo'[r] = <<Rocky>> =>
           files'[Rhel].state = "complete" /\ files'[Rhel].update = number[r]
  <2>1. CASE todo'[r] = todo[r]
    <3>1. todo[r] = <<Rocky>> => h = Rocky
      OBVIOUS
    <3> QED BY <1>7, <1>9, <1>10, <2>1, <3>1
  <2>2. CASE todo'[r] # todo[r]
    <3>1. FillFeed(r) /\ todo'[r] = Tail(todo[r]) /\ h \in Oval
      BY <1>t, <2>2 DEF OpenFeed, FillFeed, TypeOK
    <3>2. todo'[r] = <<Rocky>> => h = Rhel
      <4>1. h = Rocky => todo'[r] = <<>>
        BY <1>1, <3>1, OrderHeads
      <4>2. <<Rocky>> # <<>>
        OBVIOUS
      <4>3. h \in {Rhel, Rocky}
        BY <3>1 DEF Oval
      <4> QED BY <4>1, <4>2, <4>3
    <3>3. files'[h] = Feed(number[r])
      BY <1>2, <1>t, <3>1 DEF FillFeed, Fill, TypeOK, StoreTypeOK
    <3> QED BY <3>2, <3>3 DEF Feed
  <2> QED BY <2>1, <2>2
<1>13. pc'[r] = "confirm" => todo'[r] # OvalOrder
  <2>1. OvalOrder # <<>> /\ Head(OvalOrder) \in Oval /\ Len(OvalOrder) > 1
    BY DEF OvalOrder, Oval
  <2> QED BY <1>t, <2>1 DEF OpenFeed, FillFeed, Goto, TypeOK
<1>14. UpdateInv'
  <2>1. \A q \in Runs : number'[q] <= updates'
    BY <1>t, <1>3 DEF UpdateInv
  <2> QED BY <1>2, <1>3, <1>4, <1>8, <1>12, <1>13, <2>1 DEF UpdateInv, Busy
<1> QED BY <1>11, <1>14

\* A feed confirmed, and the next one begun if there is one.
LEMMA ConfirmInv ==
    ASSUME AheadInv, NEW r \in Runs, Confirm(r)
    PROVE  UpdateInv' /\ RockyNeverAhead'
<1>t. TypeOK /\ UpdateInv /\ RockyNeverAhead
  BY DEF AheadInv
<1>1. todo[r] \in Orders /\ todo[r] # <<>> /\ pc[r] = "confirm"
  BY <1>t DEF Confirm, TypeOK
<1>2. Tail(todo[r]) # OvalOrder /\ Tail(todo[r]) # <<Rocky>>
  <2>1. Head(todo[r]) \in Systems
    BY <1>1, OrderTails
  <2>2. Head(todo[r]) # Rhel
    BY <1>t, <1>1, OrderHeads DEF UpdateInv
  <2>3. Head(todo[r]) = Rocky => Tail(todo[r]) = <<>>
    BY <1>1, OrderHeads
  <2> QED BY <1>1, <2>1, <2>2, <2>3, OrderHeads DEF Systems, Oval, OvalOrder
<1>3. UNCHANGED <<storeVars, number>> /\ todo' = [todo EXCEPT ![r] = Tail(@)]
  BY DEF Confirm
<1>4. todo'[r] = Tail(todo[r]) /\ \A q \in Runs : q # r => todo'[q] = todo[q]
  BY <1>t, <1>3 DEF TypeOK
<1>5. \A q \in Runs : q # r => pc'[q] = pc[q]
  BY <1>t DEF Confirm, Proceed, Raise, Goto, TypeOK
<1> QED BY <1>t, <1>1, <1>2, <1>3, <1>4, <1>5 DEF UpdateInv, RockyNeverAhead, storeVars, Busy

\* Nothing is saved at first.
LEMMA AheadInit == Init => UpdateInv /\ RockyNeverAhead
BY StoreAssumption DEF Init, StoreInit, UpdateInv, RockyNeverAhead, Missing, Busy, Systems, Oval

\* Every step keeps the invariant, while one user at a time updates.
LEMMA AheadStep ==
    ASSUME OneAtATime, AheadInv, [Next]_vars
    PROVE  UpdateInv' /\ RockyNeverAhead'
<1>t. TypeOK
  BY DEF AheadInv
<1>1. ASSUME NEW r \in Runs, Step(r) \/ Kill(r) \/ WriteFails(r)
      PROVE  UpdateInv' /\ RockyNeverAhead'
  <2>1. CASE Accept(r)
    <3>1. PICK order \in {OvalOrder} \cup CsvOrders :
              /\ Begin(r, order)
              /\ IF order = <<>> THEN Proceed(r) ELSE Goto(r, "save")
      BY <2>1 DEF Accept
    <3>2. PICK place \in Places \ {"confirm"} : Goto(r, place)
      BY <3>1, Zenon DEF Proceed, Places
    <3> QED BY <2>1, <3>1, <3>2, BeginInv DEF Accept, Busy
  <2>2. CASE Import(r)
    <3>1. PICK order \in {OvalOrder} \cup CsvOrders : Begin(r, order)
      BY <2>2 DEF Import
    <3>2. "save" \in Places \ {"confirm"} /\ pc[r] \notin Busy
      BY <2>2 DEF Import, Places, Busy
    <3> QED BY <2>2, <3>1, <3>2, BeginInv DEF Import
  <2> QED BY <1>t, <1>1, <2>1, <2>2, WriteInv, ConfirmInv, QuietSteps, QuietInv DEF Step
<1>2. CASE MoveExport \/ UNCHANGED vars
  <2>1. Quiet
    BY <1>2 DEF MoveExport, vars, Quiet, runVars
  <2> QED BY <2>1, QuietInv
<1>3. ASSUME NEW s \in Systems, Age(s)
      PROVE  UpdateInv' /\ RockyNeverAhead'
  <2>1. \A q \in Systems : files'[q].update = files[q].update /\ files'[q].state = files[q].state
    <3>1. files[s] \in Contents /\ files[s].state = "complete"
      BY <1>t, <1>3 DEF Age, Expire, TypeOK, StoreTypeOK
    <3>2. files[s] \in [update : 1..MaxUpdates, stale : BOOLEAN, state : {"complete"}]
      BY <3>1 DEF Contents, Missing, Torn
    <3> QED BY <1>t, <1>3, <3>2 DEF Age, Expire, TypeOK, StoreTypeOK
  <2>2. UNCHANGED <<updates, number, pc, todo>>
    BY <1>3 DEF Age, Expire, runVars
  <2>3. Rhel \in Systems /\ Rocky \in Systems
    BY DEF Systems, Oval
  <2> QED BY <2>1, <2>2, <2>3 DEF AheadInv, UpdateInv, RockyNeverAhead
<1> QED BY <1>1, <1>2, <1>3 DEF Next

\* While one user at a time updates feeds, that of Rocky is never ahead of the
\* feed of RHEL, whatever is killed or fails and whoever scans meanwhile.
THEOREM RockyFollows == OneAtATime => (Spec => []RockyNeverAhead)
<1> SUFFICES ASSUME OneAtATime
             PROVE  Spec => []RockyNeverAhead
  OBVIOUS
<1>1. Init => UpdateInv /\ RockyNeverAhead
  BY AheadInit
<1>2. AheadInv /\ [Next]_vars => UpdateInv' /\ RockyNeverAhead'
  BY AheadStep
<1>3. AheadInv <=> TypeOK /\ UpdateInv /\ RockyNeverAhead
  BY DEF AheadInv
<1> QED BY <1>1, <1>2, <1>3, TypeCorrect, PTL DEF Spec

-----------------------------------------------------------------------------
\* What a run has been told of its system it finds there until it has loaded
\* it: when it goes on saving, that is about another system.
RunOK(q) ==
    /\ pc[q] \in {"prompt", "ask"} => told[q] = 0
    /\ told[q] # 0 => q \in Attended
    /\ told[q] # 0 /\ pc[q] \in Busy \cup {"info", "load"} =>
          told[q] <= files[system[q]].update
    /\ told[q] # 0 /\ pc[q] \in Busy =>
          Tail(todo[q]) = <<>> /\ Head(todo[q]) \in Csv \ {system[q]}
    \* the feed of Rhel speaks for that of Rocky
    /\ pc[q] = "confirm" /\ Head(todo[q]) = Rocky => files[Rocky].update = number[q]
    /\ pc[q] \in Busy /\ Head(todo[q]) \in Oval => system[q] \in Oval

UsedInv == \A q \in Runs : RunOK(q)

\* What follows the first feed of an order.
LEMMA OrderNext ==
    ASSUME NEW order \in Orders, order # <<>>
    PROVE  /\ Head(order) \in Csv /\ Tail(order) # <<>> =>
                 Tail(Tail(order)) = <<>> /\ Head(Tail(order)) \in Csv \ {Head(order)}
           /\ Head(order) = Rhel => Head(Tail(order)) = Rocky
           /\ order \in CsvOrders => Head(order) \in Csv
<1>1. CASE order = OvalOrder
  <2>1. Head(order) = Rhel /\ Tail(order) = <<Rocky>> /\ Len(order) = 2 /\ order[2] = Rocky
    BY <1>1 DEF OvalOrder
  <2>2. order \notin CsvOrders
    BY <2>1, StoreAssumption DEF CsvOrders
  <2> QED BY <2>1, <2>2, StoreAssumption
<1>2. CASE order = Tail(OvalOrder)
  <2>1. order = <<Rocky>> /\ Head(order) = Rocky
    BY <1>2 DEF OvalOrder
  <2>2. order \notin CsvOrders
    BY <2>1, StoreAssumption DEF CsvOrders
  <2> QED BY <2>1, <2>2, StoreAssumption
<1>3. ASSUME NEW s \in Csv, order = <<s>>
      PROVE  Head(order) \in Csv /\ Head(order) # Rhel /\ Tail(order) = <<>>
  BY <1>3, StoreAssumption
<1>4. ASSUME NEW s \in Csv, NEW t \in Csv \ {s}, order = <<s, t>>
      PROVE  /\ Head(order) = s /\ s # Rhel /\ Tail(order) = <<t>>
             /\ Tail(Tail(order)) = <<>> /\ Head(Tail(order)) = t
  BY <1>4, StoreAssumption
<1>5. order \in {o \in Csv \X Csv : o[1] # o[2]} =>
          \E s \in Csv : \E t \in Csv \ {s} : order = <<s, t>>
  OBVIOUS
<1>6. CASE order \in {o \in Csv \X Csv : o[1] # o[2]}
  BY <1>4, <1>5, <1>6
<1> QED BY <1>1, <1>2, <1>3, <1>6 DEF Orders, CsvOrders

\* A run is where it was.
Same(q) ==
    /\ pc'[q] = pc[q] /\ told'[q] = told[q] /\ system'[q] = system[q]
    /\ todo'[q] = todo[q] /\ number'[q] = number[q]

\* Runs that stay where they are keep what they know, when no feed changes or
\* somebody else has the user.
LEMMA SameOK ==
    ASSUME OneAtATime, AheadInv, NEW q \in Runs, RunOK(q), Same(q), system[q] \in Systems,
           \/ \A s \in Systems : files'[s].update = files[s].update
           \/ \E r \in Attended : r # q
    PROVE  RunOK(q)'
<1>1. CASE \A s \in Systems : files'[s].update = files[s].update
  BY <1>1 DEF RunOK, Same, Systems, Oval
<1>2. CASE \E r \in Attended : r # q
  <2>1. q \notin Attended
    BY <1>2 DEF OneAtATime
  <2>2. told[q] = 0 /\ pc[q] \notin Busy
    BY <2>1 DEF RunOK, AheadInv, UpdateInv
  <2> QED BY <2>2 DEF RunOK, Same, Busy
<1> QED BY <1>1, <1>2

\* A step of a run leaves the others where they are.
LEMMA OthersSame ==
    ASSUME TypeOK, NEW r \in Runs, Step(r) \/ Kill(r) \/ WriteFails(r), NEW q \in Runs, q # r
    PROVE  Same(q)
BY DEF TypeOK, Same, Step, Start, Prompt, Decline, BadSource, Accept, Import, Begin, OpenFeed,
       FillFeed, Confirm, Info, Load, Exit, Kill, WriteFails, Goto, Proceed, Raise, runVars

\* Before it is told anything, a run knows nothing to be kept.
LEMMA UntoldOK ==
    ASSUME NEW r \in Runs, told'[r] = 0, pc'[r] \notin Busy
    PROVE  RunOK(r)'
BY DEF RunOK, Busy

\* Of a run that has left its prompt and saves no more, what it was told is
\* kept as long as the feeds are.
LEMMA LeavesOK ==
    ASSUME AheadInv, NEW r \in Runs, RunOK(r), UNCHANGED <<files, told, system>>,
           pc'[r] \in {"idle", "raised", "failed"} \/ (pc[r] = "info" /\ pc'[r] = "load")
    PROVE  RunOK(r)'
BY DEF RunOK, Busy

\* The steps that save nothing.
LEMMA QuietUsed ==
    ASSUME AheadInv, UsedInv, NEW r \in Runs,
           \/ \E c \in {"scan", "update"}, s \in Systems : Start(r, c, s)
           \/ Prompt(r) \/ Decline(r) \/ BadSource(r) \/ Info(r) \/ Load(r) \/ Exit(r)
           \/ Kill(r) \/ WriteFails(r)
    PROVE  RunOK(r)' /\ files' = files
<1>t. TypeOK /\ RunOK(r)
  BY DEF AheadInv, UsedInv
<1>p. pc \in [Runs -> Places] /\ told \in [Runs -> 0..MaxUpdates]
  BY <1>t DEF TypeOK, Places
<1>1. CASE \E c \in {"scan", "update"}, s \in Systems : Start(r, c, s)
  <2>1. told'[r] = 0 /\ pc'[r] \in {"prompt", "info"} /\ files' = files
    BY <1>1, <1>p DEF Start, Goto, storeVars
  <2> QED BY <2>1, UntoldOK DEF Busy
<1>2. CASE Prompt(r) \/ Decline(r)
  <2>1. told[r] = 0 /\ told' = told /\ files' = files
    BY <1>2, <1>t DEF Prompt, Decline, RunOK, storeVars, runVars
  <2>2. pc'[r] \notin Busy
    BY <1>2, <1>p DEF Prompt, Decline, Proceed, Raise, Goto, Busy
  <2> QED BY <2>1, <2>2, UntoldOK
<1>3. CASE BadSource(r) \/ Info(r) \/ Load(r) \/ Exit(r) \/ Kill(r) \/ WriteFails(r)
  <2>1. UNCHANGED <<files, told, system>>
    BY <1>3 DEF BadSource, Info, Load, Exit, Kill, WriteFails, storeVars, runVars
  <2>2. pc'[r] \in {"idle", "raised", "failed"} \/ (pc[r] = "info" /\ pc'[r] = "load")
    BY <1>3, <1>p DEF BadSource, Info, Load, Exit, Kill, WriteFails, Raise, Goto
  <2> QED BY <1>t, <2>1, <2>2, LeavesOK
<1> QED BY <1>1, <1>2, <1>3

\* Setting out on an update.
LEMMA BeginUsed ==
    ASSUME AheadInv, UsedInv, NEW r \in Runs, Accept(r) \/ Import(r)
    PROVE  RunOK(r)' /\ files' = files
<1>t. TypeOK /\ RunOK(r)
  BY DEF AheadInv, UsedInv
<1>1. PICK order \in {OvalOrder} \cup CsvOrders :
          /\ Begin(r, order)
          /\ \/ Accept(r) /\ (order = OvalOrder <=> system[r] \in Oval)
             \/ Import(r) /\ order # <<>> /\ system' = [system EXCEPT ![r] = Head(order)]
          /\ pc'[r] = "save" => order # <<>>
          /\ pc'[r] \notin {"fill", "confirm", "prompt", "ask"}
  <2>1. OvalOrder \notin CsvOrders /\ OvalOrder # <<>>
    BY StoreAssumption DEF OvalOrder, CsvOrders
  <2>2. CASE Accept(r)
    BY <1>t, <2>1, <2>2 DEF Accept, Proceed, Goto, TypeOK
  <2>3. CASE Import(r)
    BY <1>t, <2>1, <2>3 DEF Import, Goto, TypeOK
  <2> QED BY <2>2, <2>3
<1>2. told'[r] = 0 /\ files' = files /\ todo'[r] = order
  BY <1>t, <1>1 DEF Accept, Import, Begin, RunOK, TypeOK
<1>3. pc'[r] = "save" /\ Head(order) \in Oval => system'[r] \in Oval
  <2>1. CASE Accept(r) /\ (order = OvalOrder <=> system[r] \in Oval)
    <3>1. order \in CsvOrders /\ order # <<>> => Head(order) \in Csv
      BY OrderNext DEF Orders
    <3> QED BY <1>1, <2>1, <3>1, StoreAssumption DEF Accept, Oval
  <2>2. CASE Import(r) /\ system' = [system EXCEPT ![r] = Head(order)]
    BY <1>t, <2>2 DEF TypeOK
  <2> QED BY <1>1, <2>1, <2>2
<1> QED BY <1>1, <1>2, <1>3 DEF RunOK, Busy

\* Saving a feed.
LEMMA WriteUsed ==
    ASSUME AheadInv, UsedInv, NEW r \in Runs, OpenFeed(r) \/ FillFeed(r)
    PROVE  RunOK(r)'
<1>t. TypeOK /\ RunOK(r)
  BY DEF AheadInv, UsedInv
<1> DEFINE h == Head(todo[r])
<1>1. /\ todo[r] \in Orders /\ todo[r] # <<>> /\ pc[r] \in Busy
      /\ told' = told /\ system' = system /\ number' = number
  BY <1>t DEF OpenFeed, FillFeed, TypeOK, Busy, runVars
<1>2. h \in Systems
  BY <1>1, OrderTails
<1>3. \A s \in Systems : s # h => files'[s] = files[s]
  BY <1>t, <1>2 DEF OpenFeed, FillFeed, Truncate, Fill, TypeOK, StoreTypeOK
<1>4. system[r] \in Systems
  BY <1>t DEF TypeOK
<1>5. told[r] # 0 => h \in Csv /\ h # system[r] /\ Tail(todo[r]) = <<>>
                     /\ told[r] <= files'[system[r]].update
  BY <1>t, <1>1, <1>3, <1>4 DEF RunOK
<1>6. CASE OpenFeed(r)
  <2>1. pc'[r] = "fill" /\ todo' = todo
    BY <1>t, <1>6 DEF OpenFeed, Goto, TypeOK
  <2> QED BY <1>t, <1>1, <1>5, <2>1 DEF RunOK, Busy
<1>7. CASE FillFeed(r) /\ todo' = todo
  <2>1. pc'[r] \in {"save", "confirm"} /\ files'[h].update = number[r]
    BY <1>t, <1>2, <1>7 DEF FillFeed, Fill, Feed, Goto, TypeOK, StoreTypeOK
  <2> QED BY <1>t, <1>1, <1>5, <1>7, <2>1 DEF RunOK, Busy
<1>8. CASE FillFeed(r) /\ todo' # todo
  <2>1. pc'[r] = "save" /\ h \in Oval
    BY <1>t, <1>8 DEF FillFeed, Goto, TypeOK
  <2>2. told[r] = 0
    BY <1>5, <2>1, StoreAssumption DEF Oval
  <2>3. system[r] \in Oval
    BY <1>t, <1>1, <2>1 DEF RunOK
  <2> QED BY <1>1, <2>1, <2>2, <2>3 DEF RunOK, Busy
<1> QED BY <1>6, <1>7, <1>8

\* Telling of a feed saved.
LEMMA ConfirmUsed ==
    ASSUME AheadInv, UsedInv, NEW r \in Runs, Confirm(r)
    PROVE  RunOK(r)' /\ files' = files
<1>t. TypeOK /\ RunOK(r) /\ UpdateInv
  BY DEF AheadInv, UsedInv
<1> DEFINE h == Head(todo[r])
<1>1. /\ todo[r] \in Orders /\ todo[r] # <<>> /\ pc[r] = "confirm" /\ r \in Attended
      /\ files' = files /\ system' = system /\ todo'[r] = Tail(todo[r])
  BY <1>t DEF Confirm, TypeOK, UpdateInv, Busy, storeVars
<1>2. h \in Systems /\ h # Rhel
  BY <1>t, <1>1, OrderTails, OrderHeads DEF UpdateInv
<1>3. Tail(todo[r]) # <<>> => /\ h \in Csv /\ Tail(Tail(todo[r])) = <<>>
                              /\ Head(Tail(todo[r])) \in Csv \ {h}
  BY <1>1, <1>2, OrderNext, OrderHeads DEF Systems, Oval
<1>4. pc'[r] \in {"save", "info", "idle", "raised", "failed"} /\ (pc'[r] = "save" => Tail(todo[r]) # <<>>)
  BY <1>t DEF Confirm, Proceed, Raise, Goto, TypeOK
<1>5. CASE told' = told
  <2>1. told[r] # 0 => Tail(todo[r]) = <<>> /\ told[r] <= files[system[r]].update
    BY <1>t, <1>1 DEF RunOK, Busy
  <2>2. told[r] # 0 => pc'[r] # "save"
    BY <1>4, <2>1
  <2>3. pc'[r] = "save" => Head(todo'[r]) \notin Oval
    BY <1>1, <1>3, <1>4, StoreAssumption DEF Oval
  <2> QED BY <1>1, <1>4, <1>5, <2>1, <2>2, <2>3 DEF RunOK, Busy
<1>6. CASE told' # told
  <2>1. told'[r] = files[Confirmed(r)].update /\ Announces(r)
    BY <1>t, <1>6 DEF Confirm, TypeOK
  <2>2. told'[r] <= files[system[r]].update
    <3>1. CASE h \in Oval
      <4>1. h = Rocky /\ system[r] \in Oval
        BY <1>t, <1>1, <1>2, <3>1 DEF RunOK, Oval, Busy
      <4>2. files[Rocky].update = number[r] /\ files[Rhel].update <= number[r]
        BY <1>t, <1>1, <4>1, StoreAssumption DEF RunOK, UpdateInv, Busy, Systems, Oval
      <4>3. Confirmed(r) = Rhel
        BY <3>1 DEF Confirmed
      <4>4. files[Rhel].update <= files[Rhel].update
        BY <1>t, Numbers DEF Systems, Oval
      <4> QED BY <2>1, <4>1, <4>2, <4>3, <4>4 DEF Oval
    <3>2. CASE h \notin Oval
      <4>1. Confirmed(r) = system[r]
        BY <2>1, <3>2 DEF Confirmed, Announces
      <4>2. files[system[r]].update \in Nat
        BY <1>t, Numbers DEF TypeOK
      <4> QED BY <2>1, <4>1, <4>2
    <3> QED BY <3>1, <3>2
  <2>3. Tail(todo[r]) # <<>> => h = system[r]
    BY <1>3, <2>1, StoreAssumption DEF Announces, Oval
  <2>4. pc'[r] = "save" => Head(todo'[r]) \notin Oval
    BY <1>1, <1>3, <1>4, StoreAssumption DEF Oval
  <2> QED BY <1>1, <1>3, <1>4, <2>2, <2>3, <2>4 DEF RunOK, Busy
<1> QED BY <1>1, <1>5, <1>6

\* Every step keeps what each run was told.
LEMMA UsedStep ==
    ASSUME OneAtATime, AheadInv, UsedInv, [Next]_vars
    PROVE  UsedInv'
<1>t. TypeOK /\ \A q \in Runs : system[q] \in Systems
  BY DEF AheadInv, TypeOK
<1>1. ASSUME NEW r \in Runs, Step(r) \/ Kill(r) \/ WriteFails(r)
      PROVE  UsedInv'
  <2>1. CASE OpenFeed(r) \/ FillFeed(r)
    <3>1. r \in Attended
      BY <2>1 DEF OpenFeed, FillFeed, AheadInv, UpdateInv, Busy
    <3>2. ASSUME NEW q \in Runs, q # r PROVE RunOK(q)'
      BY <1>t, <1>1, <3>1, <3>2, OthersSame, SameOK DEF UsedInv
    <3> QED BY <2>1, <3>2, WriteUsed DEF UsedInv
  <2>2. CASE ~(OpenFeed(r) \/ FillFeed(r))
    <3>1. RunOK(r)' /\ files' = files
      BY <1>1, <2>2, QuietUsed, BeginUsed, ConfirmUsed DEF Step
    <3>2. ASSUME NEW q \in Runs, q # r PROVE RunOK(q)'
      BY <1>t, <1>1, <3>1, <3>2, OthersSame, SameOK DEF UsedInv
    <3> QED BY <3>1, <3>2 DEF UsedInv
  <2> QED BY <2>1, <2>2
<1>2. ASSUME MoveExport \/ UNCHANGED vars \/ \E s \in Systems : Age(s)
      PROVE  UsedInv'
  <2>1. \A q \in Runs : Same(q)
    BY <1>2 DEF MoveExport, vars, Age, runVars, Same
  <2>2. \A q \in Systems : files'[q].update = files[q].update
    <3>1. CASE MoveExport \/ UNCHANGED vars
      BY <3>1 DEF MoveExport, vars, storeVars
    <3>2. ASSUME NEW s \in Systems, Age(s)
          PROVE  \A q \in Systems : files'[q].update = files[q].update
      <4>1. files[s] \in Contents /\ files[s].state = "complete"
        BY <1>t, <3>2 DEF Age, Expire, TypeOK, StoreTypeOK
      <4>2. files[s] \in [update : 1..MaxUpdates, stale : BOOLEAN, state : {"complete"}]
        BY <4>1 DEF Contents, Missing, Torn
      <4> QED BY <1>t, <3>2, <4>2 DEF Age, Expire, TypeOK, StoreTypeOK
    <3> QED BY <1>2, <3>1, <3>2
  <2> QED BY <1>t, <2>1, <2>2, SameOK DEF UsedInv
<1> QED BY <1>1, <1>2 DEF Next

\* While one user at a time updates feeds, a scan evaluates the update its user
\* was told of or a later one, whatever else runs, is killed or fails.
THEOREM UpdateUsed == OneAtATime => (Spec => []UpdateIsUsed)
<1> SUFFICES ASSUME OneAtATime
             PROVE  Spec => []UpdateIsUsed
  OBVIOUS
<1>1. Init => UsedInv
  BY DEF Init, UsedInv, RunOK, Busy
<1>2. AheadInv /\ UsedInv => UpdateIsUsed
  <2> SUFFICES ASSUME AheadInv, UsedInv, NEW r \in Runs, pc[r] = "load"
               PROVE  files[system[r]].update >= told[r]
    BY DEF UpdateIsUsed
  <2>1. files[system[r]].update \in Nat /\ told[r] \in Nat
    BY Numbers, StoreAssumption DEF AheadInv, TypeOK
  <2> QED BY <2>1 DEF UsedInv, RunOK
<1>3. AheadInv /\ [Next]_vars => UpdateInv' /\ RockyNeverAhead'
  BY AheadStep
<1>4. AheadInv /\ UsedInv /\ [Next]_vars => UsedInv'
  BY UsedStep
<1>5. AheadInv <=> TypeOK /\ UpdateInv /\ RockyNeverAhead
  BY DEF AheadInv
<1> QED BY <1>1, <1>2, <1>3, <1>4, <1>5, AheadInit, TypeCorrect, PTL DEF Spec

=============================================================================
