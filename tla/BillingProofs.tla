----------------------------- MODULE BillingProofs -----------------------------
(***************************************************************************)
(* Proofs about Billing, for every template, every set of amounts and      *)
(* entries and any number of lines.                                        *)
(***************************************************************************)
EXTENDS Billing, FiniteSetTheorems, TLAPS

\* The fields are what the form has.
FieldsOK ==
    /\ form \in [previous_balance : {0} \cup Texts, past_due : {0} \cup Texts, logo : Logos]
    /\ settings \in {"none", "torn"} \cup Logos
    /\ pc # "form" => data.logo \in Logos

\* Every way of editing the form.
LEMMA EditCases ==
    ASSUME EditForm
    PROVE  \/ \E text \in Texts : EditPreviousBalance(text)
           \/ \E text \in Texts : EditPastDue(text)
           \/ \E logo \in Logos : ChooseLogo(logo)
           \/ \E entry \in Entries : add_line(entry)
           \/ \E selection \in SUBSET DOMAIN lines : remove_selected(selection)
           \/ reset_form
BY DEF EditForm

\* Nothing but an edit or a restart touches what is on the form.
LEMMA BeyondTheForm ==
    ASSUME Next, ~EditForm, ~Restart
    PROVE  UNCHANGED editing
BY DEF Next, Generate, RefuseGenerate, FindTemplate, Decode, OpenDocument,
       FillDocument, ReplaceLogo, BuildFails, SkipSettings, OpenSettings,
       StoreSettings, SettingsFail

\* An edit leaves one of the form's fields at most with a new text.
LEMMA EditKeepsFields ==
    ASSUME FieldsOK, EditForm
    PROVE  /\ form' \in [previous_balance : {0} \cup Texts, past_due : {0} \cup Texts,
                         logo : Logos]
           /\ settings' = settings /\ pc = "form" /\ pc' = "form"
<1>e. ASSUME Edit
      PROVE  settings' = settings /\ pc = "form" /\ pc' = "form"
  BY <1>e DEF Edit
<1>1. CASE \E text \in Texts : EditPreviousBalance(text)
  BY <1>1, <1>e DEF EditPreviousBalance, FieldsOK
<1>2. CASE \E text \in Texts : EditPastDue(text)
  BY <1>2, <1>e DEF EditPastDue, FieldsOK
<1>3. CASE \E logo \in Logos : ChooseLogo(logo)
  BY <1>3, <1>e DEF ChooseLogo, FieldsOK
<1>4. CASE \E entry \in Entries : add_line(entry)
  BY <1>4, <1>e DEF add_line, FieldsOK
<1>5. CASE \E selection \in SUBSET DOMAIN lines : remove_selected(selection)
  <2>1. Edit /\ form' = form
    BY <1>5 DEF remove_selected
  <2> QED BY <2>1, <1>e DEF FieldsOK
<1>6. CASE reset_form
  BY <1>6, <1>e DEF reset_form, FieldsOK
<1> QED BY <1>1, <1>2, <1>3, <1>4, <1>5, <1>6, EditCases

\* Every step keeps the fields and what is remembered of the right kind.
LEMMA FieldsStep == FieldsOK /\ [Next]_vars => FieldsOK'
<1> SUFFICES ASSUME FieldsOK, [Next]_vars
             PROVE  FieldsOK'
  OBVIOUS
<1>1. CASE EditForm
  BY <1>1, EditKeepsFields DEF FieldsOK
<1>2. CASE Restart
  BY <1>2 DEF Restart, StartForm, Remembered, Message, files, FieldsOK, Logos
<1>3. CASE Next /\ ~EditForm /\ ~Restart
  <2>1. form' = form
    BY <1>3, BeyondTheForm DEF editing
  <2>2. pc' # "form" => data'.logo \in Logos
    <3>1. CASE Generate
      <4>1. data'.logo = form.logo
        BY <3>1 DEF Generate
      <4> QED BY <4>1 DEF FieldsOK
    <3>2. CASE ~Generate
      <4>1. pc' = "form" \/ (pc # "form" /\ data' = data)
        BY <1>3, <3>2
           DEF Next, RefuseGenerate, FindTemplate, Decode, OpenDocument, FillDocument,
               ReplaceLogo, BuildFails, SkipSettings, OpenSettings, StoreSettings,
               SettingsFail, Goto, Message
      <4> QED BY <4>1 DEF FieldsOK
    <3> QED BY <3>1, <3>2
  <2>3. settings' \in {"none", "torn"} \cup Logos
    <3>1. CASE OpenSettings
      BY <3>1 DEF OpenSettings
    <3>2. CASE StoreSettings
      <4>1. pc # "form" /\ settings' = data.logo
        BY <3>2 DEF StoreSettings
      <4> QED BY <4>1 DEF FieldsOK
    <3>3. CASE ~OpenSettings /\ ~StoreSettings
      <4>1. settings' = settings
        BY <1>3, <3>3
           DEF Next, Generate, RefuseGenerate, FindTemplate, Decode, OpenDocument,
               FillDocument, ReplaceLogo, BuildFails, SkipSettings, SettingsFail, files
      <4> QED BY <4>1 DEF FieldsOK
    <3> QED BY <3>1, <3>2, <3>3
  <2> QED BY <2>1, <2>2, <2>3 DEF FieldsOK
<1>4. CASE UNCHANGED vars
  BY <1>4 DEF vars, FieldsOK
<1> QED BY <1>1, <1>2, <1>3, <1>4

\* The program starts with an empty form.
LEMMA FieldsInit == Init => FieldsOK
<1> SUFFICES ASSUME Init
             PROVE  FieldsOK
  OBVIOUS
<1>1. /\ form = [previous_balance |-> 0, past_due |-> 0, logo |-> "default"]
      /\ settings = "none" /\ pc = "form"
  BY DEF Init, StartForm
<1> QED BY <1>1 DEF FieldsOK, Logos

-----------------------------------------------------------------------------
\* The preview is behind only on account of a past due; an unreadable previous
\* balance is made up for by the very edit that puts it right.
PreviewInv == form.previous_balance # Garbled /\ ~behind => preview = Totals

\* Recalculating establishes it whatever was edited.
LEMMA RecalculateShows ==
    ASSUME Recalculate
    PROVE  PreviewInv'
<1>1. CASE Garbled \in {form'.previous_balance, form'.past_due}
  BY <1>1 DEF Recalculate, PreviewInv
<1>2. CASE Garbled \notin {form'.previous_balance, form'.past_due}
  BY <1>2 DEF Recalculate, PreviewInv, Totals
<1> QED BY <1>1, <1>2

\* Edits that recalculate nothing leave the figures alone that it sums up.
LEMMA OtherEdits ==
    ASSUME FieldsOK, PreviewInv, UNCHANGED <<lines, preview, behind>>,
           NEW text, form' = [form EXCEPT !.past_due = text]
                     \/ form' = [form EXCEPT !.logo = text]
    PROVE  PreviewInv'
<1>1. form'.previous_balance = form.previous_balance
  BY DEF FieldsOK
<1> QED BY <1>1 DEF PreviewInv, Totals

\* Every step keeps the preview.
LEMMA PreviewStep == FieldsOK /\ PreviewInv /\ [Next]_vars => PreviewInv'
<1> SUFFICES ASSUME FieldsOK, PreviewInv, [Next]_vars
             PROVE  PreviewInv'
  OBVIOUS
<1>1. CASE EditForm
  <2>1. CASE \E text \in Texts : EditPastDue(text)
    BY <2>1, OtherEdits DEF EditPastDue
  <2>2. CASE \E logo \in Logos : ChooseLogo(logo)
    BY <2>2, OtherEdits DEF ChooseLogo
  <2>3. CASE \/ \E text \in Texts : EditPreviousBalance(text)
             \/ \E entry \in Entries : add_line(entry)
             \/ \E selection \in SUBSET DOMAIN lines : remove_selected(selection)
             \/ reset_form
    <3>1. Recalculate
      BY <2>3 DEF EditPreviousBalance, add_line, remove_selected, reset_form
    <3> QED BY <3>1, RecalculateShows
  <2> QED BY <1>1, <2>1, <2>2, <2>3, EditCases
<1>2. CASE Restart
  <2>1. /\ form' = StartForm(Remembered) /\ lines' = <<>>
        /\ preview' = compute_totals(0, <<>>)
    BY <1>2 DEF Restart
  <2>2. form'.previous_balance = 0
    BY <2>1 DEF StartForm
  <2>3. preview' = Totals'
    BY <2>1, <2>2 DEF Totals
  <2> QED BY <2>3 DEF PreviewInv
<1>3. CASE Next /\ ~EditForm /\ ~Restart
  BY <1>3, BeyondTheForm DEF editing, PreviewInv, Totals
<1>4. CASE UNCHANGED vars
  BY <1>4 DEF vars, PreviewInv, Totals
<1> QED BY <1>1, <1>2, <1>3, <1>4

\* The program starts with the preview of an empty form.
LEMMA PreviewInit == Init => PreviewInv
<1> SUFFICES ASSUME Init
             PROVE  PreviewInv
  OBVIOUS
<1>1. form.previous_balance = 0 /\ lines = <<>> /\ preview = compute_totals(0, <<>>)
  BY DEF Init, StartForm
<1> QED BY <1>1 DEF PreviewInv, Totals

\* Whatever is edited in whatever order, the figures shown are those Generate
\* would write, but for a recalculation given up over an unreadable past due.
THEOREM PreviewCorrect == Spec => []PreviewAgrees
<1>1. Init => PreviewInv
  BY PreviewInit
<1>2. PreviewInv => PreviewAgrees
  BY DEF PreviewInv, PreviewAgrees
<1> QED BY <1>1, <1>2, FieldsInit, FieldsStep, PreviewStep, PTL DEF Spec

-----------------------------------------------------------------------------
\* What Generate has achieved by the time it remembers anything: the document
\* is whole and bears the logo asked for.
BuiltAsAsked ==
    /\ pc = "logo" => /\ data.logo = "own" /\ document.holds = "whole"
                      /\ {"holds", "logo"} \subseteq DOMAIN document
    /\ pc \in {"settings", "store"} =>
          document.holds = "whole" /\ document.logo = data.logo

\* Every step of Generate keeps to that order; edits cannot come between.
LEMMA BuiltStep == FieldsOK /\ BuiltAsAsked /\ [Next]_vars => BuiltAsAsked'
<1> SUFFICES ASSUME FieldsOK, BuiltAsAsked, [Next]_vars
             PROVE  BuiltAsAsked'
  OBVIOUS
<1>f. ASSUME pc' \notin {"logo", "settings", "store"}
      PROVE  BuiltAsAsked'
  BY <1>f DEF BuiltAsAsked
<1>1. CASE EditForm
  BY <1>1, <1>f, EditKeepsFields
<1>2. CASE \/ Restart \/ Generate \/ RefuseGenerate \/ FindTemplate \/ Decode
           \/ OpenDocument \/ BuildFails \/ SkipSettings \/ StoreSettings \/ SettingsFail
  BY <1>2, <1>f
     DEF Restart, Generate, RefuseGenerate, FindTemplate, Decode, OpenDocument,
         BuildFails, SkipSettings, StoreSettings, SettingsFail, Goto, Message
<1>3. CASE FillDocument
  <2>1. /\ data' = data /\ pc = "fill"
        /\ pc' = IF data.logo = "own" THEN "logo" ELSE "settings"
    BY <1>3 DEF FillDocument, Goto
  <2>2. /\ document'.holds = "whole" /\ document'.logo = "default"
        /\ {"holds", "logo"} \subseteq DOMAIN document'
    BY <1>3 DEF FillDocument
  <2>3. data.logo \in Logos
    BY <2>1 DEF FieldsOK
  <2> QED BY <2>1, <2>2, <2>3 DEF BuiltAsAsked, Logos
<1>4. CASE ReplaceLogo
  <2>1. /\ pc = "logo" /\ pc' = "settings" /\ data' = data
        /\ document' = [document EXCEPT !.logo = "own"]
    BY <1>4 DEF ReplaceLogo, Goto
  <2>2. /\ data.logo = "own" /\ document.holds = "whole"
        /\ {"holds", "logo"} \subseteq DOMAIN document
    BY <2>1 DEF BuiltAsAsked
  <2>3. document'.holds = "whole" /\ document'.logo = "own"
    BY <2>1, <2>2
  <2> QED BY <2>1, <2>2, <2>3 DEF BuiltAsAsked
<1>5. CASE OpenSettings
  BY <1>5 DEF OpenSettings, Goto, BuiltAsAsked
<1>6. CASE UNCHANGED vars
  BY <1>6 DEF vars, BuiltAsAsked
<1> QED BY <1>1, <1>2, <1>3, <1>4, <1>5, <1>6 DEF Next

\* Whatever fails and wherever the program is killed, nothing is remembered of
\* a company whose statement could not be built as asked for.
THEOREM SettingsFollowSuccess == Spec => RemembersWhatWorked
<1>1. Init => BuiltAsAsked
  BY DEF Init, BuiltAsAsked
<1>2. BuiltAsAsked /\ [Next]_vars =>
        [settings' # settings => document.holds = "whole" /\ document.logo = data.logo]_vars
  <2> SUFFICES ASSUME BuiltAsAsked, Next, settings' # settings
               PROVE  document.holds = "whole" /\ document.logo = data.logo
    BY DEF vars
  <2>1. ~EditForm
    BY EditCases DEF EditPreviousBalance, EditPastDue, ChooseLogo, add_line,
                     remove_selected, reset_form, Edit
  <2>2. OpenSettings \/ StoreSettings
    BY <2>1
       DEF Next, Generate, RefuseGenerate, FindTemplate, Decode, OpenDocument,
           FillDocument, ReplaceLogo, BuildFails, SkipSettings, SettingsFail, Restart,
           files
  <2>3. pc \in {"settings", "store"}
    BY <2>2 DEF OpenSettings, StoreSettings, Goto
  <2> QED BY <2>3 DEF BuiltAsAsked
<1> QED BY <1>1, <1>2, FieldsInit, FieldsStep, BuiltStep, PTL
        DEF Spec, RemembersWhatWorked

-----------------------------------------------------------------------------
(* Induction.  The library's own theorems take the induction hypothesis as  *)
(* an operator, which no prover here instantiates; for sets it follows from *)
(* finite sets being well-founded under inclusion, n standing for 1..n.     *)

\* A set of naturals that is not empty has a least element.
LEMMA LeastNatural ==
    ASSUME NEW T, T \subseteq Nat, T # {}
    PROVE  \E n \in T : \A m \in T : n <= m
<1> DEFINE U == {1 .. n : n \in T}
           R == StrictSubsetOrdering(Nat)
<1>1. U \subseteq FiniteSubsetsOf(Nat)
  <2> SUFFICES ASSUME NEW n \in T PROVE 1 .. n \in FiniteSubsetsOf(Nat)
    OBVIOUS
  <2>1. IsFiniteSet(1 .. n)
    BY FS_Interval
  <2> QED BY <2>1 DEF FiniteSubsetsOf
<1>2. IsWellFoundedOn(R, FiniteSubsetsOf(Nat))
  BY FS_StrictSubsetOrderingWellFounded
<1>3. U # {}
  OBVIOUS
<1>4. \E x \in U : \A y \in U : ~(<<y, x>> \in R)
  <2> HIDE DEF R, U
  <2> QED BY <1>1, <1>2, <1>3, WFMin
<1>5. PICK n \in T : \A m \in T : ~(<<1 .. m, 1 .. n>> \in R)
  BY <1>4
<1>6. ASSUME NEW m \in T, m < n PROVE FALSE
  <2>1. 1 .. m \subseteq 1 .. n /\ 1 .. m \subseteq Nat /\ 1 .. n \subseteq Nat
    BY <1>6
  <2>2. n \in 1 .. n /\ n \notin 1 .. m
    BY <1>6
  <2> QED BY <1>5, <2>1, <2>2 DEF StrictSubsetOrdering
<1> QED BY <1>6

\* A set that has 0, and n + 1 with each n, has every natural number.
LEMMA InductionOnNat ==
    ASSUME NEW T, 0 \in T, \A n \in Nat : n \in T => n + 1 \in T
    PROVE  Nat \subseteq T
<1> SUFFICES ASSUME Nat \ T # {} PROVE FALSE
  OBVIOUS
<1>1. PICK n \in Nat \ T : \A m \in Nat \ T : n <= m
  <2> DEFINE U == Nat \ T
  <2>1. U \subseteq Nat /\ U # {}
    OBVIOUS
  <2> HIDE DEF U
  <2>2. \E n \in U : \A m \in U : n <= m
    BY <2>1, LeastNatural
  <2> QED BY <2>2 DEF U
<1>2. n # 0 
  BY <1>1
<1>3. n - 1 \in Nat /\ (n-1) \in T
  BY <1>1, <1>2
<1> QED BY <1>1, <1>3

\* The library's sum of finitely many integers is one, by induction over the
\* number of summands: first that its recursion defines it, then what it is.
LEMMA SumIsInt ==
    ASSUME NEW D, IsFiniteSet(D), NEW f \in [D -> Int]
    PROVE  SumFunction(f) \in Int
<1> DEFINE c(s) == CHOOSE x \in s : TRUE
           Small(n) == {s \in SUBSET D : Cardinality(s) <= n}
           Sums(S, g) == g = [s \in S |-> IF s = {} THEN 0 ELSE f[c(s)] + g[s \ {c(s)}]]
           iter == CHOOSE g : Sums(SUBSET D, g)
<1>1. SumFunction(f) = iter[D]
  BY DEF SumFunction, SumFunctionOnSet, FoldFunctionOnSet, MapThenFoldSet
<1>2. \A s \in SUBSET D :
         /\ Cardinality(s) \in Nat /\ Cardinality(s) <= Cardinality(D)
         /\ Cardinality(s) = 0 <=> s = {}
  BY FS_Subset, FS_CardinalityType, FS_EmptySet
<1>3. \A s \in SUBSET D : s # {} =>
         /\ c(s) \in D /\ s \ {c(s)} \in SUBSET D
         /\ Cardinality(s \ {c(s)}) = Cardinality(s) - 1
  <2> SUFFICES ASSUME NEW s \in SUBSET D, s # {}
               PROVE  c(s) \in D /\ Cardinality(s \ {c(s)}) = Cardinality(s) - 1
    OBVIOUS
  <2>1. c(s) \in s /\ IsFiniteSet(s)
    BY FS_Subset
  <2> HIDE DEF c
  <2> QED BY <2>1, FS_RemoveElement
<1> HIDE DEF c
<1>4. \A s \in Small(0) : s = {}
  BY <1>2
<1>5. SUBSET D = Small(Cardinality(D)) /\ Cardinality(D) \in Nat
  BY <1>2
<1>6. \A n \in Nat : \A s \in Small(n + 1) : s # {} =>
         c(s) \in D /\ s \ {c(s)} \in Small(n) /\ s \ {c(s)} \in Small(n + 1)
  <2> SUFFICES ASSUME NEW n \in Nat, NEW s \in Small(n + 1), s # {}
               PROVE  c(s) \in D /\ s \ {c(s)} \in Small(n) /\ s \ {c(s)} \in Small(n + 1)
    OBVIOUS
  <2>1. s \in SUBSET D /\ Cardinality(s) \in Nat /\ Cardinality(s) <= n + 1
    BY <1>2
  <2>2. /\ c(s) \in D /\ s \ {c(s)} \in SUBSET D
        /\ Cardinality(s \ {c(s)}) = Cardinality(s) - 1
    BY <2>1, <1>3
  <2> QED BY <2>1, <2>2
<1>7. \A n \in Nat : Small(n) \subseteq SUBSET D
  OBVIOUS
<1> HIDE DEF Small
<1>8. \E g : Sums(SUBSET D, g)
  <2> DEFINE T == {n \in Nat : \E g : Sums(Small(n), g)}
  <2>1. 0 \in T
    <3>1. Sums(Small(0), [s \in Small(0) |-> 0])
      BY <1>4
    <3> QED BY <3>1
  <2>2. ASSUME NEW n \in Nat, n \in T
        PROVE  n + 1 \in T
    <3>1. PICK g : Sums(Small(n), g)
      BY <2>2
    <3> DEFINE h == [s \in Small(n + 1) |->
                        IF s = {} THEN 0 ELSE f[c(s)] + g[s \ {c(s)}]]
    <3>2. ASSUME NEW s \in Small(n + 1), s # {}
          PROVE  h[s \ {c(s)}] = g[s \ {c(s)}]
      BY <3>1, <3>2, <1>6
    <3>3. Sums(Small(n + 1), h)
      BY <3>2
    <3> HIDE DEF h, Sums
    <3> QED BY <3>3
  <2>3. Cardinality(D) \in T
    <3> HIDE DEF T
    <3> QED BY <2>1, <2>2, <1>5, InductionOnNat
  <2> QED BY <2>3, <1>5
<1>9. Sums(SUBSET D, iter)
  BY <1>8
<1> HIDE DEF iter
<1>10. iter[D] \in Int
  <2> DEFINE T == {n \in Nat : \A s \in Small(n) : iter[s] \in Int}
  <2>1. \A s \in SUBSET D : iter[s] = IF s = {} THEN 0 ELSE f[c(s)] + iter[s \ {c(s)}]
    BY <1>9
  <2>2. 0 \in T
    <3>1. iter[{}] = 0
      BY <2>1
    <3>2. \A s \in Small(0) : iter[s] \in Int
      BY <3>1, <1>4
    <3> QED BY <3>2
  <2>3. ASSUME NEW n \in Nat, n \in T
        PROVE  n + 1 \in T
    <3> SUFFICES ASSUME NEW s \in Small(n + 1)
                 PROVE  iter[s] \in Int
      OBVIOUS
    <3>1. s # {} => f[c(s)] \in Int /\ iter[s \ {c(s)}] \in Int
      BY <2>3, <1>6
    <3>2. s \in SUBSET D
      BY <1>7
    <3> QED BY <2>1, <3>1, <3>2
  <2>4. Cardinality(D) \in T
    <3> HIDE DEF T
    <3> QED BY <2>2, <2>3, <1>5, InductionOnNat
  <2> QED BY <2>4, <1>5
<1> QED BY <1>1, <1>10

\* The activity table as it should be for m lines, still to be filled.
Row == {Header, Placeholder, EmptyTotal}

TableOf(m) == [i \in 1..(m + 2) |->
    IF i = 1 THEN Header ELSE IF i = m + 2 THEN EmptyTotal ELSE Placeholder]

\* The template's own.
LEMMA TemplateIsTable == TemplateTable = TableOf(TemplateRows) /\ TemplateRows \in Nat \ {0}
BY TemplateAssumption DEF TemplateTable, TableOf

\* One element cut out of a sequence.
LEMMA SingleSubSeq ==
    ASSUME NEW S, NEW s \in Seq(S), NEW i \in 1..Len(s)
    PROVE  SubSeq(s, i, i) = <<s[i]>>
<1>1. SubSeq(s, i, i) = [k \in 1..1 |-> s[k + i - 1]]
  OBVIOUS
<1>2. \A k \in 1..1 : s[k + i - 1] = s[i]
  OBVIOUS
<1> QED BY <1>1, <1>2

\* Cloning the first body row before the total gives the table for one more.
LEMMA CloneGrows ==
    ASSUME NEW m \in Nat \ {0}
    PROVE  clone_row_before(TableOf(m), 1, m + 1) = TableOf(m + 1)
<1>1. TableOf(m)[2] = Placeholder /\ Len(TableOf(m)) = m + 2 /\ TableOf(m) \in Seq(Row)
  BY DEF TableOf, Row
<1>2. clone_row_before(TableOf(m), 1, m + 1)
        = SubSeq(TableOf(m), 1, m + 1) \o <<Placeholder>> \o SubSeq(TableOf(m), m + 2, m + 2)
  BY <1>1 DEF clone_row_before, InsertAt
<1>3. SubSeq(TableOf(m), 1, m + 1) = [i \in 1..(m + 1) |-> TableOf(m)[i]]
  BY <1>1
<1>4. SubSeq(TableOf(m), m + 2, m + 2) = <<EmptyTotal>>
  <2>1. TableOf(m)[m + 2] = EmptyTotal
    BY DEF TableOf
  <2>2. m + 2 \in 1..Len(TableOf(m))
    BY <1>1
  <2> QED BY <1>1, <2>1, <2>2, SingleSubSeq
<1> QED BY <1>2, <1>3, <1>4 DEF TableOf

\* Removing the row before the total gives the table for one less.
LEMMA RemoveShrinks ==
    ASSUME NEW m \in Nat \ {0}
    PROVE  remove_row(TableOf(m), m) = TableOf(m - 1)
<1>1. Len(TableOf(m)) = m + 2 /\ TableOf(m) \in Seq(Row)
  BY DEF TableOf, Row
<1>2. remove_row(TableOf(m), m)
        = SubSeq(TableOf(m), 1, m) \o SubSeq(TableOf(m), m + 2, m + 2)
  BY <1>1 DEF remove_row, RemoveAt
<1>3. SubSeq(TableOf(m), 1, m) = [i \in 1..m |-> TableOf(m)[i]]
  BY <1>1
<1>4. SubSeq(TableOf(m), m + 2, m + 2) = <<EmptyTotal>>
  <2>1. TableOf(m)[m + 2] = EmptyTotal
    BY DEF TableOf
  <2>2. m + 2 \in 1..Len(TableOf(m))
    BY <1>1
  <2> QED BY <1>1, <2>1, <2>2, SingleSubSeq
<1> QED BY <1>2, <1>3, <1>4 DEF TableOf


\* So cloning n times makes room for n more, by induction over the loop.
LEMMA GrownIs ==
    ASSUME NEW n \in Nat
    PROVE  Grown(n) = [table |-> TableOf(TemplateRows + n), total |-> TemplateRows + n + 1]
<1> DEFINE At(k) == [table |-> TableOf(TemplateRows + k), total |-> TemplateRows + k + 1]
           Step(t) == [table |-> clone_row_before(t.table, 1, t.total), total |-> t.total + 1]
           Grows(g) == g = [k \in 0..n |-> IF k = 0 THEN Start ELSE Step(g[k - 1])]
           grown == CHOOSE g : Grows(g)
<1>1. Grown(n) = grown[n]
  BY DEF Grown
<1>2. At(0) = Start
  <2>1. TemplateTable = TableOf(TemplateRows) /\ TemplateRows \in Nat
    BY TemplateIsTable
  <2>2. Len(TableOf(TemplateRows)) = TemplateRows + 2
    BY <2>1 DEF TableOf
  <2> QED BY <2>1, <2>2 DEF Start
<1>3. \A k \in Nat : Step(At(k)) = At(k + 1)
  <2> SUFFICES ASSUME NEW k \in Nat
               PROVE  Step(At(k)) = At(k + 1)
    OBVIOUS
  <2>1. TemplateRows + k \in Nat \ {0}
    BY TemplateAssumption
  <2>2. clone_row_before(TableOf(TemplateRows + k), 1, TemplateRows + k + 1)
          = TableOf(TemplateRows + k + 1)
    BY <2>1, CloneGrows
  <2>3. TemplateRows + k + 1 = TemplateRows + (k + 1)
    BY TemplateAssumption
  <2> QED BY <2>2, <2>3
<1> HIDE DEF At, Step
<1>4. Grows(grown)
  <2>1. Grows([k \in 0..n |-> At(k)])
    <3> DEFINE g == [k \in 0..n |-> At(k)]
    <3>1. \A k \in 0..n : k # 0 => g[k] = Step(g[k - 1])
      <4> SUFFICES ASSUME NEW k \in 0..n, k # 0
                   PROVE  g[k] = Step(g[k - 1])
        OBVIOUS
      <4>1. k - 1 \in Nat /\ k - 1 \in 0..n /\ (k - 1) + 1 = k
        OBVIOUS
      <4>2. Step(At(k - 1)) = At(k)
        BY <4>1, <1>3
      <4> QED BY <4>1, <4>2
    <3> QED BY <3>1, <1>2
  <2> HIDE DEF Grows
  <2> QED BY <2>1
<1> HIDE DEF grown
<1>5. grown[n] = At(n)
  <2> DEFINE T == {k \in Nat : k \in 0..n => grown[k] = At(k)}
  <2>1. 0 \in T
    BY <1>4, <1>2
  <2>2. ASSUME NEW k \in Nat, k \in T
        PROVE  k + 1 \in T
    <3> SUFFICES ASSUME k + 1 \in 0..n
                 PROVE  grown[k + 1] = At(k + 1)
      OBVIOUS
    <3>1. k \in 0..n /\ k + 1 # 0 /\ (k + 1) - 1 = k
      OBVIOUS
    <3>2. grown[k + 1] = Step(grown[k])
      BY <1>4, <3>1
    <3> QED BY <2>2, <3>1, <3>2, <1>3
  <2>3. n \in T
    <3> HIDE DEF T
    <3> QED BY <2>1, <2>2, InductionOnNat
  <2> QED BY <2>3
<1> QED BY <1>1, <1>5 DEF At

\* And removing as often takes it away; the template has that many rows.
LEMMA ShrunkIs ==
    ASSUME NEW n \in 0..TemplateRows
    PROVE  Shrunk(n) = [table |-> TableOf(TemplateRows - n), total |-> TemplateRows - n + 1]
<1> DEFINE At(k) == [table |-> TableOf(TemplateRows - k), total |-> TemplateRows - k + 1]
           Step(t) == [table |-> remove_row(t.table, t.total - 1), total |-> t.total - 1]
           Shrinks(g) == g = [k \in 0..n |-> IF k = 0 THEN Start ELSE Step(g[k - 1])]
           shrunk == CHOOSE g : Shrinks(g)
<1>1. Shrunk(n) = shrunk[n]
  BY DEF Shrunk
<1>2. At(0) = Start
  <2>1. TemplateTable = TableOf(TemplateRows) /\ TemplateRows \in Nat
    BY TemplateIsTable
  <2>2. Len(TableOf(TemplateRows)) = TemplateRows + 2
    BY <2>1 DEF TableOf
  <2> QED BY <2>1, <2>2 DEF Start
<1>3. \A k \in 0..(n - 1) : Step(At(k)) = At(k + 1)
  <2> SUFFICES ASSUME NEW k \in 0..(n - 1)
               PROVE  Step(At(k)) = At(k + 1)
    OBVIOUS
  <2>1. TemplateRows - k \in Nat \ {0}
    BY TemplateAssumption
  <2>2. remove_row(TableOf(TemplateRows - k), TemplateRows - k) = TableOf(TemplateRows - k - 1)
    BY <2>1, RemoveShrinks
  <2>3. /\ TemplateRows - k - 1 = TemplateRows - (k + 1)
        /\ TemplateRows - k + 1 - 1 = TemplateRows - k
        /\ TemplateRows - (k + 1) + 1 = TemplateRows - k
    BY TemplateAssumption
  <2>4. Step(At(k)) = [table |-> remove_row(TableOf(TemplateRows - k), TemplateRows - k),
                       total |-> TemplateRows - k]
    <3>1. At(k).table = TableOf(TemplateRows - k) /\ At(k).total = TemplateRows - k + 1
      OBVIOUS
    <3> HIDE DEF At
    <3>2. At(k).total - 1 = TemplateRows - k
      BY <3>1, TemplateAssumption
    <3> QED BY <3>1, <3>2
  <2>5. At(k + 1) = [table |-> TableOf(TemplateRows - k - 1), total |-> TemplateRows - k]
    BY <2>3
  <2> HIDE DEF At, Step
  <2> QED BY <2>2, <2>4, <2>5
<1> HIDE DEF At, Step
<1>4. Shrinks(shrunk)
  <2>1. Shrinks([k \in 0..n |-> At(k)])
    <3> DEFINE g == [k \in 0..n |-> At(k)]
    <3>1. \A k \in 0..n : k # 0 => g[k] = Step(g[k - 1])
      <4> SUFFICES ASSUME NEW k \in 0..n, k # 0
                   PROVE  g[k] = Step(g[k - 1])
        OBVIOUS
      <4>1. k - 1 \in 0..(n - 1) /\ k - 1 \in 0..n /\ (k - 1) + 1 = k
        OBVIOUS
      <4>2. Step(At(k - 1)) = At(k)
        BY <4>1, <1>3
      <4> QED BY <4>1, <4>2
    <3> QED BY <3>1, <1>2
  <2> HIDE DEF Shrinks
  <2> QED BY <2>1
<1> HIDE DEF shrunk
<1>5. shrunk[n] = At(n)
  <2> DEFINE T == {k \in Nat : k \in 0..n => shrunk[k] = At(k)}
  <2>1. 0 \in T
    BY <1>4, <1>2
  <2>2. ASSUME NEW k \in Nat, k \in T
        PROVE  k + 1 \in T
    <3> SUFFICES ASSUME k + 1 \in 0..n
                 PROVE  shrunk[k + 1] = At(k + 1)
      OBVIOUS
    <3>1. k \in 0..n /\ k \in 0..(n - 1) /\ k + 1 # 0 /\ (k + 1) - 1 = k
      OBVIOUS
    <3>2. shrunk[k + 1] = Step(shrunk[k])
      BY <1>4, <3>1
    <3> QED BY <2>2, <3>1, <3>2, <1>3
  <2>3. n \in T
    <3> HIDE DEF T
    <3> QED BY <2>1, <2>2, InductionOnNat
  <2> QED BY <2>3
<1> QED BY <1>1, <1>5 DEF At

\* The table fits any number of lines.
LEMMA MeasuredIs ==
    ASSUME NEW n \in Nat
    PROVE  Measured(n) = [table |-> TableOf(n), total |-> n + 1]
<1>1. Start.total - 1 = TemplateRows /\ TemplateRows \in Nat
  <2>1. TemplateTable = TableOf(TemplateRows) /\ TemplateRows \in Nat
    BY TemplateIsTable
  <2>2. Len(TableOf(TemplateRows)) = TemplateRows + 2
    BY <2>1 DEF TableOf
  <2> QED BY <2>1, <2>2 DEF Start
<1>2. CASE n > TemplateRows
  <2>1. n - TemplateRows \in Nat /\ TemplateRows + (n - TemplateRows) = n
    BY <1>1, <1>2
  <2> QED BY <1>1, <1>2, <2>1, GrownIs DEF Measured
<1>3. CASE ~(n > TemplateRows)
  <2>1. TemplateRows - n \in 0..TemplateRows /\ TemplateRows - (TemplateRows - n) = n
    BY <1>1, <1>3
  <2> QED BY <1>1, <1>3, <2>1, ShrunkIs DEF Measured
<1> QED BY <1>2, <1>3

\* Lines as add_line takes them.
Readable == {e \in Entries : Garbled \notin {e.charge, e.payment}}

\* Lines that add_line takes can be summed up.
LEMMA SumsAreInt ==
    ASSUME NEW ls \in Seq(Readable)
    PROVE  Charges(ls) \in Int /\ Payments(ls) \in Int
<1>1. IsFiniteSet(DOMAIN ls)
  BY FS_Interval
<1>2. \A i \in DOMAIN ls : Amount(ls[i].charge) \in Int /\ Amount(ls[i].payment) \in Int
  BY EntriesAssumption DEF Readable, Amount
<1>3. /\ [i \in DOMAIN ls |-> Amount(ls[i].charge)] \in [DOMAIN ls -> Int]
      /\ [i \in DOMAIN ls |-> Amount(ls[i].payment)] \in [DOMAIN ls -> Int]
  BY <1>2
<1> QED BY <1>1, <1>3, SumIsInt DEF Charges, Payments

\* The table filled.
Line(l) == [row |-> "line", charge |-> l.charge, payment |-> l.payment]
Total(ls) == [row |-> "total", charge |-> Charges(ls), payment |-> Payments(ls)]
ActivityOf(ls) == [i \in 1..(Len(ls) + 2) |->
    IF i = 1 THEN Header ELSE IF i = Len(ls) + 2 THEN Total(ls) ELSE Line(ls[i - 1])]

\* Activity is that table: rows past the header and before the total are lines.
LEMMA ActivityIs ==
    ASSUME NEW ls \in Seq(Readable)
    PROVE  Activity(ls) = ActivityOf(ls)
<1>1. Len(ls) \in Nat
  OBVIOUS
<1>2. Measured(Len(ls)) = [table |-> TableOf(Len(ls)), total |-> Len(ls) + 1]
  BY <1>1, MeasuredIs
<1>3. DOMAIN TableOf(Len(ls)) = 1..(Len(ls) + 2)
  BY DEF TableOf
<1>4. \A i \in 1..(Len(ls) + 2) :
         /\ i - 2 \in 0..(Len(ls) - 1) <=> i # 1 /\ i # Len(ls) + 2
         /\ i = 1 => TableOf(Len(ls))[i] = Header
  BY <1>1 DEF TableOf
<1>5. Activity(ls) = [i \in 1..(Len(ls) + 2) |->
          IF i - 2 \in 0..(Len(ls) - 1) THEN Line(ls[i - 1])
          ELSE IF i = Len(ls) + 1 + 1 THEN Total(ls) ELSE TableOf(Len(ls))[i]]
  BY <1>2, <1>3 DEF Activity, Line, Total
<1> HIDE DEF TableOf
<1> QED BY <1>1, <1>4, <1>5 DEF ActivityOf

\* What a statement with these lines says, read back from its table.
LEMMA TableAddsUp ==
    ASSUME NEW ls \in Seq(Readable), NEW table, table = ActivityOf(ls)
    PROVE  LET body == SubSeq(table, 2, Len(table) - 1)
           IN /\ table[1] = Header
              /\ \A i \in DOMAIN body : body[i].row = "line"
              /\ Last(table) = Total(ls)
              /\ Charges(body) = Charges(ls) /\ Payments(body) = Payments(ls)
<1> DEFINE n == Len(ls)
           body == SubSeq(table, 2, Len(table) - 1)
<1>1. n \in Nat /\ DOMAIN ls = 1..n
  OBVIOUS
<1> HIDE DEF n
<1>2. Len(table) = n + 2 /\ DOMAIN table = 1..(n + 2)
  BY <1>1 DEF ActivityOf, n
<1>3. table[1] = Header /\ table[n + 2] = Total(ls)
      /\ \A i \in 1..n : table[i + 1] = Line(ls[i])
  BY <1>1 DEF ActivityOf, n
<1>4. body = [i \in 1..n |-> table[i + 1]]
  BY <1>1, <1>2
<1>5. DOMAIN body = 1..n /\ \A i \in 1..n : body[i] = Line(ls[i])
  BY <1>3, <1>4
<1> HIDE DEF body
<1>6. \A i \in 1..n : /\ body[i].row = "line"
                      /\ body[i].charge = ls[i].charge /\ body[i].payment = ls[i].payment
  BY <1>5 DEF Line
<1>7. Charges(body) = Charges(ls) /\ Payments(body) = Payments(ls)
  BY <1>1, <1>5, <1>6 DEF Charges, Payments
<1>8. Last(table) = Total(ls)
  BY <1>2, <1>3 DEF Last
<1> QED BY <1>3, <1>5, <1>6, <1>7, <1>8 DEF body
-----------------------------------------------------------------------------
\* The lines are readable entries, whatever is added or removed.
LinesOK == lines \in Seq(Readable)

\* Every step keeps them so.
LEMMA LinesStep == LinesOK /\ [Next]_vars => LinesOK'
<1> SUFFICES ASSUME LinesOK, [Next]_vars
             PROVE  LinesOK'
  OBVIOUS
<1>1. CASE EditForm
  <2>1. CASE \/ \E text \in Texts : EditPreviousBalance(text)
             \/ \E text \in Texts : EditPastDue(text)
             \/ \E logo \in Logos : ChooseLogo(logo)
    BY <2>1 DEF EditPreviousBalance, EditPastDue, ChooseLogo, LinesOK
  <2>2. CASE \E entry \in Entries : add_line(entry)
    <3>1. PICK entry \in Entries : lines' = Append(lines, entry) /\ entry \in Readable
      BY <2>2 DEF add_line, Readable
    <3> QED BY <3>1 DEF LinesOK
  <2>3. CASE \E selection \in SUBSET DOMAIN lines : remove_selected(selection)
    <3>1. PICK selection \in SUBSET DOMAIN lines : remove_selected(selection)
      BY <2>3
    <3> DEFINE left == DOMAIN lines \ selection
    <3>2. PICK kept \in [1..Cardinality(left) -> left] :
               lines' = [i \in DOMAIN kept |-> lines[kept[i]]]
      BY <3>1 DEF remove_selected
    <3>3. Cardinality(left) \in Nat
      <4>1. IsFiniteSet(DOMAIN lines)
        BY FS_Interval DEF LinesOK
      <4>2. IsFiniteSet(left)
        BY <4>1, FS_Subset
      <4> QED BY <4>2, FS_CardinalityType
    <3>4. \A i \in 1..Cardinality(left) : lines[kept[i]] \in Readable
      <4> SUFFICES ASSUME NEW i \in 1..Cardinality(left)
                   PROVE  lines[kept[i]] \in Readable
        OBVIOUS
      <4>1. kept[i] \in DOMAIN lines
        BY <3>2
      <4> QED BY <4>1 DEF LinesOK
    <3> HIDE DEF left
    <3> QED BY <3>2, <3>3, <3>4 DEF LinesOK
  <2>4. CASE reset_form
    BY <2>4 DEF reset_form, LinesOK
  <2> QED BY <1>1, <2>1, <2>2, <2>3, <2>4, EditCases
<1>2. CASE Restart
  <2>1. lines' = <<>>
    BY <1>2 DEF Restart
  <2> QED BY <2>1 DEF LinesOK
<1>3. CASE Next /\ ~EditForm /\ ~Restart
  BY <1>3, BeyondTheForm DEF editing, LinesOK
<1>4. CASE UNCHANGED vars
  BY <1>4 DEF vars, LinesOK
<1> QED BY <1>1, <1>2, <1>3, <1>4

\* The statement of what is on the form, with this logo.
StatementOf(logo) ==
    [holds |-> "whole", table |-> Activity(lines),
     summary |-> [previous_balance |-> form.previous_balance, past_due |-> form.past_due,
                  totals |-> compute_totals(form.previous_balance, lines)],
     logo |-> logo]

\* While Generate runs it has what the form holds, which nobody can edit; what
\* it has written by then is the statement of that; and so is what it says it
\* has saved, until the next edit.
GenerateInv ==
    /\ pc # "form" =>
          /\ data = [previous_balance |-> form.previous_balance, past_due |-> form.past_due,
                     lines |-> lines, logo |-> form.logo]
          /\ form.previous_balance # Garbled /\ said # "saved"
    /\ pc = "logo" => data.logo = "own" /\ document = StatementOf("default")
    /\ pc \in {"settings", "store"} => document = StatementOf(form.logo)
    /\ said = "saved" => document = StatementOf(form.logo) /\ form.previous_balance # Garbled

\* An edit or a message takes back "saved".
LEMMA EditSaysNothing ==
    ASSUME EditForm
    PROVE  said' = "" /\ pc' = "form"
<1>1. Edit
  BY EditCases DEF EditPreviousBalance, EditPastDue, ChooseLogo, add_line,
                   remove_selected, reset_form
<1> QED BY <1>1 DEF Edit

\* Every step of Generate writes what it collected.
LEMMA GenerateStep == FieldsOK /\ GenerateInv /\ [Next]_vars => GenerateInv'
<1> SUFFICES ASSUME FieldsOK, GenerateInv, [Next]_vars
             PROVE  GenerateInv'
  OBVIOUS
<1>s. ASSUME UNCHANGED <<form, lines>>, NEW logo
      PROVE  StatementOf(logo)' = StatementOf(logo)
  BY <1>s DEF StatementOf
<1>f. ASSUME pc' = "form", said' # "saved"
      PROVE  GenerateInv'
  BY <1>f DEF GenerateInv
<1>g. ASSUME UNCHANGED editing, UNCHANGED <<data, said>>, pc # "form",
             pc' \notin {"logo", "settings", "store"}
      PROVE  GenerateInv'
  BY <1>g DEF GenerateInv, editing
<1>m. ASSUME UNCHANGED editing, Message("saved"), pc \in {"settings", "store"},
             document' = document
      PROVE  GenerateInv'
  <2>1. document = StatementOf(form.logo) /\ form.previous_balance # Garbled
    BY <1>m DEF GenerateInv
  <2>2. pc' = "form" /\ UNCHANGED <<form, lines>>
    BY <1>m DEF Message, editing
  <2>3. StatementOf(form.logo)' = StatementOf(form.logo)
    BY <2>2 DEF StatementOf
  <2> QED BY <1>m, <2>1, <2>2, <2>3 DEF GenerateInv
<1>1. CASE EditForm
  BY <1>1, <1>f, EditSaysNothing
<1>2. CASE Restart
  BY <1>2, <1>f DEF Restart, Message
<1>3. CASE RefuseGenerate \/ BuildFails
  BY <1>3, <1>f DEF RefuseGenerate, BuildFails, Message
<1>4. CASE Generate
  <2>1. /\ UNCHANGED <<form, lines>> /\ pc' = "template" /\ said' = ""
        /\ data' = [previous_balance |-> form.previous_balance, past_due |-> form.past_due,
                    lines |-> lines, logo |-> form.logo]
        /\ form.previous_balance # Garbled
    BY <1>4 DEF Generate, editing
  <2> QED BY <2>1 DEF GenerateInv
<1>5. CASE FindTemplate \/ Decode \/ OpenDocument
  BY <1>5, <1>g DEF FindTemplate, Decode, OpenDocument, Goto
<1>6. CASE FillDocument
  <2>1. /\ pc = "fill" /\ pc' = IF data.logo = "own" THEN "logo" ELSE "settings"
        /\ UNCHANGED <<form, lines>> /\ UNCHANGED <<data, said>>
    BY <1>6 DEF FillDocument, Goto, editing
  <2>2. /\ data = [previous_balance |-> form.previous_balance, past_due |-> form.past_due,
                   lines |-> lines, logo |-> form.logo]
        /\ form.previous_balance # Garbled /\ said # "saved"
    BY <2>1 DEF GenerateInv
  <2>3. document' = StatementOf("default")
    BY <1>6, <2>2 DEF FillDocument, Summary, StatementOf
  <2>4. document' = StatementOf("default")'
    BY <2>1, <2>3, <1>s
  <2>5. data.logo = form.logo /\ form.logo \in Logos
    BY <2>2 DEF FieldsOK
  <2>6. pc' = "settings" => form'.logo = "default"
    BY <2>1, <2>5 DEF Logos
  <2>7. pc' = "settings" => document' = StatementOf(form.logo)'
    BY <2>4, <2>6
  <2> QED BY <2>1, <2>2, <2>4, <2>7 DEF GenerateInv
<1>7. CASE ReplaceLogo
  <2>1. /\ pc = "logo" /\ pc' = "settings" /\ UNCHANGED <<form, lines>> /\ UNCHANGED <<data, said>>
        /\ document' = [document EXCEPT !.logo = "own"]
    BY <1>7 DEF ReplaceLogo, Goto, editing
  <2>2. document = StatementOf("default") /\ form.logo = "own"
    BY <2>1 DEF GenerateInv
  <2>3. document' = StatementOf("own")
    BY <2>1, <2>2 DEF StatementOf
  <2>4. document' = StatementOf(form.logo)'
    BY <2>1, <2>2, <2>3 DEF StatementOf
  <2> QED BY <2>1, <2>4 DEF GenerateInv
<1>8. CASE OpenSettings
  <2>1. /\ pc = "settings" /\ pc' = "store" /\ UNCHANGED <<form, lines>>
        /\ UNCHANGED <<data, said, document>>
    BY <1>8 DEF OpenSettings, Goto, editing
  <2>2. StatementOf(form.logo)' = StatementOf(form.logo)
    BY <2>1 DEF StatementOf
  <2> QED BY <2>1, <2>2 DEF GenerateInv
<1>9. CASE SkipSettings \/ StoreSettings \/ SettingsFail
  BY <1>9, <1>m DEF SkipSettings, StoreSettings, SettingsFail, files
<1>10. CASE UNCHANGED vars
  <2>1. UNCHANGED <<form, lines, pc, data, said, document>>
    BY <1>10 DEF vars
  <2>2. \A logo : StatementOf(logo)' = StatementOf(logo)
    BY <2>1 DEF StatementOf
  <2> QED BY <2>1, <2>2 DEF GenerateInv
<1> QED BY <1>1, <1>2, <1>3, <1>4, <1>5, <1>6, <1>7, <1>8, <1>9, <1>10 DEF Next

\* The program starts with no lines, and with nothing generated.
LEMMA GenerateInit == Init => GenerateInv /\ LinesOK
<1> SUFFICES ASSUME Init
             PROVE  GenerateInv /\ LinesOK
  OBVIOUS
<1>1. lines = <<>> /\ pc = "form" /\ said = ""
  BY DEF Init
<1>2. GenerateInv
  BY <1>1 DEF GenerateInv
<1>3. LinesOK
  <2>1. lines = <<>>
    BY <1>1
  <2>2. <<>> \in Seq(Readable)
    OBVIOUS
  <2> QED BY <2>1, <2>2 DEF LinesOK
<1> QED BY <1>2, <1>3

\* "Saved" is only said of the statement of the form.
LEMMA SavedFromInv ==
    ASSUME LinesOK, FieldsOK, GenerateInv, PreviewInv
    PROVE  SavedIsWhole
<1> SUFFICES ASSUME said = "saved"
             PROVE  SavedIsWhole
  BY DEF SavedIsWhole
<1>1. document = StatementOf(form.logo) /\ form.previous_balance # Garbled
  BY DEF GenerateInv
<1>2. /\ document.holds = "whole" /\ document.logo = form.logo
      /\ document.table = ActivityOf(lines)
      /\ document.summary.previous_balance = form.previous_balance
      /\ document.summary.past_due = form.past_due
      /\ document.summary.totals = Totals
  BY <1>1, ActivityIs DEF StatementOf, LinesOK, Totals
<1>3. Len(lines) \in Nat /\ DOMAIN lines = 1..Len(lines)
  BY DEF LinesOK
<1>4. Len(ActivityOf(lines)) = Len(lines) + 2
  BY <1>3 DEF ActivityOf
<1>5. \A i \in DOMAIN lines : /\ ActivityOf(lines)[i + 1].charge = lines[i].charge
                              /\ ActivityOf(lines)[i + 1].payment = lines[i].payment
  <2>1. \A i \in DOMAIN lines : ActivityOf(lines)[i + 1] = Line(lines[i])
    BY <1>3 DEF ActivityOf
  <2> SUFFICES ASSUME NEW i \in DOMAIN lines
               PROVE  /\ ActivityOf(lines)[i + 1].charge = lines[i].charge
                      /\ ActivityOf(lines)[i + 1].payment = lines[i].payment
    OBVIOUS
  <2>2. /\ Line(lines[i]).charge = lines[i].charge
        /\ Line(lines[i]).payment = lines[i].payment
    BY DEF Line
  <2> QED BY <2>1, <2>2
<1>6. ~behind => document.summary.totals = preview
  BY <1>1, <1>2 DEF PreviewInv
<1> QED BY <1>2, <1>4, <1>5, <1>6 DEF SavedIsWhole

\* Whatever fails, wherever the program is killed and however it is edited in
\* between, "saved" is said of a statement that is there, whole, and of what is
\* on the form.
THEOREM SavedCorrect == Spec => []SavedIsWhole
<1>1. Init => PreviewInv
  BY PreviewInit
<1> QED BY <1>1, FieldsInit, FieldsStep, PreviewStep, GenerateInit, GenerateStep, LinesStep,
           SavedFromInv, PTL DEF Spec

-----------------------------------------------------------------------------
\* A whole document is the statement of some lines and some balance.
DocumentInv ==
    document.holds = "whole" =>
        \E ls \in Seq(Readable), previous \in Int :
            /\ document.table = ActivityOf(ls)
            /\ document.summary.previous_balance = previous
            /\ document.summary.totals = compute_totals(previous, ls)

\* Only filling writes one, and a logo put into it changes nothing else.
LEMMA DocumentStep ==
    FieldsOK /\ LinesOK /\ GenerateInv /\ DocumentInv /\ [Next]_vars => DocumentInv'
<1> SUFFICES ASSUME FieldsOK, LinesOK, GenerateInv, DocumentInv, [Next]_vars
             PROVE  DocumentInv'
  OBVIOUS
<1>u. ASSUME document' = document
      PROVE  DocumentInv'
  BY <1>u DEF DocumentInv
<1>w. ASSUME document'.holds # "whole"
      PROVE  DocumentInv'
  BY <1>w DEF DocumentInv
<1>s. ASSUME NEW logo, document' = StatementOf(logo), form.previous_balance # Garbled
      PROVE  DocumentInv'
  <2>1. lines \in Seq(Readable) /\ form.previous_balance \in Int
    <3>1. form.previous_balance \in {0} \cup Amounts
      BY <1>s DEF FieldsOK, Texts
    <3>2. \A amount \in {0} \cup Amounts : amount \in Int
      BY AmountsAssumption
    <3>3. form.previous_balance \in Int
      BY <3>1, <3>2
    <3> QED BY <3>3 DEF LinesOK
  <2>2. /\ document'.table = ActivityOf(lines)
        /\ document'.summary.previous_balance = form.previous_balance
        /\ document'.summary.totals = compute_totals(form.previous_balance, lines)
    BY <1>s, <2>1, ActivityIs DEF StatementOf
  <2> QED BY <2>1, <2>2 DEF DocumentInv
<1>1. CASE EditForm
  <2>1. Edit
    BY <1>1, EditCases DEF EditPreviousBalance, EditPastDue, ChooseLogo, add_line,
                           remove_selected, reset_form
  <2>2. document' = IF document.holds = "whole" THEN [holds |-> "earlier"] ELSE document
    BY <2>1 DEF Edit
  <2>3. document'.holds # "whole"
    BY <2>2
  <2> QED BY <2>3, <1>w
<1>2. CASE OpenDocument
  <2>1. document'.holds # "whole"
    BY <1>2 DEF OpenDocument
  <2> QED BY <2>1, <1>w
<1>3. CASE FillDocument
  <2>1. /\ data = [previous_balance |-> form.previous_balance, past_due |-> form.past_due,
                   lines |-> lines, logo |-> form.logo]
        /\ form.previous_balance # Garbled
    BY <1>3 DEF FillDocument, Goto, GenerateInv
  <2>2. document' = StatementOf("default")
    BY <1>3, <2>1 DEF FillDocument, Summary, StatementOf
  <2> QED BY <2>1, <2>2, <1>s
<1>4. CASE ReplaceLogo
  <2>1. pc = "logo" /\ document' = [document EXCEPT !.logo = "own"]
    BY <1>4 DEF ReplaceLogo, Goto
  <2>2. document = StatementOf("default") /\ form.previous_balance # Garbled
    BY <2>1 DEF GenerateInv
  <2>3. document' = StatementOf("own")
    BY <2>1, <2>2 DEF StatementOf
  <2> QED BY <2>2, <2>3, <1>s
<1>5. CASE \/ Generate \/ RefuseGenerate \/ FindTemplate \/ Decode \/ BuildFails
           \/ SkipSettings \/ OpenSettings \/ StoreSettings \/ SettingsFail \/ Restart
  BY <1>5, <1>u
     DEF Generate, RefuseGenerate, FindTemplate, Decode, BuildFails, SkipSettings,
         OpenSettings, StoreSettings, SettingsFail, Restart, files
<1>6. CASE UNCHANGED vars
  BY <1>6, <1>u DEF vars
<1> QED BY <1>1, <1>2, <1>3, <1>4, <1>5, <1>6 DEF Next

\* What is written down adds up.
LEMMA AddsUpFromInv ==
    ASSUME DocumentInv
    PROVE  StatementAddsUp
<1> SUFFICES ASSUME document.holds = "whole"
             PROVE  StatementAddsUp
  BY DEF StatementAddsUp
<1> DEFINE body == SubSeq(document.table, 2, Len(document.table) - 1)
<1>1. PICK ls \in Seq(Readable), previous \in Int :
           /\ document.table = ActivityOf(ls)
           /\ document.summary.previous_balance = previous
           /\ document.summary.totals = compute_totals(previous, ls)
  BY DEF DocumentInv
<1>2. /\ document.table[1] = Header
      /\ \A i \in DOMAIN body : body[i].row = "line"
      /\ Last(document.table) = Total(ls)
      /\ Charges(body) = Charges(ls) /\ Payments(body) = Payments(ls)
  BY <1>1, TableAddsUp
<1>3. /\ document.summary.totals.new_charges = Charges(ls)
      /\ document.summary.totals.payments_credits = Payments(ls)
      /\ document.summary.totals.amount_due = previous + Charges(ls) - Payments(ls)
  BY <1>1, SumsAreInt DEF compute_totals
<1>4. Total(ls) = [row |-> "total", charge |-> Charges(body), payment |-> Payments(body)]
  BY <1>2 DEF Total
<1> HIDE DEF body
<1> QED BY <1>1, <1>2, <1>3, <1>4 DEF StatementAddsUp, body

\* A statement adds up for any number of lines and whatever template: a row
\* for each line, no other row left, the total last, the same sums in table
\* and summary, and an amount due that follows from them.
THEOREM StatementCorrect == Spec => []StatementAddsUp
<1>1. Init => DocumentInv
  <2> SUFFICES ASSUME Init
               PROVE  document.holds # "whole"
    BY DEF DocumentInv
  <2> QED BY DEF Init, NoDocument
<1> QED BY <1>1, FieldsInit, FieldsStep, GenerateInit, GenerateStep, LinesStep, DocumentStep,
           AddsUpFromInv, PTL DEF Spec

=============================================================================
