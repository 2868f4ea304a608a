------------------------------- MODULE Billing -------------------------------
(***************************************************************************)
(* The billing form (billing_app.py): edits and the live preview, Generate *)
(* with everything it writes, Reset, and a program that may be killed and  *)
(* started again.  Tk calls one handler at a time, and none while a dialog *)
(* is open; so Generate is cut into its accesses to files only, between    *)
(* which the program may die.  The logo stands for all the company fields  *)
(* that are remembered.  Whether a customer is named, "Remember" is ticked *)
(* and an image can be read is decided where it is asked.                  *)
(***************************************************************************)
EXTENDS Statement, FiniteSets

CONSTANTS
    Amounts,   \* what is typed as an amount and read by parse_money
    Garbled,   \* an amount parse_money refuses
    Entries,   \* what is typed below the table: charge and payment
    MaxLines   \* bound of the model: lines of a statement

ASSUME AmountsAssumption == Amounts \subseteq Int
ASSUME EntriesAssumption ==
    \A e \in Entries : {e.charge, e.payment} \subseteq {NoAmount, Garbled} \cup Int

VARIABLES
    form,      \* the fields: previous_balance, past_due, logo
    lines,     \* the activity table
    preview,   \* the totals shown
    behind,    \* history: a recalculation was given up, and none has worked
               \* since, with a past due nobody could read
    pc,        \* where Generate is; "form" while it is not running
    data,      \* what Generate collected
    template,  \* the decoded template: "absent", "part" or "whole"
    document,  \* the file under the chosen name; "earlier" is a statement of
               \* what the form held before it was edited
    settings,  \* what is remembered: "none", "torn" or a logo
    said       \* the last message: "", "saved" or "error"

vars == <<form, lines, preview, behind, pc, data, template, document, settings, said>>
editing == <<form, lines, preview, behind>>
files == <<template, document, settings>>

Texts == Amounts \cup {Garbled}
Logos == {"default", "own"}

Totals == compute_totals(form.previous_balance, lines)
NoDocument == [holds |-> "none"]

TypeOK ==
    /\ form \in [previous_balance : Texts, past_due : Texts, logo : Logos]
    /\ Len(lines) <= MaxLines /\ \A i \in DOMAIN lines : lines[i] \in Entries
    /\ behind \in BOOLEAN
    /\ pc \in {"form", "template", "decode", "save", "fill", "logo", "settings", "store"}
    /\ pc # "form" => data.previous_balance \in Amounts
    /\ template \in {"absent", "part", "whole"}
    /\ pc \in {"save", "fill", "logo", "settings", "store"} => template # "absent"
    /\ document.holds \in {"none", "torn", "whole", "earlier"}
    /\ settings \in {"none", "torn"} \cup Logos
    /\ said \in {"", "saved", "error"}

\* load_settings: a file that is missing or no JSON is no settings.
Remembered == IF settings \in Logos THEN settings ELSE "default"

StartForm(logo) ==
    [previous_balance |-> 0, past_due |-> 0, logo |-> logo]

Init ==
    /\ form = StartForm("default")
    /\ lines = <<>>
    /\ preview = compute_totals(0, <<>>) /\ behind = FALSE
    /\ pc = "form" /\ data = <<>> /\ said = ""
    /\ template \in {"absent", "whole"}
    /\ document = NoDocument /\ settings = "none"

-----------------------------------------------------------------------------
\* Mutant of Recalculate: the lines are summed as they were before the edit.
RecalculateLate ==
    IF Garbled \in {form'.previous_balance, form'.past_due}
    THEN preview' = preview /\ behind' = (behind \/ form'.past_due = Garbled)
    ELSE preview' = compute_totals(form'.previous_balance, lines) /\ behind' = FALSE

\* recalculate: the totals of the form as it is now, or nothing if
\* collect_data raises.
Recalculate ==
    IF Garbled \in {form'.previous_balance, form'.past_due}
    THEN preview' = preview /\ behind' = (behind \/ form'.past_due = Garbled)
    ELSE preview' = compute_totals(form'.previous_balance, lines') /\ behind' = FALSE

Edit ==
    /\ pc = "form" /\ said' = ""
    /\ document' = IF document.holds = "whole" THEN [holds |-> "earlier"] ELSE document
    /\ UNCHANGED <<pc, data, template, settings>>

\* The trace is on this field only.
EditPreviousBalance(text) ==
    /\ Edit
    /\ form' = [form EXCEPT !.previous_balance = text]
    /\ UNCHANGED lines
    /\ Recalculate

EditPastDue(text) ==
    /\ Edit
    /\ form' = [form EXCEPT !.past_due = text]
    /\ UNCHANGED <<lines, preview, behind>>

\* clear_logo, and browse_logo, which takes an image it can read.
ChooseLogo(logo) ==
    /\ Edit
    /\ form' = [form EXCEPT !.logo = logo]
    /\ UNCHANGED <<lines, preview, behind>>

\* A line with an amount that cannot be read is not taken.
add_line(entry) ==
    /\ Edit
    /\ Len(lines) < MaxLines
    /\ Garbled \notin {entry.charge, entry.payment}
    /\ lines' = Append(lines, entry)
    /\ UNCHANGED form
    /\ Recalculate

remove_selected(selection) ==
    /\ Edit
    /\ LET left == DOMAIN lines \ selection
       IN \E kept \in [1..Cardinality(left) -> left] :
             /\ \A i, j \in DOMAIN kept : i < j => kept[i] < kept[j]
             /\ lines' = [i \in DOMAIN kept |-> lines[kept[i]]]
    /\ UNCHANGED form
    /\ Recalculate

\* Company, due date and what is half typed below the table stay.
reset_form ==
    /\ Edit
    /\ form' = [form EXCEPT !.previous_balance = 0, !.past_due = 0]
    /\ lines' = <<>>
    /\ Recalculate

-----------------------------------------------------------------------------
Message(text) == pc' = "form" /\ data' = <<>> /\ said' = text
Goto(from, to) == pc = from /\ pc' = to /\ UNCHANGED <<data, said>>

\* The name is required, amounts must be readable, the dialog gives a path.
Generate ==
    /\ pc = "form"
    /\ Garbled \notin {form.previous_balance, form.past_due}
    /\ pc' = "template" /\ said' = ""
    /\ data' = [previous_balance |-> form.previous_balance,
                past_due |-> form.past_due, lines |-> lines, logo |-> form.logo]
    /\ UNCHANGED <<editing, files>>

\* No name, or amounts that cannot be read; closing the dialog says nothing.
RefuseGenerate ==
    /\ pc = "form"
    /\ \/ Message("error")
       \/ Message("")
    /\ UNCHANGED <<editing, files>>

\* ensure_decoded: a file that is there is taken for the template.
FindTemplate ==
    /\ IF template = "absent"
       THEN Goto("template", "decode") /\ template' = "part"
       ELSE Goto("template", "save") /\ UNCHANGED template
    /\ UNCHANGED <<editing, document, settings>>

Decode ==
    /\ Goto("decode", "save")
    /\ template' = "whole"
    /\ UNCHANGED <<editing, document, settings>>

Summary ==
    [previous_balance |-> data.previous_balance, past_due |-> data.past_due,
     totals |-> compute_totals(data.previous_balance, data.lines)]

\* Half a template cannot be opened as a document.
OpenDocument ==
    /\ template = "whole"
    /\ Goto("save", "fill")
    /\ document' = [holds |-> "torn"]
    /\ UNCHANGED <<editing, template, settings>>

\* doc.save, with the template's logo.
FillDocument ==
    /\ Goto("fill", IF data.logo = "own" THEN "logo" ELSE "settings")
    /\ document' = [holds |-> "whole", table |-> Activity(data.lines), summary |-> Summary,
                    logo |-> "default"]
    /\ UNCHANGED <<editing, template, settings>>

\* Mutant of ReplaceLogo: an image that cannot be read is passed over.
ReplaceLogoIfReadable ==
    /\ Goto("logo", "settings")
    /\ \E image \in {"own", "default"} : document' = [document EXCEPT !.logo = image]
    /\ UNCHANGED <<editing, template, settings>>

\* replace_logo: a copy with the image in it is moved into place.
ReplaceLogo ==
    /\ Goto("logo", "settings")
    /\ document' = [document EXCEPT !.logo = "own"]
    /\ UNCHANGED <<editing, template, settings>>

\* Mutant of BuildFails: the error is not shown, and the program goes on.
BuildFailsSilently ==
    /\ pc \in {"template", "decode", "save", "fill", "logo"}
    /\ pc' = "settings" /\ UNCHANGED <<data, said>>
    /\ UNCHANGED <<editing, files>>

\* Any exception of build_statement: no template, no access, no image; or of
\* ensure_decoded.
BuildFails ==
    /\ pc \in {"template", "decode", "save", "fill", "logo"}
    /\ Message("error")
    /\ UNCHANGED <<editing, files>>

SkipSettings ==
    /\ pc = "settings"
    /\ Message("saved")
    /\ UNCHANGED <<editing, files>>

\* save_settings; whether it works is not said.
OpenSettings ==
    /\ Goto("settings", "store")
    /\ settings' = "torn"
    /\ UNCHANGED <<editing, template, document>>

StoreSettings ==
    /\ pc = "store"
    /\ settings' = data.logo
    /\ Message("saved")
    /\ UNCHANGED <<editing, template, document>>

SettingsFail ==
    /\ pc \in {"settings", "store"}
    /\ Message("saved")
    /\ UNCHANGED <<editing, files>>

-----------------------------------------------------------------------------
\* The program is closed or dies, and is started again.
Restart ==
    /\ form' = StartForm(Remembered)
    /\ lines' = <<>>
    /\ preview' = compute_totals(0, <<>>) /\ behind' = FALSE
    /\ Message("")
    /\ UNCHANGED files

EditForm ==
    \/ \E text \in Texts : EditPreviousBalance(text) \/ EditPastDue(text)
    \/ \E logo \in Logos : ChooseLogo(logo)
    \/ \E entry \in Entries : add_line(entry)
    \/ \E selection \in SUBSET DOMAIN lines : remove_selected(selection)
    \/ reset_form

Next ==
    \/ EditForm
    \/ Generate \/ RefuseGenerate
    \/ FindTemplate \/ Decode \/ OpenDocument \/ FillDocument \/ ReplaceLogo \/ BuildFails
    \/ SkipSettings \/ OpenSettings \/ StoreSettings \/ SettingsFail
    \/ Restart

Spec == Init /\ [][Next]_vars

-----------------------------------------------------------------------------
\* The figures shown are those Generate would write, whatever has been edited
\* in whatever order, unless a recalculation was given up on account of a past
\* due that could not be read: nothing makes up for that one when the past due
\* is put right (billing_app.py, recalculate).
PreviewAgrees ==
    Garbled \notin {form.previous_balance, form.past_due} /\ ~behind => preview = Totals

\* A statement adds up for any number of lines, more than the template has
\* rows for or fewer: one row for each line, no row of the template left, the
\* total last, and the same sums in table and summary.
StatementAddsUp ==
    document.holds = "whole" =>
        LET table == document.table
            body == SubSeq(table, 2, Len(table) - 1)
            s == document.summary
        IN /\ table[1] = Header
           /\ \A i \in DOMAIN body : body[i].row = "line"
           /\ Last(table) = [row |-> "total", charge |-> Charges(body), payment |-> Payments(body)]
           /\ s.totals.new_charges = Charges(body)
           /\ s.totals.payments_credits = Payments(body)
           /\ s.totals.amount_due = s.previous_balance + Charges(body) - Payments(body)

\* "Saved" is said of a statement that is there, whole, with the lines, the
\* figures and the logo of the form, and in agreement with the preview.
SavedIsWhole ==
    said = "saved" =>
        /\ document.holds = "whole"
        /\ document.logo = form.logo
        /\ Len(document.table) = Len(lines) + 2
        /\ \A i \in DOMAIN lines : document.table[i + 1].charge = lines[i].charge
                                  /\ document.table[i + 1].payment = lines[i].payment
        /\ document.summary.previous_balance = form.previous_balance
        /\ document.summary.past_due = form.past_due
        /\ ~behind => document.summary.totals = preview

\* Nothing is remembered of a company whose statement could not be built as
\* asked for.
RemembersWhatWorked ==
    [][settings' # settings => document.holds = "whole" /\ document.logo = data.logo]_vars

=============================================================================
