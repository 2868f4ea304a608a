------------------------------- MODULE Statement -------------------------------
(***************************************************************************)
(* What the billing statement builder writes (statement_builder.py): the   *)
(* sums, and the activity table, made to measure from the rows the         *)
(* template has.  Amounts are whole cents; a table is the sequence of its  *)
(* rows.  Texts, themes and fonts are left out.                            *)
(***************************************************************************)
EXTENDS SequencesExt, Integers

CONSTANTS
    TemplateRows,  \* the rows of the template's activity table between its
                   \* header and its total
    NoAmount       \* an empty charge or payment

ASSUME TemplateAssumption == TemplateRows \in Nat \ {0}

Amount(x) == IF x = NoAmount THEN 0 ELSE x
Charges(lines) == SumFunction([i \in DOMAIN lines |-> Amount(lines[i].charge)])
Payments(lines) == SumFunction([i \in DOMAIN lines |-> Amount(lines[i].payment)])

compute_totals(previous, lines) ==
    [payments_credits |-> Payments(lines), new_charges |-> Charges(lines),
     amount_due |-> previous - Payments(lines) + Charges(lines)]

Header == [row |-> "header"]
Placeholder == [row |-> "placeholder"]
EmptyTotal == [row |-> "total"]
TemplateTable == <<Header>> \o [i \in 1..TemplateRows |-> Placeholder] \o <<EmptyTotal>>

\* Rows are counted from 0 in the code, from 1 here: row 0 is table[1].
clone_row_before(table, template_row, before_row) ==
    InsertAt(table, before_row + 1, table[template_row + 1])
remove_row(table, row) == RemoveAt(table, row + 1)

\* The template's table and where its total is, and how that goes on: a row
\* cloned or removed so many times.
Start == [table |-> TemplateTable, total |-> Len(TemplateTable) - 1]

Grown(times) ==
    LET grown[k \in 0..times] ==
            IF k = 0 THEN Start
            ELSE [table |-> clone_row_before(grown[k - 1].table, 1, grown[k - 1].total),
                  total |-> grown[k - 1].total + 1]
    IN grown[times]

Shrunk(times) ==
    LET shrunk[k \in 0..times] ==
            IF k = 0 THEN Start
            ELSE [table |-> remove_row(shrunk[k - 1].table, shrunk[k - 1].total - 1),
                  total |-> shrunk[k - 1].total - 1]
    IN shrunk[times]

\* The table with one body row for each of n lines, and where its total is.
Measured(n) ==
    LET body == Start.total - 1
    IN IF n > body THEN Grown(n - body) ELSE Shrunk(body - n)

\* Mutant of Activity: the total stays where the template has it.
ActivityAtOldTotal(lines) ==
    LET t == Measured(Len(lines))
    IN [i \in DOMAIN t.table |->
           IF i - 2 \in 0..(Len(lines) - 1)
           THEN [row |-> "line", charge |-> lines[i - 1].charge, payment |-> lines[i - 1].payment]
           ELSE IF i = TemplateRows + 2
           THEN [row |-> "total", charge |-> Charges(lines), payment |-> Payments(lines)]
           ELSE t.table[i]]

Activity(lines) ==
    LET t == Measured(Len(lines))
    IN [i \in DOMAIN t.table |->
           IF i - 2 \in 0..(Len(lines) - 1)
           THEN [row |-> "line", charge |-> lines[i - 1].charge, payment |-> lines[i - 1].payment]
           ELSE IF i = t.total + 1
           THEN [row |-> "total", charge |-> Charges(lines), payment |-> Payments(lines)]
           ELSE t.table[i]]

=============================================================================
