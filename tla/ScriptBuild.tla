------------------------------ MODULE ScriptBuild ------------------------------
(***************************************************************************)
(* `build` of the bash, python and ansible helpers (chpc_helper_core:      *)
(* cli.py, wizard.py, library.py), from the command line to the script     *)
(* that is written and checked: by the wizard, question by question, or by *)
(* flags.  It is one process that writes a file in place; it may be killed *)
(* at any point, and the file may be there already.  The wording of        *)
(* questions, and list, show and describe, which only print, are left out. *)
(***************************************************************************)
EXTENDS ScriptTemplate

CONSTANTS
    Library,  \* templates: text, ends, and sequences of variables, toggles, groups
    Apps,     \* [quotes, executable] of each app's AppConfig
    Flags,    \* the --var, --toggle and --toggle-group of command lines
    Raws,     \* what is typed at a question
    Number,   \* the integer of each text that int() accepts
    Digits,   \* the texts that isdigit() accepts, superscripts among them
    Numeral,  \* the text of each integer
    Lower     \* each text in lower case

VARIABLES
    phase, app, template,
    flags,      \* of this command line; NoFlags when the wizard is to ask
    asked,      \* how many questions have been answered
    variables, toggles,
    rendered,   \* the text to be written
    file,       \* the output file: what it holds, and its executable bit
    reader,     \* the output is read; a pipe may be closed at its other end
    rc          \* the process's exit status; -1 while it runs or if killed

NoFlags == [variables |-> <<>>, toggles |-> <<>>, groups |-> <<>>, wizard |-> TRUE]

\* default_variables: a variable without a default is empty.
DefaultOf(v) == IF v.default = {} THEN "" ELSE CHOOSE d \in v.default : TRUE

ASSUME FlagsAssumption ==
    \A f \in Flags : ~f.wizard /\ \A x \in DOMAIN f.toggles : f.toggles[x] \in BOOLEAN

ASSUME TemplatesAssumption ==
    \A t \in Library :
        /\ WellFormed(t)
        /\ \A part \in {t.variables, t.toggles, t.groups} : part \in Seq(Range(part))
        /\ \A v \in Range(t.variables) : v.kind = "variable"
        /\ \A x \in Range(t.toggles) : x.kind = "toggle" /\ x.default \in BOOLEAN
        /\ \A g \in Range(t.groups) : g.kind = "group"

\* What a library declares is told apart by its names; a group's default is one
\* of its values.
ASSUME NamesAssumption ==
    \A t \in Library :
        /\ \A v, w \in Range(t.variables) : v.name = w.name => v = w
        /\ \A x, y \in Range(t.toggles) : x.name = y.name => x = y
        /\ \A g \in Range(t.groups) :
              /\ \E o \in Range(g.options) : o.value = g.default
              /\ \A o \in Range(g.options) :
                    /\ \A x \in Range(t.toggles) : x.name # o.toggle
                    /\ \A p \in Range(g.options) : p.value = o.value => p = o
                    /\ \A h \in Range(t.groups) : \A p \in Range(h.options) :
                          p.toggle = o.toggle => h = g /\ p = o

\* A number's default is written as str() writes it, a choice's is one of the
\* choices, which differ in more than case.
ASSUME DefaultsAssumption ==
    \A t \in Library : \A v \in Range(t.variables) :
        /\ v.type = "int" /\ DefaultOf(v) \in DOMAIN Number
              => Numeral[Number[DefaultOf(v)]] = DefaultOf(v)
        /\ v.type = "choice"
              => \A c \in v.choices : Lower[c] = Lower[DefaultOf(v)] => c = DefaultOf(v)

\* TokensOf knows every text a variable may have, Numeral every number.
ASSUME TextsAssumption ==
    /\ Raws \cup {""} \cup Range(Numeral) \subseteq DOMAIN TokensOf
    /\ \A f \in Flags : \A name \in DOMAIN f.variables : f.variables[name] \in DOMAIN TokensOf
    /\ \A t \in Library : \A v \in Range(t.variables) : v.default \cup v.choices \subseteq DOMAIN TokensOf
    /\ Range(Number) \subseteq DOMAIN Numeral

vars == <<phase, app, template, flags, asked, variables, toggles, rendered, file, reader, rc>>
answers == <<asked, variables, toggles>>
command == <<app, template, flags>>

\* The status of an interpreter that could not flush its output.
Unflushed == 120

Interactive == flags.wizard
VariableQuestions == Range(template.variables)
ToggleQuestions == Range(template.toggles)
GroupQuestions == Range(template.groups)
Options(g) == Range(g.options)

Questions == template.variables \o template.toggles \o template.groups

TypeOK ==
    /\ phase \in {"load", "ask", "render", "confirm", "open", "fill", "chmod", "check", "end"}
    /\ template \in Library /\ app \in Apps /\ flags \in Flags \cup {NoFlags}
    /\ asked \in 0..Len(Questions)
    /\ \A name \in DOMAIN variables : variables[name] \in DOMAIN TokensOf
    /\ \A name \in DOMAIN toggles : toggles[name] \in BOOLEAN
    /\ file.holds \in {"nothing", "old", "part", "new"} /\ file.exec \in BOOLEAN
    /\ reader \in BOOLEAN
    /\ rc \in {-1, 0, 1, Unflushed}
    /\ phase \in {"confirm", "open", "fill", "chmod", "check"} => rendered # Failed

Init ==
    /\ phase = "load"
    /\ template \in Library /\ app \in Apps /\ flags \in Flags \cup {NoFlags}
    /\ asked = 0 /\ variables = <<>> /\ toggles = <<>>
    /\ rendered = <<>>
    /\ file \in [holds : {"nothing"}, exec : {FALSE}] \cup [holds : {"old"}, exec : BOOLEAN]
    /\ reader = TRUE /\ rc = -1

Goto(to) == phase' = to /\ rc' = rc

\* The process ends.  If nobody reads its output and that was buffered, the
\* interpreter cannot flush it, and exits with a status of its own.
Exit(status) ==
    /\ phase' = "end"
    /\ rc' \in {status} \cup IF reader THEN {} ELSE {Unflushed}

\* It prints something first: if that fails because nobody reads, main catches
\* BrokenPipeError and returns 0.
SayAndExit(status) == Exit(status) \/ (~reader /\ Exit(0))

-----------------------------------------------------------------------------
\* dict.update
Updated(d, e) == [x \in DOMAIN d \cup DOMAIN e |-> IF x \in DOMAIN e THEN e[x] ELSE d[x]]

DefaultVariables == [name \in {v.name : v \in VariableQuestions} |->
                        DefaultOf(CHOOSE v \in VariableQuestions : v.name = name)]

\* In each group exactly the option with the chosen value is on.
Branches(chosen) ==
    [x \in UNION {{o.toggle : o \in Options(g)} : g \in DOMAIN chosen} |->
        \E g \in DOMAIN chosen : \E o \in Options(g) : o.toggle = x /\ o.value = chosen[g]]

DefaultToggles ==
    Updated([x \in {t.name : t \in ToggleQuestions} |->
                \E t \in ToggleQuestions : t.name = x /\ t.default],
            Branches([g \in GroupQuestions |-> g.default]))

ChosenByFlag(g) == IF g.name \in DOMAIN flags.groups THEN flags.groups[g.name] ELSE g.default
FlagBranches == Branches([g \in GroupQuestions |-> ChosenByFlag(g)])

\* Mutant of FlagToggles: groups are set first, then single toggles.
FlagTogglesLast == Updated(Updated(DefaultToggles, FlagBranches), flags.toggles)

\* Mutant of FlagToggles: the defaults are laid over what is given.
FlagTogglesUnder == Updated(Updated(flags.toggles, DefaultToggles), FlagBranches)

\* --toggle over the defaults, --toggle-group over both.
FlagToggles == Updated(Updated(DefaultToggles, flags.toggles), FlagBranches)

FlagVariables == Updated(DefaultVariables, flags.variables)

\* The library loads, the template is there, the flags parse.
Load ==
    /\ phase = "load"
    /\ IF Interactive
       THEN Goto(IF Questions = <<>> THEN "render" ELSE "ask") /\ UNCHANGED answers
       ELSE /\ Goto("render")
            /\ variables' = FlagVariables
            /\ toggles' = FlagToggles
            /\ UNCHANGED asked
    /\ UNCHANGED <<command, reader, rendered, file>>

\* A library with one bad file, an unknown template, a flag that is no
\* NAME=VALUE or no on or off.
Refuse ==
    /\ phase = "load"
    /\ SayAndExit(1)
    /\ UNCHANGED <<command, reader, answers, rendered, file>>

-----------------------------------------------------------------------------
\* The answers the wizard takes from what is typed: none, and it asks again,
\* or one.
Filled(v, raw) == IF raw = "" /\ v.default # {} THEN DefaultOf(v) ELSE raw

VariableAnswers(v, raw) ==
    LET text == Filled(v, raw)
        numbers == {r \in {text} \cap DOMAIN Number : Number[r] \in v.range}
    IN IF text = "" /\ ~v.allow_empty THEN {}
       ELSE IF v.type = "int" THEN {Numeral[Number[r]] : r \in numbers}
       ELSE IF v.type = "choice" THEN {c \in v.choices : Lower[c] = Lower[text]}
       ELSE {text}

ToggleAnswers(t, raw) ==
    IF raw = "" THEN {t.default}
    ELSE {on \in BOOLEAN : Lower[raw] \in IF on THEN {"y", "yes"} ELSE {"n", "no"}}

\* isdigit() takes it for a number, int() does not.
Chokes(raw) == raw \in Digits \ DOMAIN Number

GroupAnswers(g, raw) ==
    IF raw = "" THEN {g.default}
    ELSE IF Chokes(raw) THEN {}
    ELSE IF raw \in Digits /\ Number[raw] \in DOMAIN g.options
    THEN {g.options[Number[raw]].value}
    ELSE {o.value : o \in {o \in Options(g) : Lower[o.value] = Lower[raw]}}

Question == Questions[asked + 1]

Answer(raw) ==
    /\ phase = "ask"
    /\ \/ /\ Question.kind = "variable"
          /\ \E a \in VariableAnswers(Question, raw) :
                variables' = Updated(variables, [x \in {Question.name} |-> a])
          /\ UNCHANGED toggles
       \/ /\ Question.kind = "toggle"
          /\ \E a \in ToggleAnswers(Question, raw) :
                toggles' = Updated(toggles, [x \in {Question.name} |-> a])
          /\ UNCHANGED variables
       \/ /\ Question.kind = "group"
          /\ \E a \in GroupAnswers(Question, raw) :
                toggles' = Updated(toggles, Branches([g \in {Question} |-> a]))
          /\ UNCHANGED variables
    /\ asked' = asked + 1
    /\ Goto(IF asked' = Len(Questions) THEN "render" ELSE "ask")
    /\ UNCHANGED <<command, reader, rendered, file>>

\* A number of a group that int() does not take, which nothing catches.
Choke(raw) ==
    /\ phase = "ask" /\ Question.kind = "group" /\ Chokes(raw)
    /\ Exit(1)
    /\ UNCHANGED <<command, reader, answers, rendered, file>>

\* The input ends, or the last question is answered with no; or a question or a
\* message of the wizard finds nobody to read it.
Cancel ==
    /\ phase \in {"ask", "confirm"}
    /\ SayAndExit(1)
    /\ UNCHANGED <<command, reader, answers, rendered, file>>

Consent ==
    /\ phase = "confirm"
    /\ Goto("open")
    /\ UNCHANGED <<command, reader, answers, rendered, file>>

-----------------------------------------------------------------------------
\* prepare_variables: the bash helper's leaves all as it is; the others'
\* quote, make whole numbers of the numbers, and drop what is not declared.
Preparable ==
    app.quotes => \A v \in VariableQuestions :
                      v.type = "int" => variables[v.name] \in DOMAIN Number

Prepared ==
    IF ~app.quotes THEN variables
    ELSE [name \in {v.name : v \in VariableQuestions} |->
            IF \E v \in VariableQuestions : v.name = name /\ v.type = "int"
            THEN Numeral[Number[variables[name]]] ELSE variables[name]]

Text == IF Preparable THEN render(template.text, Prepared, toggles) ELSE Failed

\* Whatever goes wrong ends the process before the file is touched; only under
\* flags it is caught and reported.
Render ==
    /\ phase = "render"
    /\ rendered' = Text
    /\ IF Text = Failed THEN IF Interactive THEN Exit(1) ELSE SayAndExit(1)
       ELSE Goto(IF Interactive THEN "confirm" ELSE "open")
    /\ UNCHANGED <<command, reader, answers, file>>

\* write_text opens the file, which empties it or creates it, and fills it.
OpenFile ==
    /\ phase = "open"
    /\ Goto("fill")
    /\ file' = [file EXCEPT !.holds = "part"]
    /\ UNCHANGED <<command, reader, answers, rendered>>

FillFile ==
    /\ phase = "fill"
    /\ Goto(IF app.executable THEN "chmod" ELSE "check")
    /\ file' = [file EXCEPT !.holds = "new"]
    /\ UNCHANGED <<command, reader, answers, rendered>>

\* Mutant of Chmod: nothing is done to a file that was there already.
ChmodNothing ==
    /\ phase = "chmod"
    /\ Goto("check")
    /\ UNCHANGED <<command, reader, answers, rendered, file>>

Chmod ==
    /\ phase = "chmod"
    /\ Goto("check")
    /\ file' = [file EXCEPT !.exec = TRUE]
    /\ UNCHANGED <<command, reader, answers, rendered>>

\* The file cannot be opened, filled or changed.
WriteFails ==
    /\ phase \in {"open", "fill", "chmod"}
    /\ Exit(1)
    /\ UNCHANGED <<command, reader, answers, rendered, file>>

\* syntax_checker; a tool that is not installed passes.  The wizard reports a
\* failure, too, and exits with 0.
Check(passed) ==
    /\ phase = "check"
    /\ SayAndExit(IF passed \/ Interactive THEN 0 ELSE 1)
    /\ UNCHANGED <<command, reader, answers, rendered, file>>

\* The checker does not come back in time, which nothing catches.
CheckRaises ==
    /\ phase = "check"
    /\ Exit(1)
    /\ UNCHANGED <<command, reader, answers, rendered, file>>

Kill ==
    /\ phase # "end"
    /\ phase' = "end" /\ rc' = -1
    /\ UNCHANGED <<command, reader, answers, rendered, file>>

\* Whoever reads the output stops.
HangUp ==
    /\ phase # "end" /\ reader
    /\ reader' = FALSE
    /\ UNCHANGED <<command, answers, phase, rendered, file, rc>>

Next ==
    \/ Load \/ Refuse
    \/ \E raw \in Raws : Answer(raw) \/ Choke(raw)
    \/ Cancel \/ Consent
    \/ Render \/ OpenFile \/ FillFile \/ Chmod \/ WriteFails
    \/ \E passed \in BOOLEAN : Check(passed)
    \/ CheckRaises \/ Kill \/ HangUp

Spec == Init /\ [][Next]_vars

-----------------------------------------------------------------------------
Answered == {"render", "confirm", "open", "fill", "chmod", "check"}
AfterRender == Answered \ {"render"}

\* What the answers make of the template, blocks read as its author reads them.
Intended ==
    IF Preparable THEN Meaning(template, Prepared, toggles) ELSE Failed

\* Passes of a regular expression over flat text render what the tree of
\* blocks means, for blocks in blocks up to MaxPasses - 1 deep, and fail where
\* that has no meaning: a name nobody declared that is reached, a value that
\* would pass for a marker (engine.py, render).
RenderIsMeaning ==
    /\ phase \in AfterRender => rendered = Intended
    /\ rendered = Failed => Intended = Failed

\* Of the branches of a group exactly one is in the script, in whatever way
\* the answers came, unless --toggle-group names none of its values; also when
\* --toggle speaks of one of the branches.
OneBranchPerGroup ==
    phase \in Answered =>
        \A g \in GroupQuestions :
            Interactive \/ ChosenByFlag(g) \in {o.value : o \in Options(g)}
            => Cardinality({o \in Options(g) : toggles[o.toggle]}) = 1

\* Flags give the same script as the same answers to the wizard, where the
\* wizard would take them and leave them as they are: a variable, a toggle or a
\* group has what its flag gives it, and what is left out is what Enter means.
FlagsMatchWizard ==
    phase \in Answered /\ ~Interactive =>
        /\ \A v \in VariableQuestions :
               IF v.name \notin DOMAIN flags.variables
               THEN \A a \in VariableAnswers(v, "") : variables[v.name] = a
               ELSE LET raw == flags.variables[v.name]
                    IN VariableAnswers(v, raw) = {raw} => variables[v.name] = raw
        /\ \A t \in ToggleQuestions :
               toggles[t.name] = IF t.name \in DOMAIN flags.toggles
                                 THEN flags.toggles[t.name] ELSE t.default
        /\ \A g \in GroupQuestions :
               LET given == g.name \in DOMAIN flags.groups
                   raw == IF given THEN flags.groups[g.name] ELSE ""
               IN \A a \in GroupAnswers(g, raw) :
                      (given => raw = a)
                      => \A o \in Options(g) : toggles[o.toggle] = (o.value = a)

\* A script that is there already is only given up for one that can be
\* rendered: no refusal, no cancelled wizard and no template that does not render
\* costs it.  (A text that cannot be encoded is found while the file is filled.)
OverwritesOnlyToSucceed ==
    [][file'.holds # file.holds => Intended # Failed]_vars

\* When the command reports success the script is there, whole, as intended,
\* and can be run if it is meant to be; only where nobody reads what the command
\* says it may report success and have left the file alone.
Whole ==
    /\ file.holds = "new" /\ rendered = Intended /\ Intended # Failed
    /\ app.executable => file.exec

SuccessIsWhole ==
    rc = 0 => Whole \/ (~reader /\ file.holds \in {"nothing", "old"})

=============================================================================
