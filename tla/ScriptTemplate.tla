---------------------------- MODULE ScriptTemplate ----------------------------
(***************************************************************************)
(* The template engine of the helper suite (engine.py, render).  A text    *)
(* has a token at each of its places, in the order of the places: plain    *)
(* text, {{VAR}}, {{#TOGGLE}} or {{/TOGGLE}}.  What a pass takes out       *)
(* leaves its place empty; a value is put in the place of its variable     *)
(* and is text too, that may hold tokens.  The engine works on this flat   *)
(* text, by passes of one regular expression; what a template means is     *)
(* said below of its blocks.                                               *)
(***************************************************************************)
EXTENDS Sequences, FiniteSetsExt, Functions, Integers

CONSTANTS
    MaxPasses,  \* the passes render tries, 20
    TokensOf    \* the tokens in each value a variable may have

ASSUME PassesAssumption == MaxPasses \in Nat \ {0}

Plain(x) == [kind |-> "text", name |-> x]
Var(x) == [kind |-> "var", name |-> x]
Open(x) == [kind |-> "open", name |-> x]
Close(x) == [kind |-> "close", name |-> x]

Places(text, kind) == {i \in DOMAIN text : text[i].kind = kind}
NamesAt(text, places) == {text[i].name : i \in places}

\* The text of a render that raised RenderError.
Failed == [place \in {0} |-> [kind |-> "failure", name |-> ""]]

\* Where a block that starts at i may end; the nearest end is taken.
Ends(text, i) == {j \in Places(text, "close") : i < j /\ text[j].name = text[i].name}
End(text, i) == Min(Ends(text, i))

Starts(text) == {i \in Places(text, "open") : Ends(text, i) # {}}

\* The blocks _TOGGLE_RE finds, by their starts: from the left, and on from
\* the end of each.
Found(text) ==
    CHOOSE found \in SUBSET Starts(text) :
        \A i \in Starts(text) : i \in found <=> \A k \in found : k < i => End(text, k) < i

\* What goes of a block: its markers, or all of it.
Gone(text, i, toggles) ==
    IF toggles[text[i].name] THEN {i, End(text, i)} ELSE i..End(text, i)

\* _TOGGLE_RE.subn
Pass(text, toggles) ==
    IF NamesAt(text, Found(text)) \subseteq DOMAIN toggles
    THEN Restrict(text, DOMAIN text \ UNION {Gone(text, i, toggles) : i \in Found(text)})
    ELSE Failed

\* Mutant of Resolve: one pass has to be enough.
ResolveOnce(text, toggles) == Pass(text, toggles)

\* Passes until one finds no block, which the last one has to.
Resolve(text, toggles) ==
    LET after[passes \in 0..(MaxPasses - 1)] ==
            IF passes = 0 THEN text ELSE Pass(after[passes - 1], toggles)
    IN IF Starts(after[MaxPasses - 1]) = {} THEN after[MaxPasses - 1] ELSE Failed

\* _VAR_RE.sub: once over the text, values not scanned again.
Substituted(text, variables) ==
    [i \in DOMAIN text |->
        IF text[i].kind = "var" THEN TokensOf[variables[text[i].name]] ELSE <<text[i]>>]

HoldsMarker(result) ==
    \E i \in DOMAIN result : \E k \in DOMAIN result[i] : result[i][k].kind \in {"open", "close"}

\* Mutant of render: markers in the result are not looked for.
render_unchecked(text, variables, toggles) ==
    LET resolved == Resolve(text, toggles)
    IN IF resolved = Failed \/ ~(NamesAt(resolved, Places(resolved, "var")) \subseteq DOMAIN variables)
       THEN Failed
       ELSE Substituted(resolved, variables)

\* A name nobody gave and a marker left over, from the template or from a
\* value, are errors.
render(text, variables, toggles) ==
    LET resolved == Resolve(text, toggles)
    IN IF \/ resolved = Failed
          \/ ~(NamesAt(resolved, Places(resolved, "var")) \subseteq DOMAIN variables)
          \/ HoldsMarker(Substituted(resolved, variables))
       THEN Failed
       ELSE Substituted(resolved, variables)

-----------------------------------------------------------------------------
(* A template as its author sees it: a text in which blocks lie one in the  *)
(* other or one after the other; a block is told by its start, ends[b] is  *)
(* where it ends.                                                          *)

Around(template, i) == {b \in DOMAIN template.ends : b < i /\ i < template.ends[b]}

\* Blocks open and close by the same name, every marker is of a block, no block
\* lies in one of its own name, and the passes suffice for the innermost.
WellFormed(template) ==
    LET text == template.text
        ends == template.ends
        within(b, c) == c < b /\ ends[b] < ends[c] /\ text[b].name # text[c].name
    IN /\ text \in Seq(Range(text))
       /\ \A i \in DOMAIN text : text[i].kind \in {"text", "var", "open", "close"}
       /\ ends \in [Places(text, "open") -> Places(text, "close")]
       /\ Places(text, "close") \subseteq Range(ends)
       /\ \A b \in DOMAIN ends :
             /\ b < ends[b] /\ text[b].name = text[ends[b]].name
             /\ Cardinality(Around(template, b)) < MaxPasses - 1
             /\ \A c \in DOMAIN ends \ {b} :
                   ends[b] < c \/ ends[c] < b \/ within(b, c) \/ within(c, b)

\* A place counts if every block around it is on.
Reached(template, toggles) ==
    {i \in DOMAIN template.text :
        \A b \in Around(template, i) :
            LET name == template.text[b].name IN name \in DOMAIN toggles /\ toggles[name]}

\* Of what counts the markers are gone and the variables are replaced; a name
\* nobody gave that counts, and a value that would pass for a marker, are errors.
Meaning(template, variables, toggles) ==
    LET reached == Restrict(template.text, Reached(template, toggles))
        kept == Restrict(reached, Places(reached, "text") \cup Places(reached, "var"))
    IN IF /\ NamesAt(reached, Places(reached, "open")) \subseteq DOMAIN toggles
          /\ NamesAt(kept, Places(kept, "var")) \subseteq DOMAIN variables
          /\ ~HoldsMarker(Substituted(kept, variables))
       THEN Substituted(kept, variables)
       ELSE Failed

=============================================================================
