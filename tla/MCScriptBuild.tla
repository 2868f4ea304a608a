----------------------------- MODULE MCScriptBuild -----------------------------
(***************************************************************************)
(* A small library: templates that ask for a number, a name, a switch and  *)
(* a mode of two, with blocks in blocks in every combination and names     *)
(* nobody declared; and one that asks for a choice and an optional text.   *)
(***************************************************************************)
EXTENDS ScriptBuild, TLC

MCVariable(name, type, default, allow_empty, range, choices) ==
    [kind |-> "variable", name |-> name, type |-> type, default |-> default,
     allow_empty |-> allow_empty, range |-> range, choices |-> choices]

MCNodes == MCVariable("NODES", "int", {"2"}, FALSE, 1..3, {})
MCUser == MCVariable("USER", "string", {""}, FALSE, {}, {})
MCSpeed == MCVariable("SPEED", "choice", {"Fast"}, FALSE, {}, {"Fast", "Slow"})
MCNote == MCVariable("NOTE", "string", {}, TRUE, {}, {})
MCLog == [kind |-> "toggle", name |-> "LOG", default |-> TRUE]
MCMode == [kind |-> "group", name |-> "mode", default |-> "drain",
           options |-> <<[value |-> "drain", toggle |-> "DRAIN"],
                         [value |-> "resume", toggle |-> "RESUME"]>>]

\* A block of name x around one of name y around a leaf, and one of name y.
MCText(x, y, leaf) ==
    <<Plain("start"), Open(x), Open(y), leaf, Close(y), Plain("middle"), Close(x),
      Open(y), Var("USER"), Close(y)>>

MCLibrary ==
    {[variables |-> <<MCNodes, MCUser>>, toggles |-> <<MCLog>>, groups |-> <<MCMode>>,
      text |-> MCText(x, y, leaf), ends |-> 2 :> 7 @@ 3 :> 5 @@ 8 :> 10] :
        <<x, y, leaf>> \in
            {<<x, y, leaf>> \in {"LOG", "DRAIN", "RESUME", "NONE"} \X {"LOG", "RESUME", "NONE"}
                                \X {Plain("end"), Var("NODES"), Var("NONE")} : x # y}}
    \cup {[variables |-> <<MCSpeed, MCNote>>, toggles |-> <<>>, groups |-> <<MCMode>>,
           text |-> <<Open("DRAIN"), Var("SPEED"), Close("DRAIN"), Var("NOTE")>>,
           ends |-> 1 :> 3]}

MCApps == {[quotes |-> FALSE, executable |-> TRUE], [quotes |-> TRUE, executable |-> FALSE]}

MCFlags ==
    [variables : {<<>>, "USER" :> "ann", "USER" :> "marked", "NODES" :> "02" @@ "USER" :> "ann",
                  "NODES" :> "ann", "SPEED" :> "slow"},
     toggles : {<<>>, "LOG" :> FALSE, "RESUME" :> TRUE},
     groups : {<<>>, "mode" :> "resume", "mode" :> "ann", "mode" :> ""},
     wizard : {FALSE}]

MCRaws == {"", "0", "2", "02", "+2", "superscript 2", "n", "ann", "marked", "slow"}
MCTexts == MCRaws \cup {"Fast", "Slow", "drain", "resume"}
MCTokensOf == [text \in MCTexts |->
    CASE text = "" -> <<>>
      [] text = "marked" -> <<Plain("x"), Open("LOG")>>
      [] text = "ann" -> <<Plain("ann"), Var("NODES")>>
      [] OTHER -> <<Plain(text)>>]
MCNumber == "0" :> 0 @@ "2" :> 2 @@ "02" :> 2 @@ "+2" :> 2
MCNumeral == 0 :> "0" @@ 2 :> "2"
MCLower == [text \in MCTexts |->
    CASE text = "Fast" -> "fast" [] text = "Slow" -> "slow" [] OTHER -> text]

=============================================================================
