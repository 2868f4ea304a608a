------------------------------- MODULE Feeds -------------------------------
(***************************************************************************)
(* The sec-vuln helper's commands that read and update the feeds (cli.py,  *)
(* cmd_scan and cmd_update_feed; feeds/updater.py), each a process of its  *)
(* own on the shared feed directory.  A run may be killed anywhere, and a  *)
(* write may fail.  What a scan makes of the feed it has loaded is left    *)
(* out.                                                                    *)
(***************************************************************************)
EXTENDS FeedStore, Sequences

CONSTANTS
    Runs,         \* processes
    Attended,     \* those with a user at the prompt; the others pass --yes
                  \* (which answers no) or --no-feed-prompt
    MaxAccidents  \* bound of the model: kills and failed writes

VARIABLES
    pc,           \* where each run is; "raised": out of the feed prompt,
                  \* "failed": elsewhere
    command,      \* "scan", "update" (--os-family) or "import"
    system,       \* the system it is about
    todo,         \* the feeds it has still to save
    number,       \* the number of its update
    told,         \* the update it has announced for `system`, or 0
    waiting,      \* an export is waiting in incoming/
    accidents

ASSUME FeedsAssumption ==
    Attended \subseteq Runs /\ MaxAccidents \in Nat

runVars == <<command, system, number, told>>
vars == <<storeVars, runVars, pc, todo, waiting, accidents>>

\* The orders in which one update may save its feeds: _save_rhel_and_rocky
\* has its own, import_msrc_csv_file that of the export's rows.
\* Mutant of OvalOrder: the copy is saved before what it copies.
OvalOrderSwapped == <<Rocky, Rhel>>

OvalOrder == <<Rhel, Rocky>>
CsvOrders ==
    {<<>>} \cup {<<s>> : s \in Csv}
           \cup {order \in Csv \X Csv : order[1] # order[2]}
Orders == {OvalOrder, Tail(OvalOrder)} \cup CsvOrders

TypeOK ==
    /\ StoreTypeOK
    /\ pc \in [Runs -> {"idle", "prompt", "ask", "save", "fill", "confirm",
                        "info", "load", "raised", "failed"}]
    /\ command \in [Runs -> {"scan", "update", "import"}]
    /\ system \in [Runs -> Systems]
    /\ todo \in [Runs -> Orders]
    /\ number \in [Runs -> 0..MaxUpdates]
    /\ \A r \in Runs :
          pc[r] \in {"save", "fill", "confirm"} => todo[r] # <<>> /\ number[r] # 0
    /\ told \in [Runs -> 0..MaxUpdates]
    /\ waiting \in BOOLEAN
    /\ accidents \in 0..MaxAccidents

Init ==
    /\ StoreInit
    /\ pc = [r \in Runs |-> "idle"]
    /\ command = [r \in Runs |-> "scan"]
    /\ system = [r \in Runs |-> Rhel]
    /\ todo = [r \in Runs |-> <<>>]
    /\ number = [r \in Runs |-> 0]
    /\ told = [r \in Runs |-> 0]
    /\ waiting = FALSE
    /\ accidents = 0

Goto(r, place) == pc' = [pc EXCEPT ![r] = place]

\* After the prompt a scan reads the feed, `update-feed` is over.
Proceed(r) == Goto(r, IF command[r] = "scan" THEN "info" ELSE "idle")

\* An exception reaches the user: out of the prompt, or from elsewhere.
Raise(r) == Goto(r, IF command[r] = "import" THEN "failed" ELSE "raised")

Start(r, c, s) ==
    /\ pc[r] = "idle"
    /\ c = "update" => r \in Attended /\ s \in Oval
    /\ command' = [command EXCEPT ![r] = c]
    /\ system' = [system EXCEPT ![r] = s]
    /\ told' = [told EXCEPT ![r] = 0]
    /\ \/ Goto(r, "prompt")
       \/ c = "scan" /\ Goto(r, "info")
    /\ UNCHANGED <<storeVars, number, todo, waiting, accidents>>

\* An OVAL feed is asked about when it is missing or too old, by
\* `update-feed` when it is of yesterday; an export when it is waiting.
MayAsk(r) ==
    IF system[r] \in Csv THEN waiting
    ELSE files[system[r]] = Missing \/ files[system[r]].stale \/ command[r] = "update"

MaySkip(r) ==
    IF system[r] \in Csv THEN ~waiting
    ELSE files[system[r]] # Missing /\ ~files[system[r]].stale

\* prompt_update_if_stale, up to its question
Prompt(r) ==
    /\ pc[r] = "prompt"
    /\ IF Readable(system[r])
       THEN \/ MayAsk(r) /\ Goto(r, "ask")
            \/ MaySkip(r) /\ Proceed(r)
       ELSE Raise(r)
    /\ UNCHANGED <<storeVars, runVars, todo, waiting, accidents>>

\* The user declines; or there is no network, the download ends in a
\* FetchError, the export in a MsrcCsvError: instructions are printed.
Decline(r) ==
    /\ pc[r] = "ask"
    /\ Proceed(r)
    /\ UNCHANGED <<storeVars, runVars, todo, waiting, accidents>>

\* An interrupted transfer (IncompleteRead), a truncated archive, malformed
\* XML or an export in another encoding raises what nobody catches.
BadSource(r) ==
    /\ pc[r] = "ask" /\ r \in Attended
    /\ Raise(r)
    /\ UNCHANGED <<storeVars, runVars, todo, waiting, accidents>>

\* Sets out to save the feeds in `order` as one update.
Begin(r, order) ==
    /\ updates' = IF updates < MaxUpdates THEN updates + 1 ELSE updates
    /\ number' = [number EXCEPT ![r] = updates']
    /\ todo' = [todo EXCEPT ![r] = order]
    /\ UNCHANGED <<files, waiting, accidents>>

\* The user accepts, and the source is parsed; an export may have no rows.
Accept(r) ==
    /\ pc[r] = "ask" /\ r \in Attended
    /\ \E order \in IF system[r] \in Oval THEN {OvalOrder} ELSE CsvOrders :
          /\ Begin(r, order)
          /\ IF order = <<>> THEN Proceed(r) ELSE Goto(r, "save")
    /\ UNCHANGED <<command, system, told>>

\* `update-feed --import-rhel-oval` and `--import-msrc-csv`
Import(r) ==
    /\ pc[r] = "idle" /\ r \in Attended
    /\ \E order \in ({OvalOrder} \cup CsvOrders) \ {<<>>} :
          /\ Begin(r, order)
          /\ system' = [system EXCEPT ![r] = Head(order)]
    /\ Goto(r, "save")
    /\ command' = [command EXCEPT ![r] = "import"]
    /\ told' = [told EXCEPT ![r] = 0]

OpenFeed(r) ==
    /\ pc[r] = "save"
    /\ Truncate(Head(todo[r]))
    /\ Goto(r, "fill")
    /\ UNCHANGED <<updates, runVars, todo, waiting, accidents>>

\* Mutant of FillFeed: the feed is dropped before it is confirmed.
FillFeedDropping(r) ==
    /\ pc[r] = "fill"
    /\ Fill(Head(todo[r]), number[r])
    /\ todo' = [todo EXCEPT ![r] = Tail(@)]
    /\ Goto(r, IF Head(todo[r]) \in Oval /\ Len(todo[r]) > 1 THEN "save" ELSE "confirm")
    /\ UNCHANGED <<updates, runVars, waiting, accidents>>

\* get_feed_info follows the last feed of an OVAL file, each of an export.
FillFeed(r) ==
    /\ pc[r] = "fill"
    /\ Fill(Head(todo[r]), number[r])
    /\ IF Head(todo[r]) \in Oval /\ Len(todo[r]) > 1
       THEN Goto(r, "save") /\ todo' = [todo EXCEPT ![r] = Tail(@)]
       ELSE Goto(r, "confirm") /\ UNCHANGED todo
    /\ UNCHANGED <<updates, runVars, waiting, accidents>>

\* Of an OVAL file the feed of Rhel speaks for all.
Confirmed(r) == IF Head(todo[r]) \in Oval THEN Rhel ELSE Head(todo[r])

\* Mutant of Announces: an update of any feed is taken for one of `system`.
AnnouncesAny(r) == Head(todo[r]) \in Systems

\* "Updated: ..." or "Imported: ..." is about the system of this run.
Announces(r) == Head(todo[r]) \in Oval \cup {system[r]}

Confirm(r) ==
    /\ pc[r] = "confirm"
    /\ todo' = [todo EXCEPT ![r] = Tail(@)]
    /\ IF Readable(Confirmed(r))
       THEN /\ IF Tail(todo[r]) # <<>> THEN Goto(r, "save") ELSE Proceed(r)
            /\ IF Announces(r)
               THEN told' = [told EXCEPT ![r] = files[Confirmed(r)].update]
               ELSE UNCHANGED told
       ELSE Raise(r) /\ UNCHANGED told
    /\ UNCHANGED <<storeVars, command, system, number, waiting, accidents>>

\* The get_feed_info of cmd_scan, for the report
Info(r) ==
    /\ pc[r] = "info"
    /\ Goto(r, IF Readable(system[r]) THEN "load" ELSE "failed")
    /\ UNCHANGED <<storeVars, runVars, todo, waiting, accidents>>

\* load_feed; the report is written
Load(r) ==
    /\ pc[r] = "load"
    /\ Goto(r, IF Readable(system[r]) THEN "idle" ELSE "failed")
    /\ UNCHANGED <<storeVars, runVars, todo, waiting, accidents>>

Exit(r) ==
    /\ pc[r] \in {"raised", "failed"}
    /\ Goto(r, "idle")
    /\ UNCHANGED <<storeVars, runVars, todo, waiting, accidents>>

Step(r) ==
    \/ \E c \in {"scan", "update"}, s \in Systems : Start(r, c, s)
    \/ Prompt(r) \/ Decline(r) \/ BadSource(r) \/ Accept(r) \/ Import(r)
    \/ OpenFeed(r) \/ FillFeed(r) \/ Confirm(r) \/ Info(r) \/ Load(r) \/ Exit(r)

Accident == accidents < MaxAccidents /\ accidents' = accidents + 1

Kill(r) ==
    /\ pc[r] # "idle" /\ Accident
    /\ Goto(r, "idle")
    /\ UNCHANGED <<storeVars, runVars, todo, waiting>>

\* The disk is full, or the directory may not be written: an OSError.
WriteFails(r) ==
    /\ pc[r] \in {"save", "fill"} /\ Accident
    /\ Raise(r)
    /\ UNCHANGED <<storeVars, runVars, todo, waiting>>

\* An export is put into incoming/, or taken out.
MoveExport == waiting' = ~waiting /\ UNCHANGED <<storeVars, runVars, pc, todo, accidents>>

Age(s) == Expire(s) /\ UNCHANGED <<runVars, pc, todo, waiting, accidents>>

Next ==
    \/ \E r \in Runs : Step(r) \/ Kill(r) \/ WriteFails(r)
    \/ MoveExport
    \/ \E s \in Systems : Age(s)

Spec == Init /\ [][Next]_vars

-----------------------------------------------------------------------------
\* Only one process has a user who updates feeds.
OneAtATime == \A r, s \in Attended : r = s

\* Killed or not, and whoever reads meanwhile: while one user at a time updates
\* (OneAtATime), the feed of Rocky is never of a later update than that of RHEL,
\* which it copies.
RockyNeverAhead ==
    files[Rhel].state = "complete" => files[Rocky].update <= files[Rhel].update

\* A scan whose user was told of an update evaluates that one, not what was
\* there before, whichever of the feeds it is about.
UpdateIsUsed ==
    \A r \in Runs :
        pc[r] = "load" /\ Readable(system[r]) => files[system[r]].update >= told[r]

=============================================================================
