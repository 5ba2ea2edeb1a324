--------------------------- MODULE MCMaintenance ---------------------------
(* What the application offers to tidy up with, each on its own: a scan of *)
(* the cleaners, an execution of a rule, or the page of installed programs. *)
EXTENDS Cleaners, Rules, Uninstall, TLC

VARIABLE part

\* An artifact directory within another, one that holds an empty file only,
\* and a second root with a file. One cleaner has a root twice, as TempCleaner
\* usually has; another has a root that lies in one of its own.
MCTree    == {<<"p", "m">>, <<"p", "m", "m">>, <<"p", "m", "m", "f">>, <<"p", "m", "g">>,
              <<"p", "e">>, <<"p", "e", "z">>, <<"q", "h">>}
MCSizeOf  == <<"p", "m", "m", "f">> :> 2 @@ <<"p", "m", "g">> :> 1 @@ <<"p", "e", "z">> :> 0
             @@ <<"q", "h">> :> 3
MCRootsOf == [c \in {"browser", "recycle", "update", "thumbnail", "residue"} |-> <<<<"p">>, <<"q">>>>]
             @@ "temp" :> <<<<"q">>, <<"q">>, <<"p">>>>
             @@ "artifact" :> <<<<"p">>, <<"p", "m">>>>
             @@ "dump" :> <<<<"p">>, <<"q", "h">>, <<"none">>>>
MCDumps     == {<<"p", "m", "g">>, <<"q", "h">>}
MCCaches    == {<<"q", "h">>}
MCArtifacts == {<<"p", "m">>, <<"p", "m", "m">>, <<"p", "e">>}
MCAlike     == {<<"p", "m">>, <<"q", "h">>}

MCFirstSize == <<1, 3, 3>>

MCDocuments ==
    {<<[id |-> 1, path |-> TRUE, minSize |-> 2, extensions |-> {1, 2}], [id |-> 1]>>,
     <<[id |-> 2, path |-> TRUE, minAge |-> 1, maxSize |-> 2, action |-> "junk"],
       [id |-> 3, path |-> TRUE, action |-> "compress", trigger |-> "on_boot"]>>}

\* One program that two views name alike, and one that they name otherwise;
\* a key without a name; two programs of one name.
MCProgram ==
    <<[k \in 1 .. 3 |-> [id |-> k, name |-> <<1, 1, 0>>[k], size |-> k, command |-> k = 1]],
      [k \in 1 .. 3 |-> [id |-> k, name |-> <<2, 1, 0>>[k], size |-> 1, command |-> k = 1]]>>

MCInstallations == <<{1, 2}, {1, 3}>>

vars == <<part, cleanerVars, ruleVars, uninstallVars, journalVars>>

Init ==
    /\ part \in {"clean", "rule", "uninstall"}
    /\ CleanersInit /\ RulesInit /\ UninstallInit /\ JournalInit

Next ==
    /\ \/ part = "clean" /\ CleanersNext /\ UNCHANGED <<ruleVars, uninstallVars, journalVars>>
       \/ part = "rule" /\ RulesNext /\ UNCHANGED <<cleanerVars, uninstallVars>>
       \/ part = "uninstall" /\ UninstallNext /\ UNCHANGED <<cleanerVars, ruleVars>>
    /\ UNCHANGED part

Spec == Init /\ [][Next]_vars
=============================================================================
