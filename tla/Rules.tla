------------------------------- MODULE Rules -------------------------------
(* The rule engine: evaluate walks the directory of a rule and notes the   *)
(* files that match; execute then takes them one by one, moves them into   *)
(* the quarantine, and writes a line into the journal. Rules come from a   *)
(* file that the application and the command line parse. Meanwhile users   *)
(* delete and rewrite the files.                                           *)
EXTENDS Journal, SequencesExt, FiniteSets

CONSTANTS RulePaths,  \* the files below the directory of the rules
          FileSizes,  \* sizes a user gives them
          FirstSize,  \* their sizes at the start
          Huge,       \* 2^64 - 1, which file_size returns when it fails
          Documents,  \* what a rules file may hold: sequences of items with optional fields
          None,       \* no file, no document
          MaxRuns,    \* bound: executions in a behaviour
          MaxEdits    \* bound: changes by the user

VARIABLES
    files,     \* [RulePaths -> [size, old] or None]: the disk
    kept,      \* what the engine moved away: [path, was, run, listed]
    document,  \* rules.yaml
    ruleList,  \* the rows the application shows
    exec,      \* the call of execute
    runs, edits

ruleVars == <<files, kept, document, ruleList, exec, runs, edits>>

-----------------------------------------------------------------------------
(* The file of rules.                                                      *)

\* A field of an item, or its default when it is missing.
Field(item, f, default) == IF f \in DOMAIN item THEN item[f] ELSE default

\* actionFromString: what is not an action is a deletion into the quarantine.
ActionFromString(s) ==
    IF s \in {"permanent_delete", "compress", "move_to", "tag_with", "run_shell", "notify"}
    THEN s ELSE "delete_to_quarantine"

\* triggerFromString: what is not a trigger is a manual one.
TriggerFromString(s) ==
    IF s \in {"cron", "free_space_below", "on_boot", "on_login", "on_external_disk"}
    THEN s ELSE "manual"

\* One rule; a missing list of extensions matches every file. (The path is
\* given or not; the extensions are given by the paths that have one of them.)
ParseRule(item) ==
    [id      |-> Field(item, "id", ""),
     path    |-> Field(item, "path", FALSE),
     trigger |-> TriggerFromString(Field(item, "trigger", "manual")),
     minAge  |-> Field(item, "minAge", 0),
     minSize |-> Field(item, "minSize", 0),
     maxSize |-> Field(item, "maxSize", 0),
     extensions |-> Field(item, "extensions", RulePaths),
     action  |-> ActionFromString(Field(item, "action", "delete_to_quarantine"))]

ParseRules == [i \in 1 .. Len(document) |-> ParseRule(document[i])]

\* writeRulesToYaml rewrites the file in place: it may be cut short by a crash
\* or a full disk, and is then no document.
WriteRules(d) ==
    /\ exec.pc = "idle" /\ document' \in {d, None}
    /\ UNCHANGED <<files, kept, ruleList, exec, runs, edits, journalVars>>

\* RulesViewModel::reload: a file that does not parse empties the list.
Reload ==
    /\ exec.pc = "idle"
    /\ ruleList' = IF document = None THEN <<>> ELSE [i \in 1 .. Len(document) |-> ParseRules[i].id]
    /\ UNCHANGED <<files, kept, document, exec, runs, edits, journalVars>>

-----------------------------------------------------------------------------
(* evaluate                                                                *)

Idle ==
    [pc |-> "idle", rule |-> ParseRule(<<>>), dryRun |-> TRUE, quarantine |-> FALSE, journal |-> FALSE,
     todo |-> {}, ec |-> FALSE, matched |-> <<>>, nth |-> 1, size |-> 0,
     acted |-> 0, reclaimed |-> 0, errors |-> {}]

RulesInit ==
    /\ files = [p \in RulePaths |-> [size |-> FirstSize[p], old |-> TRUE]]
    /\ kept = {} /\ document = None /\ ruleList = <<>> /\ exec = Idle /\ runs = 0 /\ edits = 0

\* execute begins, for an engine with or without a quarantine and a journal:
\* evaluate refuses a rule without a path, and opens the walk. A directory
\* that cannot be opened has no entries.
Execute(rule, dryRun, quarantine, journal) ==
    /\ exec.pc \in {"idle", "done"} /\ runs < MaxRuns /\ runs' = runs + 1
    /\ \E found \in {{}, {p \in RulePaths : files[p] # None}} :
         exec' = IF ~rule.path THEN Idle
                 ELSE [Idle EXCEPT !.pc = "walk", !.rule = rule, !.dryRun = dryRun,
                                   !.quarantine = quarantine, !.journal = journal, !.todo = found]
    /\ UNCHANGED <<files, kept, document, ruleList, edits, journalVars>>

\* RulesCommand: the rule of that identifier, with neither of the two.
RulesCommand(id, dryRun) ==
    /\ document # None
    /\ \E i \in 1 .. Len(document) :
         /\ ParseRules[i].id = id /\ \A j \in 1 .. i - 1 : ParseRules[j].id # id
         /\ Execute(ParseRules[i], dryRun, FALSE, FALSE)

\* RulesViewModel::executeRule: a stub that has the identifier and no path.
ExecuteRule(id, dryRun) ==
    Execute([ParseRule(<<>>) EXCEPT !.id = id], dryRun, TRUE, TRUE)

\* What the condition of a rule asks of the size that was read.
SizeFits(rule, size) ==
    /\ rule.minSize # 0 => size >= rule.minSize
    /\ rule.maxSize # 0 => size <= rule.maxSize

\* olderThanDays
OldEnough(rule, file) == rule.minAge = 0 \/ file.old

\* The walk goes by one entry. A failing call leaves the error code set, and
\* the next entry is then passed over; a size that cannot be read is huge, and
\* a file whose date cannot be read (which has an error code of its own) is new.
Evaluate(p) ==
    /\ exec.pc = "walk" /\ p \in exec.todo
    /\ \/ /\ exec.ec \/ files[p] = None
          /\ exec' = [exec EXCEPT !.todo = @ \ {p}, !.ec = FALSE]
       \/ /\ ~exec.ec
          /\ exec' = [exec EXCEPT !.todo = @ \ {p}, !.ec = TRUE]
       \/ /\ ~exec.ec /\ files[p] # None
          /\ \E unread \in BOOLEAN, dated \in {TRUE, exec.rule.minAge = 0} :
               LET size    == IF unread THEN Huge ELSE files[p].size
                   matches == /\ SizeFits(exec.rule, size) /\ p \in exec.rule.extensions
                              /\ dated /\ OldEnough(exec.rule, files[p])
               IN  exec' = [exec EXCEPT !.todo = @ \ {p}, !.ec = unread,
                              !.matched = IF matches
                                          THEN Append(@, [path |-> p, seen |-> files[p], unread |-> unread])
                                          ELSE @]
    /\ UNCHANGED <<files, kept, document, ruleList, runs, edits, journalVars>>

EvaluateEnds ==
    /\ exec.pc = "walk" /\ exec.todo = {} /\ exec' = [exec EXCEPT !.pc = "measure"]
    /\ UNCHANGED <<files, kept, document, ruleList, runs, edits, journalVars>>

-----------------------------------------------------------------------------
(* execute                                                                 *)

Matched == exec.matched[exec.nth].path

Erring == [exec EXCEPT !.pc = "measure", !.errors = @ \cup {Matched}, !.nth = @ + 1]
Acting == [exec EXCEPT !.pc = "measure", !.acted = @ + 1, !.reclaimed = @ + exec.size, !.nth = @ + 1]

\* file_size, for each matched path in turn.
Measure ==
    /\ exec.pc = "measure" /\ exec.nth <= Len(exec.matched)
    /\ \/ exec' = Erring
       \/ /\ files[Matched] # None
          /\ exec' = [exec EXCEPT !.pc = "act", !.size = files[Matched].size]
    /\ UNCHANGED <<files, kept, document, ruleList, runs, edits, journalVars>>

Captures == ~exec.dryRun /\ exec.quarantine /\ exec.rule.action = "delete_to_quarantine"

\* A rule that moves nothing (a rehearsal, an engine without a quarantine, or
\* another action, none of which is carried out) counts the file all the same.
CountOnly ==
    /\ exec.pc = "act" /\ ~Captures /\ exec' = Acting
    /\ UNCHANGED <<files, kept, document, ruleList, runs, edits, journalVars>>

\* Mutant: a capture that failed is noted, and counted as well.
AfterFailure == [Acting EXCEPT !.errors = @ \cup {Matched}]

\* A path whose capture failed is listed among the errors and not counted.
AfterFailedCapture == Erring

\* Quarantine::capture: done; or failed and nothing moved; or the file was
\* moved and the index could not be written.
Capture ==
    /\ exec.pc = "act" /\ Captures
    /\ \/ exec' = AfterFailedCapture /\ UNCHANGED <<files, kept>>
       \/ /\ files[Matched] # None /\ files' = [files EXCEPT ![Matched] = None]
          /\ \E listed \in BOOLEAN :
               /\ kept' = kept \cup {[path |-> Matched, was |-> exec.matched[exec.nth],
                                      run |-> runs, listed |-> listed]}
               /\ exec' = IF listed THEN Acting ELSE AfterFailedCapture
    /\ UNCHANGED <<document, ruleList, runs, edits, journalVars>>

\* The line in the journal, whose failure goes unnoticed; execute returns.
ExecuteReturns ==
    /\ exec.pc = "measure" /\ exec.nth > Len(exec.matched)
    /\ IF exec.journal THEN Record("RuleExecuted", exec.rule.id, exec.reclaimed)
                       ELSE UNCHANGED journalVars
    /\ exec' = [exec EXCEPT !.pc = "done"]
    /\ UNCHANGED <<files, kept, document, ruleList, runs, edits>>

\* The user deletes or rewrites a file at any time.
UserEdits(p) ==
    /\ edits < MaxEdits /\ edits' = edits + 1
    /\ files' \in {[files EXCEPT ![p] = f] :
                     f \in {None} \cup [size : FileSizes, old : {FALSE}]}
    /\ UNCHANGED <<kept, document, ruleList, exec, runs, journalVars>>

JournalSteps ==
    /\ exec.pc = "idle" /\ (JournalOpen \/ JournalClose) /\ UNCHANGED ruleVars

RulesNext ==
    \/ \E d \in Documents, dryRun \in BOOLEAN :
         \/ WriteRules(d)
         \/ \E i \in 1 .. Len(d) :
              \/ RulesCommand(ParseRule(d[i]).id, dryRun)
              \/ ExecuteRule(ParseRule(d[i]).id, dryRun)
              \/ Execute(ParseRule(d[i]), dryRun, TRUE, TRUE)
    \/ Reload \/ EvaluateEnds \/ Measure \/ CountOnly \/ Capture \/ ExecuteReturns \/ JournalSteps
    \/ \E p \in RulePaths : Evaluate(p) \/ UserEdits(p)

RulesSpec == RulesInit /\ JournalInit /\ [][RulesNext]_<<ruleVars, journalVars>>

-----------------------------------------------------------------------------
\* The report of an execution tells what it did, whoever changed the files
\* meanwhile and whatever failed: each matched path was acted on or is among
\* the errors, and not both; a rehearsal moves nothing; what was moved and
\* listed are the paths acted on, and what was moved met the rule when it was
\* looked at, or its size could not be read then.
RunAccounts ==
    LET mine  == {k \in kept : k.run = runs}
        paths == {m.path : m \in Range(exec.matched)}
    IN  exec.pc = "done" =>
        /\ exec.acted + Cardinality(exec.errors) = Cardinality(paths)
        /\ IF Captures THEN {k.path : k \in {l \in mine : l.listed}} = paths \ exec.errors
                       ELSE mine = {}
        /\ \A k \in mine :
             /\ k.path \in exec.rule.extensions
             /\ k.was.unread \/ SizeFits(exec.rule, k.was.seen.size)
             /\ exec.rule.minAge > 0 => k.was.seen.old
=============================================================================
