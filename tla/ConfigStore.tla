---------------------------- MODULE ConfigStore ----------------------------
(* The configuration of the application: read at its start, kept in memory *)
(* by ApplicationViewModel, and written back over the file in place. A     *)
(* setting is a number of a given width; texts are modelled by numbers.    *)
EXTENDS Naturals, FiniteSets

CONSTANTS Settings, Locale,  \* the names of settings; the one the application changes
          Default,           \* [Settings -> value]: AppConfig::defaults
          Values,            \* the values a user gives: 0 .. Width - 1
          Width,             \* 2^64
          NoFile,            \* no file, or none that parses
          MaxTurns           \* bound: edits of the file and starts

ASSUME ConfigAssumption ==
    /\ Width \in Nat \ {0} /\ Values \subseteq 0 .. Width - 1
    /\ Default \in [Settings -> 0 .. Width - 1] /\ Locale \in Settings

\* What a file may hold: some of the settings, as signed numbers.
Signed == [minus : BOOLEAN, by : 0 .. Width]
Files  == UNION {[D -> Signed] : D \in SUBSET Settings}

ASSUME NoFileAssumption == NoFile \notin Files

VARIABLES onDisk,      \* vaulkeeper.toml: NoFile, or the settings it has, as signed numbers
          exists,      \* there is a file, whether it parses or not
          appConfig, firstRunFlag, up,  \* the running application
          saving,      \* save() has truncated the file
          wanted,      \* the value the user asked for last, by setting (history)
          damaged,     \* a save was cut short or failed, or ran over an edit (history)
          turns

configVars == <<onDisk, exists, appConfig, firstRunFlag, up, saving, wanted, damaged, turns>>

ConfigInit ==
    /\ onDisk = NoFile /\ exists = FALSE /\ appConfig = Default /\ firstRunFlag = FALSE
    /\ up = FALSE /\ saving = FALSE /\ wanted = Default /\ damaged = FALSE /\ turns = 0

Turn == turns < MaxTurns /\ turns' = turns + 1

\* Numbers are written as int64_t and read back as unsigned ones: the upper
\* half of the range is negative in the file.
Written(v) == IF 2 * v >= Width THEN [minus |-> TRUE, by |-> Width - v] ELSE [minus |-> FALSE, by |-> v]
Unwritten(x) == IF x.minus THEN Width - x.by ELSE x.by

\* AppConfig::load: the settings the file has, over the defaults; main() uses
\* the defaults as well when it does not parse.
Load(file) ==
    [s \in Settings |-> IF file # NoFile /\ s \in DOMAIN file THEN Unwritten(file[s]) ELSE Default[s]]

\* The application starts.
Starts ==
    /\ ~up /\ Turn /\ up' = TRUE /\ appConfig' = Load(onDisk) /\ firstRunFlag' = ~exists
    /\ UNCHANGED <<onDisk, exists, saving, wanted, damaged>>

\* Mutant: the table with the locale is not written.
SomeWritten(cfg) == [s \in Settings \ {Locale} |-> Written(cfg[s])]

AllWritten(cfg) == [s \in Settings |-> Written(cfg[s])]

\* save(): the file cannot be opened, which nobody learns of, or is truncated.
SaveBegins ==
    \/ saving' = TRUE /\ onDisk' = NoFile /\ exists' = TRUE /\ UNCHANGED damaged
    \/ damaged' = TRUE /\ UNCHANGED <<saving, onDisk, exists>>

\* setLocaleTag
SetLocale(v) ==
    /\ up /\ ~saving /\ appConfig[Locale] # v
    /\ appConfig' = [appConfig EXCEPT ![Locale] = v] /\ wanted' = [wanted EXCEPT ![Locale] = v]
    /\ SaveBegins /\ UNCHANGED <<firstRunFlag, up, turns>>

\* commitFirstRunComplete
CommitFirstRun ==
    /\ up /\ ~saving /\ firstRunFlag /\ firstRunFlag' = FALSE
    /\ SaveBegins /\ UNCHANGED <<appConfig, up, wanted, turns>>

SaveEnds ==
    /\ saving /\ saving' = FALSE /\ onDisk' = AllWritten(appConfig)
    /\ UNCHANGED <<exists, appConfig, firstRunFlag, up, wanted, damaged, turns>>

\* The application ends, or dies: within a save the file keeps what had been
\* written, which parses or not.
Ends ==
    /\ up /\ up' = FALSE /\ saving' = FALSE
    /\ IF saving
       THEN /\ damaged' = TRUE
            /\ \E cut \in SUBSET Settings : onDisk' \in {NoFile, [s \in cut |-> Written(appConfig[s])]}
       ELSE UNCHANGED <<damaged, onDisk>>
    /\ UNCHANGED <<exists, appConfig, firstRunFlag, wanted, turns>>

\* The user edits the file by hand; the application does not look again.
UserWrites(s, v) ==
    /\ ~saving /\ Turn /\ exists' = TRUE
    /\ onDisk' = [r \in {s} \cup (IF onDisk = NoFile THEN {} ELSE DOMAIN onDisk) |->
                    IF r = s THEN Written(v) ELSE onDisk[r]]
    /\ wanted' = [wanted EXCEPT ![s] = v] /\ damaged' = (damaged \/ up)
    /\ UNCHANGED <<appConfig, firstRunFlag, up, saving>>

UserDeletes ==
    /\ ~up /\ Turn /\ exists /\ exists' = FALSE /\ onDisk' = NoFile /\ wanted' = Default /\ damaged' = FALSE
    /\ UNCHANGED <<appConfig, firstRunFlag, up, saving>>

ConfigNext ==
    \/ Starts \/ CommitFirstRun \/ SaveEnds \/ Ends \/ UserDeletes
    \/ \E v \in Values : SetLocale(v) \/ \E s \in Settings : UserWrites(s, v)

ConfigSpec == ConfigInit /\ [][ConfigNext]_configVars

-----------------------------------------------------------------------------
\* Starting, changing the locale, finishing the first run and ending in any
\* order lose no setting, neither the ones the application does not know of a
\* change to nor those in the upper half of their range: the file, and the
\* application that runs, have what the user asked for last, unless a save was
\* cut short or failed or the file was edited behind a running application.
SettingsKept ==
    ~damaged /\ ~saving =>
    /\ Load(onDisk) = wanted
    /\ up => appConfig = wanted
=============================================================================
