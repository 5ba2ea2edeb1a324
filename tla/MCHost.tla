------------------------------- MODULE MCHost -------------------------------
(* What Vaulkeeper leaves on its host, each on its own: the updater, event *)
(* tracing, the shell extension, the configuration, queries through COM,   *)
(* and files deleted for good.                                             *)
EXTENDS Updater, EtwSession, ComServer, ConfigStore, ComQueries, SecureDelete, TLC

CONSTANTS c1, c2, c3

VARIABLE part

MCVersions == UNION {[1 .. n -> 0 .. 2] : n \in 1 .. 4}
MCCurrent  == <<1, 0, 1>>
MCDefault  == [s \in {"locale", "retention", "bytes"} |-> 1]

vars == <<part, updaterVars, etwVars, comVars, configVars, queryVars, deleteVars>>

others == <<queryVars, deleteVars>>

Init ==
    /\ part \in {"updater", "etw", "com", "config", "query", "delete"}
    /\ UpdaterInit /\ EtwInit /\ ComInit /\ ConfigInit /\ QueryInit /\ DeleteInit
    /\ part # "query" => apartment = [t \in Callers |-> "none"]

Next ==
    /\ \/ part = "updater" /\ UpdaterNext /\ UNCHANGED <<etwVars, comVars, configVars, others>>
       \/ part = "etw" /\ EtwNext /\ UNCHANGED <<updaterVars, comVars, configVars, others>>
       \/ part = "com" /\ ComNext /\ UNCHANGED <<updaterVars, etwVars, configVars, others>>
       \/ part = "config" /\ ConfigNext /\ UNCHANGED <<updaterVars, etwVars, comVars, others>>
       \/ part = "query" /\ QueryNext /\ UNCHANGED <<updaterVars, etwVars, comVars, configVars, deleteVars>>
       \/ part = "delete" /\ DeleteNext /\ UNCHANGED <<updaterVars, etwVars, comVars, configVars, queryVars>>
    /\ UNCHANGED part

Spec == Init /\ [][Next]_vars
=============================================================================
