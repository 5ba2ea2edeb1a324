----------------------------- MODULE EtwSession -----------------------------
(* Sessions of disk-event tracing. start() makes a context the current one *)
(* and leaves a detached thread to trace; the callback of any trace hands  *)
(* its events to the current context; stop() only marks the current one.   *)
EXTENDS Naturals, FiniteSets

CONSTANTS Sessions, Contexts,  \* EtwSession objects; EtwContext objects, one a start
          NoContext

ASSUME NoContextAssumption == NoContext \notin Contexts

VARIABLES started,   \* [Sessions -> BOOLEAN]: EtwSession::running
          current,   \* currentContext()
          context,   \* [Contexts -> "unused", "on", "off", "deleted"]
          trace,     \* [Contexts -> phase of the thread that start() made for it]
          taken      \* [Contexts -> the context its callback has taken]

etwVars == <<started, current, context, trace, taken>>

EtwInit ==
    /\ started = [s \in Sessions |-> FALSE] /\ current = NoContext
    /\ context = [c \in Contexts |-> "unused"] /\ trace = [c \in Contexts |-> "none"]
    /\ taken = [c \in Contexts |-> NoContext]

StartSession(s, c) ==
    /\ ~started[s] /\ context[c] = "unused"
    /\ started' = [started EXCEPT ![s] = TRUE]
    /\ context' = [context EXCEPT ![c] = "on"] /\ current' = c
    /\ trace' = [trace EXCEPT ![c] = "tracing"] /\ UNCHANGED taken

\* stop marks the context that is current, whichever session made it.
StopSession(s) ==
    /\ started[s] /\ started' = [started EXCEPT ![s] = FALSE]
    /\ context' = IF current = NoContext THEN context ELSE [context EXCEPT ![current] = "off"]
    /\ UNCHANGED <<current, trace, taken>>

\* An event: the callback takes the current context under the mutex ...
Event(c) ==
    /\ trace[c] = "tracing" /\ current # NoContext
    /\ taken' = [taken EXCEPT ![c] = current] /\ trace' = [trace EXCEPT ![c] = "callback"]
    /\ UNCHANGED <<started, current, context>>

\* ... and looks at its flag and calls its handler after it let go of it.
Handled(c) ==
    /\ trace[c] = "callback"
    /\ taken' = [taken EXCEPT ![c] = NoContext] /\ trace' = [trace EXCEPT ![c] = "tracing"]
    /\ UNCHANGED <<started, current, context>>

\* Mutant: the thread leaves its context current.
StaysCurrent(c) == current

\* A context that is current is so no longer.
NotCurrent(c) == IF current = c THEN NoContext ELSE current

\* The trace ends, or could not be opened.
TraceEnds(c) ==
    /\ trace[c] = "tracing" /\ trace' = [trace EXCEPT ![c] = "ended"] /\ current' = NotCurrent(c)
    /\ UNCHANGED <<started, context, taken>>

DeleteContext(c) ==
    /\ trace[c] = "ended" /\ trace' = [trace EXCEPT ![c] = "none"]
    /\ context' = [context EXCEPT ![c] = "deleted"]
    /\ UNCHANGED <<started, current, taken>>

EtwNext ==
    \/ \E s \in Sessions : StopSession(s) \/ \E c \in Contexts : StartSession(s, c)
    \/ \E c \in Contexts : Event(c) \/ Handled(c) \/ TraceEnds(c) \/ DeleteContext(c)

EtwSpec == EtwInit /\ [][EtwNext]_etwVars

-----------------------------------------------------------------------------
\* stop() and a callback that is about to take the current context find one
\* that has not been deleted, however sessions replace each other, and a
\* callback that took the context of its own trace keeps it to the end. (The
\* context of another trace may be deleted while a callback works with it.)
CurrentIsAlive ==
    /\ current # NoContext => context[current] \in {"on", "off"}
    /\ \A c \in Contexts : trace[c] = "callback" /\ taken[c] = c => context[c] \in {"on", "off"}
=============================================================================
