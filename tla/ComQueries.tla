----------------------------- MODULE ComQueries -----------------------------
(* The queries that go through COM: queryWmi, enumerateScheduledTasks and  *)
(* enumerateShortcuts, called by threads of the application that may have  *)
(* an apartment of their own. A query is a stack of what it has open: the  *)
(* function itself, then interfaces and strings, each obtained from the    *)
(* one below it. COM is modelled from how the queries use it.              *)
EXTENDS Naturals, Sequences, SequencesExt, FiniteSets, FiniteSetsExt

CONSTANTS Callers,   \* threads
          MaxItems,  \* bound: items of a collection
          MaxDepth,  \* bound: what is open at a time
          MaxInits   \* bound: calls of CoInitializeEx in force on a thread

VARIABLES inits,     \* [Callers -> calls of CoInitializeEx that are in force]
          apartment, \* [Callers -> "sta", "mta" or "none"]
          secured,   \* CoInitializeSecurity has succeeded in this process
          frames,    \* [Callers -> what is open, innermost last]: [is, next]
          unwinding, \* [Callers -> what an error path has still to release]
          initHere,  \* [Callers -> BOOLEAN]
          before, threw  \* history: inits when the query was called; whether it threw

queryVars == <<inits, apartment, secured, frames, unwinding, initHere, before, threw>>

Queries == {"queryWmi", "enumerateScheduledTasks", "enumerateShortcuts"}

\* What is asked for in turn while this is open.
Inside ==
    [queryWmi |-> <<"security", "locator">>, locator |-> <<"services">>, services |-> <<"enumerator">>,
     enumerateScheduledTasks |-> <<"security", "service">>, service |-> <<"connect", "folder">>,
     folder |-> <<"collection", "children">>, task |-> <<"name", "path", "definition">>,
     definition |-> <<"regInfo", "actions", "triggers">>, regInfo |-> <<"author", "description">>,
     actions |-> <<"action">>, action |-> <<"exec">>, exec |-> <<"program">>,
     shellLink |-> <<"persist">>]

\* What is asked for until there is no more.
Items == [enumerator |-> "object", object |-> "property", collection |-> "task", children |-> "folder",
          enumerateShortcuts |-> "shellLink"]

\* What the error path of a call releases; of the others, the function goes
\* on with what it asks for next.
OnFailure ==
    [locator   |-> <<"queryWmi">>,
     services  |-> <<"locator", "queryWmi">>,
     enumerator |-> <<"services", "locator", "queryWmi">>,
     service   |-> <<"enumerateScheduledTasks">>,
     connect   |-> <<"service", "enumerateScheduledTasks">>,
     persist   |-> <<"shellLink">>]

\* The calls that make an object, for which COM has to be initialised.
Created == {"locator", "service", "shellLink"}

Open(t)    == {frames[t][i].is : i \in DOMAIN frames[t]}
Running(t) == Open(t) \cap Queries # {}
Top(t)     == Last(frames[t])

\* The next call, or "none".
Wanted(t) ==
    LET top == Top(t) IN
    CASE top.is \in DOMAIN Inside /\ top.next <= Len(Inside[top.is]) -> Inside[top.is][top.next]
      [] top.is \in DOMAIN Items /\ top.next <= MaxItems -> Items[top.is]
      [] OTHER -> "none"

QueryInit ==
    /\ \E own \in [Callers -> {"none", "sta"}] :
         apartment = own /\ inits = [t \in Callers |-> IF own[t] = "none" THEN 0 ELSE 1]
    /\ secured = FALSE
    /\ frames = [t \in Callers |-> <<>>] /\ unwinding = [t \in Callers |-> <<>>]
    /\ initHere = [t \in Callers |-> FALSE] /\ before = inits
    /\ threw = [t \in Callers |-> FALSE]

\* The apartment each query asks for.
Mode(q) == IF q = "enumerateShortcuts" THEN "sta" ELSE "mta"

\* A query is called: CoInitializeEx counts, or fails in an apartment of the
\* other kind, or for want of memory.
Call(t, q) ==
    /\ ~Running(t) /\ inits[t] < MaxInits
    /\ before' = [before EXCEPT ![t] = inits[t]] /\ threw' = [threw EXCEPT ![t] = FALSE]
    /\ frames' = [frames EXCEPT ![t] = Append(@, [is |-> q, next |-> 1])]
    /\ \/ /\ apartment[t] \in {"none", Mode(q)}
          /\ apartment' = [apartment EXCEPT ![t] = Mode(q)]
          /\ inits' = [inits EXCEPT ![t] = @ + 1]
          /\ initHere' = [initHere EXCEPT ![t] = TRUE]
       \/ initHere' = [initHere EXCEPT ![t] = FALSE] /\ UNCHANGED <<apartment, inits>>
    /\ UNCHANGED <<secured, unwinding>>

\* The innermost goes on to what it wants next.
Advanced(stack) == [stack EXCEPT ![Len(stack)].next = @ + 1]

\* CoInitializeSecurity succeeds once in a process.
Secure(t) ==
    /\ unwinding[t] = <<>> /\ frames[t] # <<>> /\ Wanted(t) = "security"
    /\ ~secured /\ inits[t] > 0 /\ secured' = TRUE
    /\ frames' = [frames EXCEPT ![t] = Advanced(@)]
    /\ UNCHANGED <<inits, apartment, unwinding, initHere, before, threw>>

\* It has been called before, or fails. queryWmi gives up. The tasks are
\* read all the same if GetLastError, which COM does not set, says so.
SecureFails(t) ==
    /\ unwinding[t] = <<>> /\ frames[t] # <<>> /\ Wanted(t) = "security"
    /\ \/ /\ Top(t).is = "enumerateScheduledTasks"
          /\ frames' = [frames EXCEPT ![t] = Advanced(@)] /\ UNCHANGED unwinding
       \/ unwinding' = [unwinding EXCEPT ![t] = <<Top(t).is>>] /\ UNCHANGED frames
    /\ UNCHANGED <<inits, apartment, secured, initHere, before, threw>>

\* A call that opens what is wanted next.
Get(t) ==
    /\ unwinding[t] = <<>> /\ frames[t] # <<>> /\ Wanted(t) \notin {"none", "security"}
    /\ Wanted(t) \in Created => inits[t] > 0
    /\ Wanted(t) = "folder" => Len(frames[t]) < MaxDepth
    /\ frames' = [frames EXCEPT ![t] =
                    IF Wanted(t) = "connect" THEN Advanced(@)
                    ELSE Append(Advanced(@), [is |-> Wanted(t), next |-> 1])]
    /\ UNCHANGED <<inits, apartment, secured, unwinding, initHere, before, threw>>

\* The call fails, or there are no more items.
GetFails(t) ==
    /\ unwinding[t] = <<>> /\ frames[t] # <<>> /\ Wanted(t) \notin {"none", "security"}
    /\ IF Wanted(t) \in DOMAIN OnFailure
       THEN unwinding' = [unwinding EXCEPT ![t] = OnFailure[Wanted(t)]] /\ UNCHANGED frames
       ELSE frames' = [frames EXCEPT ![t] = Advanced(@)] /\ UNCHANGED unwinding
    /\ UNCHANGED <<inits, apartment, secured, initHere, before, threw>>

\* Mutant: every query closes the apartment, whoever opened it.
Always(t) == inits[t] > 0

\* CoUninitialize belongs to a CoInitializeEx that succeeded.
Uninitializes(t) == initHere[t]

Without(stack, x) == RemoveAt(stack, Max({i \in DOMAIN stack : stack[i].is = x}))

\* Releasing a frame; that of the query itself is its return.
Released(t, x) ==
    /\ frames' = [frames EXCEPT ![t] = Without(@, x)]
    /\ IF x \in Queries /\ Uninitializes(t)
       THEN /\ inits' = [inits EXCEPT ![t] = @ - 1]
            /\ apartment' = [apartment EXCEPT ![t] = IF inits[t] = 1 THEN "none" ELSE @]
       ELSE UNCHANGED <<inits, apartment>>
    /\ UNCHANGED <<secured, initHere, before, threw>>

\* The innermost is released when nothing more is wanted from it.
ReleaseTop(t) ==
    /\ unwinding[t] = <<>> /\ frames[t] # <<>> /\ Wanted(t) = "none"
    /\ Released(t, Top(t).is) /\ UNCHANGED unwinding

\* An error path releases what it names.
Unwind(t) ==
    /\ unwinding[t] # <<>>
    /\ Released(t, Head(unwinding[t]))
    /\ unwinding' = [unwinding EXCEPT ![t] = Tail(@)]

\* The increment of the directory iterator throws out of enumerateShortcuts.
ShortcutsThrow(t) ==
    /\ frames[t] # <<>> /\ Top(t).is = "enumerateShortcuts"
    /\ frames' = [frames EXCEPT ![t] = <<>>]
    /\ threw' = [threw EXCEPT ![t] = TRUE]
    /\ UNCHANGED <<inits, apartment, secured, unwinding, initHere, before>>

QueryNext ==
    \E t \in Callers :
      \/ \E q \in Queries : Call(t, q)
      \/ Secure(t) \/ SecureFails(t) \/ Get(t) \/ GetFails(t) \/ ReleaseTop(t) \/ Unwind(t)
      \/ ShortcutsThrow(t)

QuerySpec == QueryInit /\ [][QueryNext]_queryVars

(***************************************************************************)
(* Properties.                                                             *)
(***************************************************************************)
\* Whichever calls fail, a query leaves its thread as it found it: every
\* interface and string is released, and COM is initialised as often as
\* before, also on a thread with an apartment of the other kind - unless a
\* directory iterator threw, and nobody closes the apartment. And no
\* interface is open on a thread whose COM has been uninitialised.
ThreadsLeftAsFound ==
    \A t \in Callers :
      /\ ~Running(t) => frames[t] = <<>> /\ (inits[t] = before[t] \/ threw[t])
      /\ Open(t) \subseteq Queries \/ inits[t] > 0
=============================================================================
