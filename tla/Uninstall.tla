----------------------------- MODULE Uninstall -----------------------------
(* The uninstaller and its page of the application: the installed programs *)
(* are read from three views of the registry, key by key and by position,  *)
(* while installers add and remove keys; then sorted, and made unique. The *)
(* page keeps the list and a sorted copy.                                  *)
EXTENDS Journal, SequencesExt, FiniteSets

CONSTANTS Views,    \* the number of views of the registry that are read (3)
          Keys,     \* names of keys: naturals, in the order the registry lists them
          Program,  \* [1 .. Views -> [Keys -> [id, name, size, command]]]: what a key says;
                    \* a name of 0 is none
          Installations, \* the keys of each view at the start
          SortKeys, \* the columns a user may sort by
          MaxChanges \* bound: keys added or removed, and executions

Application == [id : Nat, name : Nat, size : Nat, command : BOOLEAN]

ASSUME RegistryAssumption ==
    /\ Views \in Nat /\ Keys \subseteq Nat /\ IsFiniteSet(Keys)
    /\ Program \in [1 .. Views -> [Keys -> Application]]
    /\ Installations \in [1 .. Views -> SUBSET Keys]

VARIABLES registry,          \* [1 .. Views -> SUBSET Keys]
          view, index, out,  \* enumerateInstalled: the view, the position in it, and what it read
          since,             \* programs that were there at its start (history)
          disturbed,         \* a key was removed, or not read, since then (history)
          allApps, visibleApps, sortKey, descending,  \* UninstallViewModel
          step, target,      \* execute
          changes

uninstallVars == <<registry, view, index, out, since, disturbed, allApps, visibleApps,
                   sortKey, descending, step, target, changes>>

listing == <<view, index, out, since, disturbed>>
page    == <<allApps, visibleApps, sortKey, descending>>
running == <<step, target>>

\* A plan's target before it is filled in.
Nobody == [id |-> 0, name |-> 0, size |-> 0, command |-> FALSE]

Installed(v) == {Program[v][k] : k \in registry[v]}

UninstallInit ==
    /\ registry = Installations
    /\ view = 0 /\ index = 0 /\ out = <<>> /\ since = {} /\ disturbed = FALSE
    /\ allApps = <<>> /\ visibleApps = <<>> /\ sortKey = "name" /\ descending = FALSE
    /\ step = "none" /\ target = Nobody
    /\ changes = 0

\* Where k stands in a set of numbers, from 0.
Position(S, k) == Cardinality({j \in S : j < k})

\* The number at a position.
At(S, n) == CHOOSE k \in S : Position(S, k) = n

-----------------------------------------------------------------------------
(* enumerateInstalled                                                      *)

\* refresh() or the command line ask for the programs.
EnumerateBegins ==
    /\ view = 0 /\ step = "none" /\ view' = 1 /\ index' = 0 /\ out' = <<>>
    /\ since' = UNION {Installed(v) : v \in 1 .. Views} /\ disturbed' = FALSE
    /\ UNCHANGED <<registry, page, running, changes, journalVars>>

\* RegEnumKeyEx at the next position; a key that cannot be read, or that has
\* no name to display, is passed over.
EnumerateKey ==
    /\ view \in 1 .. Views /\ index < Cardinality(registry[view])
    /\ index' = index + 1
    /\ \E k \in registry[view] :
         /\ Position(registry[view], k) = index
         /\ \/ /\ out' = IF Program[view][k].name = 0 THEN out ELSE Append(out, Program[view][k])
               /\ UNCHANGED disturbed
            \/ UNCHANGED out /\ disturbed' = TRUE
    /\ UNCHANGED <<registry, view, since, page, running, changes, journalVars>>

\* ERROR_NO_MORE_ITEMS
EnumerateView ==
    /\ view \in 1 .. Views /\ index >= Cardinality(registry[view])
    /\ view' = view + 1 /\ index' = 0
    /\ UNCHANGED <<registry, out, since, disturbed, page, running, changes, journalVars>>

\* std::sort by a column, which leaves the order of equals open. (The texts of
\* a column are modelled by their rank.)
Sorts(s, column, down) ==
    LET perms == {p \in [1 .. Len(s) -> 1 .. Len(s)] : Range(p) = 1 .. Len(s)}
        InOrder(t) == \A i, j \in 1 .. Len(s) :
                        i < j => IF down THEN t[i][column] >= t[j][column]
                                         ELSE t[i][column] <= t[j][column]
    IN  {t \in {[i \in 1 .. Len(s) |-> s[p[i]]] : p \in perms} : InOrder(t)}

\* Mutant: neighbours of one name are taken for one program.
SameName(a, b) == a.name = b.name

Same(a, b) == a.id = b.id

\* std::unique: an element goes when it equals the last one that was kept, and
\* so its neighbour, which equals that one or is it.
Kept(s) == {i \in 1 .. Len(s) : i > 1 => ~Same(s[i - 1], s[i])}

Unique(s) == [n \in 1 .. Cardinality(Kept(s)) |-> s[At(Kept(s), n - 1)]]

\* UninstallViewModel::resort: the sorted copy.
Resort == visibleApps' \in Sorts(allApps', sortKey', descending')

\* The list is sorted by name, made unique, and given to the page.
EnumerateEnds ==
    /\ view = Views + 1 /\ view' = 0
    /\ \E sorted \in Sorts(out, "name", FALSE) : allApps' = Unique(sorted)
    /\ UNCHANGED <<sortKey, descending>> /\ Resort
    /\ UNCHANGED <<registry, index, out, since, disturbed, running, changes, journalVars>>

\* setSortKey, setSortDescending: nothing happens when the value is the same.
SetSort(key, down) ==
    /\ view = 0 /\ step = "none"
    /\ \/ key # sortKey /\ down = descending
       \/ key = sortKey /\ down # descending
    /\ sortKey' = key /\ descending' = down /\ UNCHANGED allApps /\ Resort
    /\ UNCHANGED <<registry, listing, running, changes, journalVars>>

-----------------------------------------------------------------------------
(* execute                                                                 *)

\* A plan without a command fails at once, unless it is forced. The page and
\* the command line only fill in the identifier of their target.
Perform(app, force) ==
    /\ view = 0 /\ step = "none" /\ changes < MaxChanges /\ changes' = changes + 1
    /\ target' = app
    /\ step' = IF ~app.command /\ ~force THEN "none" ELSE "invoke"
    /\ UNCHANGED <<registry, listing, page, journalVars>>

\* The command of the program is run and waited for, or cannot be started, or
\* there is none; nobody asks what it did.
Invoke ==
    /\ step = "invoke" /\ step' = "sweep"
    /\ UNCHANGED <<registry, listing, page, target, changes, journalVars>>

\* The uninstaller of the program removes its key, or does not.
Uninstalls(v, k) ==
    /\ step = "invoke" /\ target.command /\ k \in registry[v] /\ Program[v][k] = target
    /\ registry' = [registry EXCEPT ![v] = @ \ {k}]
    /\ UNCHANGED <<listing, page, running, changes, journalVars>>

\* Success is reported and recorded, in either case.
UninstallReturns ==
    /\ step = "sweep" /\ step' = "none"
    /\ Record("UninstallPerformed", target.id, target.size)
    /\ UNCHANGED <<registry, listing, page, target, changes>>

\* Installers and uninstallers run beside the application.
KeyAppears(v, k) ==
    /\ changes < MaxChanges /\ changes' = changes + 1 /\ k \notin registry[v]
    /\ registry' = [registry EXCEPT ![v] = @ \cup {k}]
    /\ UNCHANGED <<listing, page, running, journalVars>>

KeyDisappears(v, k) ==
    /\ changes < MaxChanges /\ changes' = changes + 1 /\ k \in registry[v]
    /\ registry' = [registry EXCEPT ![v] = @ \ {k}] /\ disturbed' = TRUE
    /\ UNCHANGED <<view, index, out, since, page, running, journalVars>>

UninstallNext ==
    \/ view = 0 /\ step = "none" /\ (JournalOpen \/ JournalClose) /\ UNCHANGED uninstallVars
    \/ EnumerateBegins \/ EnumerateKey \/ EnumerateView \/ EnumerateEnds \/ Invoke \/ UninstallReturns
    \/ \E key \in SortKeys, down \in BOOLEAN : SetSort(key, down)
    \/ \E i \in 1 .. Len(allApps) :
         \/ \E force \in BOOLEAN : Perform(allApps[i], force)
         \/ Perform([Nobody EXCEPT !.id = allApps[i].id], FALSE)
    \/ \E v \in 1 .. Views, k \in Keys : Uninstalls(v, k) \/ KeyAppears(v, k) \/ KeyDisappears(v, k)

UninstallSpec == UninstallInit /\ JournalInit /\ [][UninstallNext]_<<uninstallVars, journalVars>>

-----------------------------------------------------------------------------
\* Every program that the registry held when the enumeration began is shown,
\* however keys were added while it ran and however the sort orders equals,
\* unless a key went away or could not be read meanwhile (positions then
\* shift); what is shown is the list, in the order the user asked for.
ListIsComplete ==
    view = 0 =>
    /\ disturbed \/ {a.id : a \in {b \in since : b.name > 0}} \subseteq {a.id : a \in Range(visibleApps)}
    /\ Range(visibleApps) = Range(allApps) /\ Len(visibleApps) = Len(allApps)
    /\ \A i \in 1 .. Len(visibleApps) - 1 :
         LET a == visibleApps[i][sortKey]  b == visibleApps[i + 1][sortKey]
         IN  IF descending THEN a >= b ELSE a <= b
=============================================================================
