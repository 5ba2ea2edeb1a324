---------------------------- MODULE MCQuarantine ----------------------------
(* Small instances of the quarantine.                                      *)
EXTENDS Quarantine, TLC

CONSTANTS gui, cli, x1, x2, c1, c2, i1, i2, i3

\* Captured content of different sizes, so that sums tell items apart.
SizeOf == c1 :> 1 @@ c2 :> 3

\* The application takes its retention from the configuration; the command
\* line hard-codes its own.
RetentionOf == [p \in Procs |-> IF p = gui THEN 1 ELSE 2]

\* Runs with failures have one: a crash or a failing call.
OneFailure == ioFaults + crashes <= 1

\* Where byte totals are not looked at, contents are alike.
SizeOne == [c \in Contents |-> 1]
SymmetryShared == Permutations(Ids) \cup Permutations(Paths) \cup Permutations(Contents)

Symmetry == Permutations(Ids) \cup Permutations(Paths)
=============================================================================
