------------------------------ MODULE Journal ------------------------------
(* The journal of the application: a table of a SQLite database, whose     *)
(* handle stays null until the first open, and is kept when an open fails. *)
EXTENDS Naturals, Sequences

VARIABLES db,    \* the handle: "null", "broken" (open, without the table), or "ready"
          rows   \* the table, in the order of insertion: [kind, subject, size]

journalVars == <<db, rows>>

JournalInit == db = "null" /\ rows = <<>>

\* open: sqlite3_open or the creation of the table may fail; the handle is
\* not closed then. An earlier handle is replaced.
JournalOpen == db' \in {"broken", "ready"} /\ UNCHANGED rows

JournalClose == db' = "null" /\ UNCHANGED rows

\* record: without a usable handle, or when the insertion fails, nothing is
\* written and an error is returned, which the callers drop.
Record(kind, subject, size) ==
    /\ \/ /\ db = "ready"
          /\ rows' = Append(rows, [kind |-> kind, subject |-> subject, size |-> size])
       \/ UNCHANGED rows
    /\ UNCHANGED db
=============================================================================
