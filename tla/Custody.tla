------------------------------ MODULE Custody ------------------------------
(***************************************************************************)
(* What the quarantine promises about the user's data, whoever calls it    *)
(* and whatever fails.  A piece of content is created by the user, handed  *)
(* to the vault by a capture, handed back by a restore, and leaves the     *)
(* disk for one of three reasons only: the user discarded it, a purge      *)
(* found it past its deadline, or a restore put another file in its place. *)
(***************************************************************************)
EXTENDS Integers

CONSTANTS Contents,   \* pieces of user data (a file or a directory tree)
          Retentions  \* retention periods the capturing processes use

VARIABLES where,      \* who has each piece of content, or how it was lost
          deadline,   \* expiry of the content in the vault
          now         \* wall clock

vars == <<where, deadline, now>>

Init == /\ where = [c \in Contents |-> "unborn"]
        /\ deadline = [c \in Contents |-> 0]
        /\ now = 0

Create(c) == /\ where[c] = "unborn"
             /\ where' = [where EXCEPT ![c] = "user"]
             /\ UNCHANGED <<deadline, now>>

Capture(c) == /\ where[c] = "user"
              /\ where' = [where EXCEPT ![c] = "vault"]
              /\ \E r \in Retentions : deadline' = [deadline EXCEPT ![c] = now + r]
              /\ UNCHANGED now

\* The stored content goes back to its path; a file found there is replaced.
Restore(c) == /\ where[c] = "vault"
              /\ \/ where' = [where EXCEPT ![c] = "user"]
                 \/ \E d \in Contents \ {c} :
                       /\ where[d] = "user"
                       /\ where' = [where EXCEPT ![c] = "user", ![d] = "overwritten"]
              /\ UNCHANGED <<deadline, now>>

Discard(c) == /\ where[c] = "vault"
              /\ where' = [where EXCEPT ![c] = "discarded"]
              /\ UNCHANGED <<deadline, now>>

Expire(c) == /\ where[c] = "vault"
             /\ deadline[c] <= now
             /\ where' = [where EXCEPT ![c] = "expired"]
             /\ UNCHANGED <<deadline, now>>

Tick == /\ now' = now + 1
        /\ UNCHANGED <<where, deadline>>

Next == \/ \E c \in Contents : Create(c) \/ Capture(c) \/ Restore(c) \/ Discard(c) \/ Expire(c)
        \/ Tick

Spec == Init /\ [][Next]_vars
=============================================================================
