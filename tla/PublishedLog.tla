----------------------------- MODULE PublishedLog -----------------------------
(***************************************************************************)
(* What the artifact ledger promises, with no files in sight: there is a   *)
(* log of bundles, and it only grows, by one bundle that a command was     *)
(* asked to append and that is then not asked for any more. A command may  *)
(* end without having appended. Of a log that was removed nothing is       *)
(* promised.                                                               *)
(***************************************************************************)
EXTENDS Sequences

CONSTANTS
    Procs,   \* who appends
    Bundles, \* what is appended
    None     \* nothing

VARIABLES
    log,     \* the bundles under the published head
    wanted,  \* wanted[p]: the bundle p is to append
    removed  \* a log has been removed

vars == <<log, wanted, removed>>

Init ==
    /\ log \in Seq(Bundles)
    /\ wanted = [p \in Procs |-> None]
    /\ removed = FALSE

Ask(p) ==
    /\ wanted[p] = None
    /\ \E b \in Bundles : wanted' = [wanted EXCEPT ![p] = b]
    /\ UNCHANGED <<log, removed>>

Publish(p) ==
    /\ wanted[p] # None /\ ~removed
    /\ log' = Append(log, wanted[p])
    /\ wanted' = [wanted EXCEPT ![p] = None]
    /\ UNCHANGED removed

GiveUp(p) ==
    /\ wanted' = [wanted EXCEPT ![p] = None]
    /\ UNCHANGED <<log, removed>>

Remove ==
    /\ removed' = TRUE
    /\ log' \in Seq(Bundles)
    /\ wanted' \in [Procs -> Bundles \cup {None}]

Next == Remove \/ \E p \in Procs : Ask(p) \/ Publish(p) \/ GiveUp(p)

Spec == Init /\ [][Next]_vars
=============================================================================
