----------------------------- MODULE BottleInbox -----------------------------
(***************************************************************************)
(* What Daylight Bottle promises of a bottle, with no key-value store in   *)
(* sight: a bottle gets its receipt (the served evidence) before it is     *)
(* placed in the recipient's inbox, a sender is told "accepted" only when  *)
(* both exist, and from then on both stay for the retention period.  A     *)
(* declined drop may leave either behind; everything lapses in the end.    *)
(***************************************************************************)
EXTENDS Integers

CONSTANTS Bottles, Retention

VARIABLES
    clock,
    takenAt,   \* takenAt[b]: when the request for b was taken
    receipts,  \* bottles whose evidence is held
    inbox,     \* bottles a recipient can list
    answer     \* answer[b]: "open", "accepted" or "declined"

vars == <<clock, takenAt, receipts, inbox, answer>>

Lapsed(b) == clock >= takenAt[b] + Retention

Init ==
    /\ clock = 0
    /\ takenAt = [b \in Bottles |-> 0]
    /\ receipts = {} /\ inbox = {}
    /\ answer = [b \in Bottles |-> "open"]

Take(b) ==
    /\ answer[b] = "open"
    /\ b \notin receipts \cup inbox
    /\ takenAt' = [takenAt EXCEPT ![b] = clock]
    /\ UNCHANGED <<clock, receipts, inbox, answer>>

Certify(b) ==
    /\ answer[b] = "open"
    /\ b \notin inbox
    /\ receipts' = receipts \cup {b}
    /\ UNCHANGED <<clock, takenAt, inbox, answer>>

Place(b) ==
    /\ answer[b] = "open"
    /\ b \in receipts
    /\ inbox' = inbox \cup {b}
    /\ UNCHANGED <<clock, takenAt, receipts, answer>>

Accept(b) ==
    /\ answer[b] = "open"
    /\ b \in receipts \cap inbox
    /\ answer' = [answer EXCEPT ![b] = "accepted"]
    /\ UNCHANGED <<clock, takenAt, receipts, inbox>>

(* An open drop is taken back, in any order and perhaps only in part. *)
Withdraw(b) ==
    /\ answer[b] = "open"
    /\ receipts' \in {receipts, receipts \ {b}}
    /\ inbox' \in {inbox, inbox \ {b}}
    /\ UNCHANGED <<clock, takenAt, answer>>

Decline(b) ==
    /\ answer[b] = "open"
    /\ receipts' \in {receipts, receipts \ {b}, receipts \cup {b}}
    /\ inbox' \in {inbox, inbox \ {b}}
    /\ answer' = [answer EXCEPT ![b] = "declined"]
    /\ UNCHANGED <<clock, takenAt>>

Lapse(b) ==
    /\ Lapsed(b)
    /\ receipts' \in {receipts, receipts \ {b}}
    /\ inbox' \in {inbox, inbox \ {b}}
    /\ UNCHANGED <<clock, takenAt, answer>>

Tick ==
    /\ clock' = clock + 1
    /\ UNCHANGED <<takenAt, receipts, inbox, answer>>

Next ==
    \/ Tick
    \/ \E b \in Bottles :
         \/ Take(b) \/ Certify(b) \/ Place(b) \/ Accept(b)
         \/ Withdraw(b) \/ Decline(b) \/ Lapse(b)

Spec == Init /\ [][Next]_vars

=============================================================================
