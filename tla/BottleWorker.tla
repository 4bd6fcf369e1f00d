---------------------------- MODULE BottleWorker ----------------------------
(***************************************************************************)
(* The drop path of the Daylight Bottle Worker (apps/bottle/worker): a     *)
(* POST stores one bottle under two Workers KV keys, an id key that serves *)
(* the evidence and a recipient key that serves the inbox listing.  Every  *)
(* await of the handler is a step of its own, so concurrent requests       *)
(* interleave between the capacity check, the two writes, the two rollback *)
(* deletes and the answer.                                                 *)
(*                                                                         *)
(* Workers KV is external.  It has an authoritative copy (ids, index) and  *)
(* a copy at a location that lags behind (idsSeen, indexSeen).  A call that*)
(* throws may or may not have taken effect: the handler itself assumes so  *)
(* when it deletes the key whose write failed.                             *)
(*                                                                         *)
(* A drop request and the bottle it stores share a name: randomUUID gives  *)
(* each request an id of its own.                                          *)
(***************************************************************************)
EXTENDS Integers, FiniteSets

CONSTANTS
    Drops,           \* the POST requests, and the bottles they store
    Recipients,      \* recipient fingerprints a request may name
    Active,          \* those with a sound active record in the bundled keyring
    Capacity,        \* BOTTLE_RECIPIENT_CAPACITY
    Retention,       \* THIRTY_DAYS_MS, in clock ticks
    TicksPerSecond,  \* clock ticks in one second of KV expiration time
    Window,          \* bound: drops of a recipient in flight or not yet visible
    MaxLatency,      \* bound: ticks a request may be in flight
    LastArrival,     \* bound: no request arrives after this tick
    MaxClock,        \* bound: the clock stops here
    MaxFaults        \* bound: failed storage calls and killed requests

ASSUME DropsAssumption == Drops \subseteq Nat /\ IsFiniteSet(Drops)
ASSUME KeyringAssumption == Active \subseteq Recipients
ASSUME SizesAssumption ==
    /\ Capacity \in Nat \ {0}
    /\ Window \in Nat \ {0}
    /\ MaxFaults \in Nat
ASSUME TimeAssumption ==
    /\ TicksPerSecond \in Nat \ {0}
    /\ Retention \in Nat \ {0}
    /\ Retention % TicksPerSecond = 0
    /\ MaxLatency \in Nat
    /\ MaxLatency < Retention
    /\ LastArrival \in Nat
    /\ MaxClock \in Nat

VARIABLES
    clock,     \* wall-clock time
    pc,        \* pc[d]: where the handler of d is suspended
    outcome,   \* outcome[d]: how d ended
    rcpt,      \* rcpt[d]: the recipient d names
    storedAt,  \* storedAt[d]: the `now` the handler of d captured
    undo,      \* undo[d]: rollback deletes of d that have not settled
    ids,       \* bottles with an id key
    index,     \* bottles with a recipient key
    idsSeen,   \* ids at the lagging location
    indexSeen, \* index at the lagging location
    faults     \* storage calls failed and requests killed so far

kvVars == <<ids, index, idsSeen, indexSeen>>
requestVars == <<pc, outcome, rcpt, storedAt, undo>>
vars == <<clock, requestVars, kvVars, faults>>

Suspended == {"admit", "capacity", "put_id", "put_rcpt", "rollback", "respond"}
Outcomes ==
    {"none",      \* not answered yet
     "refused",   \* 400, 403, 413, 415, 429 or 503: before storage is touched
     "full",      \* 409
     "failed",    \* 500
     "accepted",  \* 201
     "killed"}    \* the isolate died: no answer
KeyKinds == {"id", "rcpt"}

InFlight(d) == pc[d] \in Suspended

(***************************************************************************)
(* Expiry.  expiresAt is a millisecond; KV takes whole seconds, and the    *)
(* handler rounds up.                                                      *)
(***************************************************************************)
ExpiresAt(d) == storedAt[d] + Retention

(* Mutant: Math.floor for Math.ceil. *)
ExpirationSecondFloor(t) == t \div TicksPerSecond

ExpirationSecond(t) == (t + TicksPerSecond - 1) \div TicksPerSecond

Expired(d) == clock >= ExpiresAt(d)

(***************************************************************************)
(* KV list.  Keys of a recipient sort by storedAt, then bottle id.  A page *)
(* is served from either copy, starts after a cursor key and holds at most *)
(* limit keys; it may hold fewer, even none, and still not be complete.    *)
(***************************************************************************)
(* Mutant: a listing starts at its cursor, not after it. *)
KeyBeforeOrAt(b, c) ==
    storedAt[b] < storedAt[c] \/ (storedAt[b] = storedAt[c] /\ b <= c)

KeyBefore(b, c) ==
    storedAt[b] < storedAt[c] \/ (storedAt[b] = storedAt[c] /\ b < c)

Listed(copy, r, cursor) ==
    {b \in copy : rcpt[b] = r /\ \A c \in cursor : KeyBefore(c, b)}

(* Mutant: no limit is passed to kv.list. *)
PagesUnlimited(listed, limit) ==
    {p \in SUBSET listed : \A b \in p, c \in listed : KeyBefore(c, b) => c \in p}

Pages(listed, limit) ==
    {page \in SUBSET listed :
        /\ Cardinality(page) <= limit
        /\ \A b \in page, c \in listed : KeyBefore(c, b) => c \in page}

(* Mutant: the inbox may hold one more. *)
HasRecipientCapacityAtLimit(page, complete) ==
    complete /\ Cardinality(page) <= Capacity

HasRecipientCapacity(page, complete) ==
    complete /\ Cardinality(page) < Capacity

-----------------------------------------------------------------------------

Init ==
    /\ clock = 0
    /\ pc = [d \in Drops |-> "idle"]
    /\ outcome = [d \in Drops |-> "none"]
    /\ rcpt \in [Drops -> Recipients]
    /\ storedAt = [d \in Drops |-> 0]
    /\ undo = [d \in Drops |-> {}]
    /\ ids = {} /\ index = {}
    /\ idsSeen = {} /\ indexSeen = {}
    /\ faults = 0

(***************************************************************************)
(* Helpers of the handler: continue at another await, or answer.           *)
(***************************************************************************)
Goto(d, label) ==
    /\ pc' = [pc EXCEPT ![d] = label]
    /\ UNCHANGED outcome

Answer(d, result) ==
    /\ pc' = [pc EXCEPT ![d] = "done"]
    /\ outcome' = [outcome EXCEPT ![d] = result]

Fault == faults < MaxFaults /\ faults' = faults + 1

(* What Window bounds: the drops a capacity check of r may fail to count. *)
Unsettled(r) == {d \in Drops : rcpt[d] = r /\ (InFlight(d) \/ d \in index \ indexSeen)}

(* Mutant: expiresAt is stored in place of storedAt. *)
ReceiveSwapped(d) ==
    /\ pc[d] = "idle"
    /\ clock <= LastArrival
    /\ Cardinality(Unsettled(rcpt[d])) < Window
    /\ storedAt' = [storedAt EXCEPT ![d] = clock + Retention]
    /\ Goto(d, "admit")
    /\ UNCHANGED <<clock, rcpt, undo, kvVars, faults>>

(* handleRequest captures `now` before the first await. *)
Receive(d) ==
    /\ pc[d] = "idle"
    /\ clock <= LastArrival
    /\ Cardinality(Unsettled(rcpt[d])) < Window
    /\ storedAt' = [storedAt EXCEPT ![d] = clock]
    /\ Goto(d, "admit")
    /\ UNCHANGED <<clock, rcpt, undo, kvVars, faults>>

(* The body is not a bottle request the parser takes: 400, 413 or 415. *)
RefuseBody(d) ==
    /\ pc[d] = "admit"
    /\ Answer(d, "refused")
    /\ UNCHANGED <<clock, rcpt, storedAt, undo, kvVars, faults>>

(* No active key record has this recipient, 403, or its record is not      *)
(* sound, 503: Active holds the recipients with a sound, active record.    *)
RefuseRecipient(d) ==
    /\ pc[d] = "admit"
    /\ rcpt[d] \notin Active
    /\ Answer(d, "refused")
    /\ UNCHANGED <<clock, rcpt, storedAt, undo, kvVars, faults>>

(* The rate budget is spent, 429, or no limiter is bound, 503. *)
RefuseRate(d) ==
    /\ pc[d] = "admit"
    /\ rcpt[d] \in Active
    /\ Answer(d, "refused")
    /\ UNCHANGED <<clock, rcpt, storedAt, undo, kvVars, faults>>

Refuse(d) == RefuseBody(d) \/ RefuseRecipient(d) \/ RefuseRate(d)

Admit(d) ==
    /\ pc[d] = "admit"
    /\ rcpt[d] \in Active
    /\ Goto(d, "capacity")
    /\ UNCHANGED <<clock, rcpt, storedAt, undo, kvVars, faults>>

(* The body stream, the rate limiter or the capacity listing throws: 500,  *)
(* nothing written.                                                        *)
LookupFails(d) ==
    /\ pc[d] \in {"admit", "capacity"}
    /\ Fault
    /\ Answer(d, "failed")
    /\ UNCHANGED <<clock, rcpt, storedAt, undo, kvVars>>

CheckCapacity(d) ==
    /\ pc[d] = "capacity"
    /\ \E copy \in {index, indexSeen} :
        LET listed == Listed(copy, rcpt[d], {}) IN
        \E page \in Pages(listed, Capacity) :
            IF HasRecipientCapacity(page, page = listed)
            THEN Goto(d, "put_id")
            ELSE Answer(d, "full")
    /\ UNCHANGED <<clock, rcpt, storedAt, undo, kvVars, faults>>

(* Mutant: the first write is not awaited. *)
PutIdNotAwaited(d) ==
    /\ pc[d] = "put_id"
    /\ ids' \in {ids, ids \cup {d}}
    /\ Goto(d, "put_rcpt")
    /\ UNCHANGED <<clock, rcpt, storedAt, undo, index, idsSeen, indexSeen, faults>>

PutId(d) ==
    /\ pc[d] = "put_id"
    /\ ids' = ids \cup {d}
    /\ Goto(d, "put_rcpt")
    /\ UNCHANGED <<clock, rcpt, storedAt, undo, index, idsSeen, indexSeen, faults>>

(* The first write throws: the error leaves put, and nothing is undone. *)
PutIdFails(d) ==
    /\ pc[d] = "put_id"
    /\ Fault
    /\ ids' \in {ids, ids \cup {d}}
    /\ Answer(d, "failed")
    /\ UNCHANGED <<clock, rcpt, storedAt, undo, index, idsSeen, indexSeen>>

PutRcpt(d) ==
    /\ pc[d] = "put_rcpt"
    /\ index' = index \cup {d}
    /\ Goto(d, "respond")
    /\ UNCHANGED <<clock, rcpt, storedAt, undo, ids, idsSeen, indexSeen, faults>>

(* The second write throws: both keys are deleted, in parallel. *)
PutRcptFails(d) ==
    /\ pc[d] = "put_rcpt"
    /\ Fault
    /\ index' \in {index, index \cup {d}}
    /\ undo' = [undo EXCEPT ![d] = KeyKinds]
    /\ Goto(d, "rollback")
    /\ UNCHANGED <<clock, rcpt, storedAt, ids, idsSeen, indexSeen>>

(* Mutant: the write error is not rethrown, and put returns. *)
SettleNoRethrow(d, kind) ==
    /\ undo' = [undo EXCEPT ![d] = @ \ {kind}]
    /\ IF undo[d] = {kind} THEN Goto(d, "respond") ELSE UNCHANGED <<pc, outcome>>

(* One delete settles; when both have, the write error is rethrown. *)
Settle(d, kind) ==
    /\ undo' = [undo EXCEPT ![d] = @ \ {kind}]
    /\ IF undo[d] = {kind} THEN Answer(d, "failed") ELSE UNCHANGED <<pc, outcome>>

(* Mutant: only the id key is really deleted. *)
DeleteIdOnly(d, kind) ==
    /\ pc[d] = "rollback"
    /\ kind \in undo[d]
    /\ ids' = IF kind = "id" THEN ids \ {d} ELSE ids
    /\ Settle(d, kind)
    /\ UNCHANGED <<clock, rcpt, storedAt, index, idsSeen, indexSeen, faults>>

Delete(d, kind) ==
    /\ pc[d] = "rollback"
    /\ kind \in undo[d]
    /\ ids' = IF kind = "id" THEN ids \ {d} ELSE ids
    /\ index' = IF kind = "rcpt" THEN index \ {d} ELSE index
    /\ Settle(d, kind)
    /\ UNCHANGED <<clock, rcpt, storedAt, idsSeen, indexSeen, faults>>

(* Mutant: the delete is wrapped in a promise that only success resolves,  *)
(* so that Promise.all waits for ever.                                     *)
DeleteFailsPending(d, kind) ==
    /\ pc[d] = "rollback"
    /\ kind \in undo[d]
    /\ Fault
    /\ undo' = [undo EXCEPT ![d] = (@ \ {kind}) \cup {"pending"}]
    /\ UNCHANGED <<clock, pc, outcome, rcpt, storedAt, kvVars>>

(* A delete that throws is swallowed. *)
DeleteFails(d, kind) ==
    /\ pc[d] = "rollback"
    /\ kind \in undo[d]
    /\ Fault
    /\ Settle(d, kind)
    /\ UNCHANGED <<clock, rcpt, storedAt, kvVars>>

Respond(d) ==
    /\ pc[d] = "respond"
    /\ Answer(d, "accepted")
    /\ UNCHANGED <<clock, rcpt, storedAt, undo, kvVars, faults>>

(* The isolate is evicted, or the client disconnects, at any await. *)
Kill(d) ==
    /\ InFlight(d)
    /\ Fault
    /\ Answer(d, "killed")
    /\ UNCHANGED <<clock, rcpt, storedAt, undo, kvVars>>

Handle(d) ==
    \/ Receive(d) \/ Refuse(d) \/ Admit(d) \/ LookupFails(d)
    \/ CheckCapacity(d)
    \/ PutId(d) \/ PutIdFails(d)
    \/ PutRcpt(d) \/ PutRcptFails(d)
    \/ \E kind \in KeyKinds : Delete(d, kind) \/ DeleteFails(d, kind)
    \/ Respond(d) \/ Kill(d)

-----------------------------------------------------------------------------
(***************************************************************************)
(* The store's own steps: the lagging location catches up on a key, a key  *)
(* is dropped once its expiration second has come, and time passes.        *)
(***************************************************************************)
SyncId(d) ==
    /\ (d \in ids) # (d \in idsSeen)
    /\ idsSeen' = IF d \in ids THEN idsSeen \cup {d} ELSE idsSeen \ {d}
    /\ UNCHANGED <<clock, requestVars, ids, index, indexSeen, faults>>

SyncIndex(d) ==
    /\ (d \in index) # (d \in indexSeen)
    /\ indexSeen' = IF d \in index THEN indexSeen \cup {d} ELSE indexSeen \ {d}
    /\ UNCHANGED <<clock, requestVars, ids, index, idsSeen, faults>>

KeyDue(d) == clock >= ExpirationSecond(ExpiresAt(d)) * TicksPerSecond

ExpireId(d) ==
    /\ d \in ids \cup idsSeen
    /\ KeyDue(d)
    /\ ids' = ids \ {d} /\ idsSeen' = idsSeen \ {d}
    /\ UNCHANGED <<clock, requestVars, index, indexSeen, faults>>

(* Mutant: the recipient key is written without an expiration. *)
ExpireIndexNever(d) == FALSE /\ UNCHANGED vars

ExpireIndex(d) ==
    /\ d \in index \cup indexSeen
    /\ KeyDue(d)
    /\ index' = index \ {d} /\ indexSeen' = indexSeen \ {d}
    /\ UNCHANGED <<clock, requestVars, ids, idsSeen, faults>>

Tick ==
    /\ clock < MaxClock
    /\ \A d \in Drops : InFlight(d) => clock - storedAt[d] < MaxLatency
    /\ clock' = clock + 1
    /\ UNCHANGED <<requestVars, kvVars, faults>>

Store(d) == SyncId(d) \/ SyncIndex(d) \/ ExpireId(d) \/ ExpireIndex(d)

Next == Tick \/ \E d \in Drops : Handle(d) \/ Store(d)

Spec == Init /\ [][Next]_vars

-----------------------------------------------------------------------------
(***************************************************************************)
(* Correctness.                                                            *)
(***************************************************************************)
TypeOK ==
    /\ clock \in 0..MaxClock
    /\ pc \in [Drops -> Suspended \cup {"idle", "done"}]
    /\ outcome \in [Drops -> Outcomes]
    /\ rcpt \in [Drops -> Recipients]
    /\ storedAt \in [Drops -> 0..LastArrival]
    /\ undo \in [Drops -> SUBSET KeyKinds]
    /\ ids \subseteq Drops /\ index \subseteq Drops
    /\ idsSeen \subseteq Drops /\ indexSeen \subseteq Drops
    /\ faults \in 0..MaxFaults

(* A drop answered 201 keeps both of its keys until the expiresAt its      *)
(* answer promised: no rollback, no rounding of the KV expiration and no   *)
(* other request takes either away (createKvBottleStorage.put).            *)
AcceptedIsKept ==
    \A d \in Drops :
        outcome[d] = "accepted" /\ ~Expired(d) => d \in ids \cap index

(* While it is unexpired, a bottle in the recipient index has its evidence *)
(* too, except while its own drop is being, or has been, rolled back: the  *)
(* id key is written first, also when the isolate dies between the writes. *)
ListedHasEvidence ==
    \A d \in index :
        ~Expired(d) /\ undo[d] = {} /\ outcome[d] # "failed" => d \in ids

(* Where a handler is suspended says which keys its bottle has, and a key  *)
(* it needs cannot expire under it: the inductive form of the two above.   *)
HandlerOK(d) ==
    /\ outcome[d] = "none" <=> pc[d] # "done"
    /\ InFlight(d) => storedAt[d] <= clock /\ clock <= storedAt[d] + MaxLatency
    /\ pc[d] \in {"idle", "admit", "capacity", "put_id"}
          => d \notin ids \cup index /\ undo[d] = {}
    /\ pc[d] = "put_rcpt" => d \in ids \ index /\ undo[d] = {}
    /\ pc[d] = "respond" => d \in ids \cap index /\ undo[d] = {}
    /\ pc[d] = "rollback" => undo[d] # {}
    /\ outcome[d] = "accepted" /\ ~KeyDue(d) => d \in ids \cap index
    /\ d \in index /\ ~KeyDue(d) /\ undo[d] = {} /\ outcome[d] # "failed"
          => d \in ids

HandlerInv == \A d \in Drops : HandlerOK(d)

(* The admission check races with writes it cannot see, so an inbox can    *)
(* pass its capacity, but only by the drops of that recipient that were in *)
(* flight or not yet visible when the last one was admitted.               *)
OvershootBounded ==
    \A r \in Recipients :
        Cardinality({d \in index : rcpt[d] = r}) <= Capacity + Window - 1

(* The same with the drops already admitted counted in: its inductive form. *)
Claimed(r) ==
    {d \in Drops : rcpt[d] = r /\ (d \in index \/ pc[d] \in {"put_id", "put_rcpt"})}

CapacityInv ==
    \A r \in Recipients :
        /\ Cardinality(Unsettled(r)) <= Window
        /\ Cardinality(Claimed(r)) <= Capacity + Window - 1

(* A drop refused before storage leaves nothing.  An id key left by a drop *)
(* that failed or was killed cost a failed call or an isolate of its own,  *)
(* and a failed drop stays listed only if its write and its delete failed. *)
LeftoversNeedFaults ==
    /\ \A d \in ids \cup index : outcome[d] \notin {"refused", "full"}
    /\ Cardinality({d \in ids : outcome[d] \in {"failed", "killed"}})
         + 2 * Cardinality({d \in index : outcome[d] = "failed"}) <= faults

(* The two KV keys implement the inbox the application promises. *)
InboxAnswer ==
    [d \in Drops |->
        IF outcome[d] = "none" THEN "open"
        ELSE IF outcome[d] = "accepted" THEN "accepted" ELSE "declined"]

Inbox == INSTANCE BottleInbox WITH
    Bottles <- Drops,
    takenAt <- storedAt,
    receipts <- ids,
    inbox <- index,
    answer <- InboxAnswer

ImplementsInbox == Inbox!Spec

(***************************************************************************)
(* Fairness: the event loop resumes a suspended handler, KV converges and  *)
(* expires keys, and time passes.  No request has to arrive.               *)
(***************************************************************************)
Resume(d) ==
    \/ Refuse(d) \/ Admit(d) \/ CheckCapacity(d)
    \/ PutId(d) \/ PutRcpt(d)
    \/ \E kind \in KeyKinds : Delete(d, kind)
    \/ Respond(d)

Fairness ==
    /\ WF_vars(Tick)
    /\ \A d \in Drops : WF_vars(Resume(d)) /\ WF_vars(Store(d))

FairSpec == Spec /\ Fairness

(* Every request the Worker takes is answered unless its isolate dies, and *)
(* one whose second write threw is answered with that error, also when the *)
(* deletes of its rollback throw: they neither keep Promise.all waiting    *)
(* nor let put return as if it had stored the bottle (bestEffortDelete).   *)
DropSettles ==
    \A d \in Drops :
        /\ pc[d] = "admit" ~> outcome[d] # "none"
        /\ pc[d] = "rollback" ~> outcome[d] \in {"failed", "killed"}

(* No copy of the index lists as many bottles of r as would refuse a drop. *)
HasRoom(r) ==
    \A copy \in {index, indexSeen} : Cardinality(Listed(copy, r, {})) < Capacity

(* A full inbox has room again at every location, even if it is full of    *)
(* failed drops no one was told of, and while other drops keep coming for  *)
(* the place ("Try again after older bottles expire").                     *)
InboxDrains == \A r \in Recipients : ~HasRoom(r) ~> HasRoom(r)

(* The test "keeps a failed second write out of the recipient index even   *)
(* if rollback fails" (worker/index.test.ts:585).                          *)
FailedDropNotListed == \A d \in index : outcome[d] # "failed"

=============================================================================
