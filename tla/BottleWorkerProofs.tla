------------------------- MODULE BottleWorkerProofs -------------------------
(***************************************************************************)
(* Theorems about the drop path and about paging, for every number of      *)
(* requests, recipients, views, page size, capacity, retention and bound.  *)
(***************************************************************************)
EXTENDS BottleWalk, FiniteSetTheorems, WellFoundedInduction, TLAPS

(* The next-state relation, one action per disjunct, under one name. *)
LEMMA StepCases ==
    ASSUME Next
    PROVE  \/ Tick
           \/ \E d \in Drops :
                \/ Receive(d) \/ Refuse(d) \/ Admit(d) \/ LookupFails(d)
                \/ CheckCapacity(d) \/ PutId(d) \/ PutIdFails(d)
                \/ PutRcpt(d) \/ PutRcptFails(d)
                \/ (\E kind \in KeyKinds : Delete(d, kind) \/ DeleteFails(d, kind))
                \/ Respond(d) \/ Kill(d)
                \/ SyncId(d) \/ SyncIndex(d) \/ ExpireId(d) \/ ExpireIndex(d)
BY Zenon DEF Next, Handle, Store

-----------------------------------------------------------------------------
(* The variables keep their types: the handler stores only times it read   *)
(* from the clock before LastArrival, and rollback tracks only key kinds.  *)
THEOREM TypeCorrect == Spec => []TypeOK
<1>1. Init => TypeOK
  BY TimeAssumption, SizesAssumption DEF Init, TypeOK, Outcomes
<1>2. TypeOK /\ [Next]_vars => TypeOK'
  <2> SUFFICES ASSUME TypeOK, [Next]_vars PROVE TypeOK'
    OBVIOUS
  <2> USE DEF TypeOK, Suspended, Outcomes, KeyKinds, Goto, Answer, Fault,
              requestVars, kvVars
  <2>1. CASE Tick
    BY <2>1, TimeAssumption DEF Tick
  <2>2. ASSUME NEW d \in Drops, Receive(d) PROVE TypeOK'
    BY <2>2, TimeAssumption DEF Receive
  <2>3. ASSUME NEW d \in Drops, Refuse(d) \/ Admit(d) PROVE TypeOK'
    BY <2>3 DEF Refuse, RefuseBody, RefuseRecipient, RefuseRate, Admit
  <2>4. ASSUME NEW d \in Drops, LookupFails(d) \/ Kill(d) PROVE TypeOK'
    BY <2>4, SizesAssumption DEF LookupFails, Kill
  <2>5. ASSUME NEW d \in Drops, CheckCapacity(d) PROVE TypeOK'
    BY <2>5 DEF CheckCapacity
  <2>6. ASSUME NEW d \in Drops, PutId(d) \/ PutRcpt(d) PROVE TypeOK'
    BY <2>6 DEF PutId, PutRcpt
  <2>7. ASSUME NEW d \in Drops, PutIdFails(d) \/ PutRcptFails(d) PROVE TypeOK'
    BY <2>7, SizesAssumption DEF PutIdFails, PutRcptFails
  <2>8. ASSUME NEW d \in Drops, NEW kind \in KeyKinds,
               Delete(d, kind) \/ DeleteFails(d, kind)
        PROVE  TypeOK'
    BY <2>8, SizesAssumption DEF Delete, DeleteFails, Settle
  <2>9. ASSUME NEW d \in Drops, Respond(d) PROVE TypeOK'
    BY <2>9 DEF Respond
  <2>10. ASSUME NEW d \in Drops, SyncId(d) \/ SyncIndex(d) PROVE TypeOK'
    BY <2>10 DEF SyncId, SyncIndex
  <2>11. ASSUME NEW d \in Drops, ExpireId(d) \/ ExpireIndex(d) PROVE TypeOK'
    BY <2>11 DEF ExpireId, ExpireIndex
  <2>12. CASE UNCHANGED vars
    BY <2>12 DEF vars
  <2>13. QED
    BY <2>1, <2>2, <2>3, <2>4, <2>5, <2>6, <2>7, <2>8, <2>9, <2>10, <2>11, <2>12,
       StepCases
<1>3. QED
  BY <1>1, <1>2, PTL DEF Spec

-----------------------------------------------------------------------------
(* Rounding the expiration up to a second never takes a key early. *)
LEMMA RoundedUp ==
    ASSUME NEW t \in Nat
    PROVE  ExpirationSecond(t) * TicksPerSecond >= t
<1> DEFINE k == TicksPerSecond
           q == ExpirationSecond(t)
<1>1. k \in Nat /\ k > 0
  BY TimeAssumption
<1>2. t + k - 1 \in Int /\ q \in Int
  BY <1>1 DEF ExpirationSecond
<1>3. t + k - 1 < k * q + k
  BY <1>1, <1>2 DEF ExpirationSecond
<1>4. QED
  BY <1>1, <1>2, <1>3

LEMMA DueIsExpired ==
    ASSUME TypeOK, NEW d \in Drops, KeyDue(d)
    PROVE  Expired(d)
<1>1. ExpiresAt(d) \in Nat /\ clock \in Nat
  BY TimeAssumption DEF TypeOK, ExpiresAt
<1>2. ExpirationSecond(ExpiresAt(d)) * TicksPerSecond \in Int
  BY <1>1, TimeAssumption DEF ExpirationSecond
<1>3. QED
  BY <1>1, <1>2, RoundedUp DEF KeyDue, Expired

(* A request in flight is younger than its bottle's retention. *)
LEMMA InFlightNotDue ==
    ASSUME TypeOK, HandlerInv, NEW d \in Drops, InFlight(d)
    PROVE  ~KeyDue(d)
<1>1. clock < storedAt[d] + Retention
  BY TimeAssumption DEF HandlerInv, HandlerOK, TypeOK
<1>2. ~Expired(d)
  BY <1>1, TimeAssumption DEF Expired, ExpiresAt, TypeOK
<1>3. QED
  BY <1>2, DueIsExpired

-----------------------------------------------------------------------------
(* A request whose own state and keys do not change keeps HandlerOK. *)
LEMMA OthersKept ==
    ASSUME NEW e \in Drops, HandlerOK(e),
           clock' = clock,
           pc'[e] = pc[e], outcome'[e] = outcome[e],
           storedAt'[e] = storedAt[e], undo'[e] = undo[e],
           e \in ids' <=> e \in ids, e \in index' <=> e \in index
    PROVE  HandlerOK(e)'
BY DEF HandlerOK, InFlight, KeyDue, ExpiresAt

(* The step of one handler, for the request it handles. *)
LEMMA OwnStepKept ==
    ASSUME TypeOK, HandlerInv, NEW d \in Drops, Handle(d)
    PROVE  HandlerOK(d)'
<1> USE DEF HandlerOK, TypeOK, Suspended, InFlight, Goto, Answer, Fault
<1>1. HandlerOK(d)
  BY DEF HandlerInv
<1>2. storedAt' = storedAt /\ clock' = clock => (KeyDue(d)' <=> KeyDue(d))
  BY DEF KeyDue, ExpiresAt
<1>3. CASE Receive(d)
  BY <1>1, <1>3, TimeAssumption DEF Receive, kvVars
<1>4. CASE Refuse(d) \/ Admit(d) \/ LookupFails(d) \/ CheckCapacity(d)
  BY <1>1, <1>2, <1>4
     DEF Refuse, RefuseBody, RefuseRecipient, RefuseRate, Admit, LookupFails,
         CheckCapacity, kvVars
<1>5. CASE PutId(d) \/ PutIdFails(d)
  BY <1>1, <1>2, <1>5 DEF PutId, PutIdFails
<1>6. CASE PutRcpt(d) \/ PutRcptFails(d)
  BY <1>1, <1>2, <1>6 DEF PutRcpt, PutRcptFails, KeyKinds
<1>7. CASE \E kind \in KeyKinds : Delete(d, kind) \/ DeleteFails(d, kind)
  BY <1>1, <1>2, <1>7 DEF Delete, DeleteFails, Settle, KeyKinds, kvVars
<1>8. CASE Respond(d)
  BY <1>1, <1>2, <1>8 DEF Respond, kvVars
<1>9. CASE Kill(d)
  BY <1>1, <1>2, <1>9 DEF Kill, kvVars
<1>10. QED
  BY <1>3, <1>4, <1>5, <1>6, <1>7, <1>8, <1>9 DEF Handle

(* The step of one handler leaves every other request alone. *)
LEMMA OtherStepKept ==
    ASSUME TypeOK, HandlerInv, NEW d \in Drops, Handle(d), NEW e \in Drops \ {d}
    PROVE  HandlerOK(e)'
<1> USE DEF TypeOK, Goto, Answer, Fault, kvVars
<1> SUFFICES /\ clock' = clock
             /\ pc'[e] = pc[e] /\ outcome'[e] = outcome[e]
             /\ storedAt'[e] = storedAt[e] /\ undo'[e] = undo[e]
             /\ e \in ids' <=> e \in ids
             /\ e \in index' <=> e \in index
  BY OthersKept DEF HandlerInv
<1>1. CASE Receive(d) \/ Refuse(d) \/ Admit(d) \/ LookupFails(d) \/ CheckCapacity(d)
  BY <1>1
     DEF Receive, Refuse, RefuseBody, RefuseRecipient, RefuseRate, Admit, LookupFails,
         CheckCapacity
<1>2. CASE PutId(d) \/ PutIdFails(d) \/ PutRcpt(d) \/ PutRcptFails(d)
  BY <1>2 DEF PutId, PutIdFails, PutRcpt, PutRcptFails
<1>3. CASE \E kind \in KeyKinds : Delete(d, kind) \/ DeleteFails(d, kind)
  BY <1>3 DEF Delete, DeleteFails, Settle
<1>4. CASE Respond(d) \/ Kill(d)
  BY <1>4 DEF Respond, Kill
<1>5. QED
  BY <1>1, <1>2, <1>3, <1>4 DEF Handle

(* KV removes a key only when it is due, and no request in flight is so    *)
(* old that its keys are.                                                  *)
LEMMA StoreStepKept ==
    ASSUME TypeOK, HandlerInv, NEW d \in Drops, Store(d), NEW e \in Drops
    PROVE  HandlerOK(e)'
<1> USE DEF requestVars
<1>1. HandlerOK(e)
  BY DEF HandlerInv
<1>2. CASE SyncId(d) \/ SyncIndex(d)
  BY <1>1, <1>2, OthersKept DEF SyncId, SyncIndex
<1>3. CASE ExpireId(d) \/ ExpireIndex(d)
  <2>1. KeyDue(e)' <=> KeyDue(e)
    BY <1>3 DEF ExpireId, ExpireIndex, KeyDue, ExpiresAt
  <2>2. KeyDue(d) /\ ~InFlight(d)
    BY <1>3, InFlightNotDue DEF ExpireId, ExpireIndex
  <2>3. QED
    BY <1>1, <1>3, <2>1, <2>2
    DEF ExpireId, ExpireIndex, HandlerOK, InFlight, Suspended, TypeOK
<1>4. QED
  BY <1>2, <1>3 DEF Store

LEMMA TickKept ==
    ASSUME TypeOK, HandlerInv, Tick, NEW e \in Drops
    PROVE  HandlerOK(e)'
<1>1. HandlerOK(e)
  BY DEF HandlerInv
<1>2. KeyDue(e) => KeyDue(e)'
  <2>1. ExpirationSecond(ExpiresAt(e)) * TicksPerSecond \in Int
    BY TimeAssumption DEF ExpirationSecond, ExpiresAt, TypeOK
  <2>2. QED
    BY <2>1 DEF Tick, requestVars, KeyDue, ExpiresAt, TypeOK
<1>3. QED
  BY <1>1, <1>2, TimeAssumption
  DEF Tick, requestVars, kvVars, HandlerOK, InFlight, TypeOK

(* Where a handler is suspended says which keys its bottle has. *)
THEOREM HandlersCorrect == Spec => []HandlerInv
<1>1. Init => HandlerInv
  BY DEF Init, HandlerInv, HandlerOK, InFlight, Suspended
<1>2. TypeOK /\ HandlerInv /\ [Next]_vars => HandlerInv'
  <2> SUFFICES ASSUME TypeOK, HandlerInv, [Next]_vars, NEW e \in Drops
               PROVE  HandlerOK(e)'
    BY DEF HandlerInv
  <2>1. CASE Tick
    BY <2>1, TickKept
  <2>2. ASSUME NEW d \in Drops, Handle(d) PROVE HandlerOK(e)'
    BY <2>2, OwnStepKept, OtherStepKept
  <2>3. ASSUME NEW d \in Drops, Store(d) PROVE HandlerOK(e)'
    BY <2>3, StoreStepKept
  <2>4. CASE UNCHANGED vars
    BY <2>4, OthersKept DEF vars, requestVars, kvVars, HandlerInv
  <2>5. QED
    BY <2>1, <2>2, <2>3, <2>4 DEF Next
<1>3. QED
  BY <1>1, <1>2, TypeCorrect, PTL DEF Spec

(* A drop answered 201 keeps both of its keys until its bottle expires. *)
THEOREM AcceptedBottlesKept == Spec => []AcceptedIsKept
<1>1. TypeOK /\ HandlerInv => AcceptedIsKept
  BY DueIsExpired DEF HandlerInv, HandlerOK, AcceptedIsKept
<1>2. QED
  BY <1>1, TypeCorrect, HandlersCorrect, PTL

(* An unexpired listed bottle has its evidence, unless it was rolled back. *)
THEOREM ListedBottlesHaveEvidence == Spec => []ListedHasEvidence
<1>1. TypeOK /\ HandlerInv => ListedHasEvidence
  BY DueIsExpired DEF HandlerInv, HandlerOK, ListedHasEvidence, TypeOK
<1>2. QED
  BY <1>1, TypeCorrect, HandlersCorrect, PTL

-----------------------------------------------------------------------------
(* Capacity.  Sets of requests are finite and ordered by inclusion. *)
LEMMA DropSets ==
    ASSUME NEW S \in SUBSET Drops
    PROVE  /\ IsFiniteSet(S) /\ Cardinality(S) \in Nat
           /\ \A T \in SUBSET S : Cardinality(T) <= Cardinality(S)
BY DropsAssumption, FS_Subset, FS_CardinalityType

LEMMA DropSetUnion ==
    ASSUME NEW S \in SUBSET Drops, NEW T \in SUBSET Drops
    PROVE  Cardinality(S \cup T) <= Cardinality(S) + Cardinality(T)
<1>1. /\ IsFiniteSet(S) /\ IsFiniteSet(T) /\ IsFiniteSet(S \cap T)
      /\ Cardinality(S) \in Nat /\ Cardinality(T) \in Nat /\ Cardinality(S \cap T) \in Nat
  BY DropSets
<1>2. Cardinality(S \cup T) = Cardinality(S) + Cardinality(T) - Cardinality(S \cap T)
  BY <1>1, FS_Union
<1>3. QED
  BY <1>1, <1>2

(* Only an arriving request joins the unsettled ones, only an admitted one *)
(* joins the claims, and no step changes the recipient of a request.       *)
LEMMA WhoMayJoin ==
    ASSUME TypeOK, HandlerInv, [Next]_vars, NEW d \in Drops
    PROVE  /\ rcpt' = rcpt
           /\ InFlight(d)' => InFlight(d) \/ Receive(d)
           /\ d \in (index \ indexSeen)' => d \in index \ indexSeen \/ InFlight(d)
           /\ d \in index' => d \in index \/ pc[d] = "put_rcpt"
           /\ pc'[d] = "put_rcpt" => pc[d] \in {"put_id", "put_rcpt"}
           /\ pc'[d] = "put_id" => pc[d] = "put_id" \/ CheckCapacity(d)
<1> DEFINE Goal == /\ rcpt' = rcpt
                   /\ InFlight(d)' => InFlight(d) \/ Receive(d)
                   /\ d \in (index \ indexSeen)' => d \in index \ indexSeen \/ InFlight(d)
                   /\ d \in index' => d \in index \/ pc[d] = "put_rcpt"
                   /\ pc'[d] = "put_rcpt" => pc[d] \in {"put_id", "put_rcpt"}
                   /\ pc'[d] = "put_id" => pc[d] = "put_id" \/ CheckCapacity(d)
<1> USE DEF TypeOK, Suspended, InFlight, Goto, Answer, Fault, requestVars, kvVars
<1>1. CASE Tick \/ UNCHANGED vars
  BY <1>1 DEF Tick, vars
<1>2. ASSUME NEW e \in Drops, Receive(e) PROVE Goal
  BY <1>2 DEF Receive
<1>3. ASSUME NEW e \in Drops, Refuse(e) \/ Admit(e) \/ LookupFails(e) PROVE Goal
  BY <1>3 DEF Refuse, RefuseBody, RefuseRecipient, RefuseRate, Admit, LookupFails
<1>4. ASSUME NEW e \in Drops, CheckCapacity(e) PROVE Goal
  <2>1. CASE e = d
    BY <1>4, <2>1 DEF CheckCapacity
  <2>2. CASE e # d
    BY <1>4, <2>2 DEF CheckCapacity
  <2>3. QED
    BY <2>1, <2>2
<1>5. ASSUME NEW e \in Drops, PutId(e) \/ PutIdFails(e) PROVE Goal
  BY <1>5 DEF PutId, PutIdFails
<1>6. ASSUME NEW e \in Drops, PutRcpt(e) \/ PutRcptFails(e) PROVE Goal
  BY <1>6 DEF PutRcpt, PutRcptFails
<1>7. ASSUME NEW e \in Drops, NEW kind \in KeyKinds,
             Delete(e, kind) \/ DeleteFails(e, kind)
      PROVE  Goal
  BY <1>7 DEF Delete, DeleteFails, Settle
<1>8. ASSUME NEW e \in Drops, Respond(e) \/ Kill(e) PROVE Goal
  BY <1>8 DEF Respond, Kill
<1>9. ASSUME NEW e \in Drops, SyncId(e) \/ SyncIndex(e) PROVE Goal
  BY <1>9 DEF SyncId, SyncIndex
<1>10. ASSUME NEW e \in Drops, ExpireId(e) \/ ExpireIndex(e) PROVE Goal
  BY <1>10 DEF ExpireId, ExpireIndex
<1>11. QED
  BY <1>1, <1>2, <1>3, <1>4, <1>5, <1>6, <1>7, <1>8, <1>9, <1>10, StepCases

(* A drop is admitted on a complete listing of fewer than Capacity keys;   *)
(* whatever else its recipient has is still unsettled.                     *)
LEMMA AdmittedOnListing ==
    ASSUME TypeOK, NEW d \in Drops, CheckCapacity(d), pc'[d] = "put_id"
    PROVE  \E listed \in SUBSET Drops :
              /\ Cardinality(listed) < Capacity
              /\ \A e \in index : rcpt[e] = rcpt[d] => e \in listed \/ e \in index \ indexSeen
<1>1. PICK copy \in {index, indexSeen} :
        LET listed == Listed(copy, rcpt[d], {}) IN
        \E answer \in Pages(listed, Capacity) :
            IF HasRecipientCapacity(answer, answer = listed)
            THEN Goto(d, "put_id")
            ELSE Answer(d, "full")
  BY DEF CheckCapacity
<1> DEFINE listed == Listed(copy, rcpt[d], {})
<1>2. PICK answer \in Pages(listed, Capacity) :
        IF HasRecipientCapacity(answer, answer = listed)
        THEN Goto(d, "put_id")
        ELSE Answer(d, "full")
  BY <1>1
<1>3. answer = listed /\ Cardinality(answer) < Capacity
  BY <1>2 DEF HasRecipientCapacity, Answer, TypeOK
<1>4. listed = {b \in copy : rcpt[b] = rcpt[d]}
  BY DEF Listed
<1>5. QED
  BY <1>3, <1>4 DEF TypeOK

(* An inbox passes its capacity by fewer than the drops in the window. *)
THEOREM CapacityCorrect == Spec => []CapacityInv
<1>1. Init => CapacityInv
  <2> SUFFICES ASSUME Init, NEW r \in Recipients
               PROVE  Cardinality(Unsettled(r)) <= Window
                      /\ Cardinality(Claimed(r)) <= Capacity + Window - 1
    BY DEF CapacityInv
  <2>1. Unsettled(r) = {} /\ Claimed(r) = {}
    BY DEF Init, Unsettled, Claimed, InFlight, Suspended
  <2>2. QED
    BY <2>1, FS_EmptySet, SizesAssumption
<1>2. TypeOK /\ HandlerInv /\ CapacityInv /\ [Next]_vars => CapacityInv'
  <2> SUFFICES ASSUME TypeOK, HandlerInv, CapacityInv, [Next]_vars, NEW r \in Recipients
               PROVE  /\ Cardinality(Unsettled(r)') <= Window
                      /\ Cardinality(Claimed(r)') <= Capacity + Window - 1
    BY DEF CapacityInv
  <2>1. /\ Unsettled(r) \subseteq Drops /\ Claimed(r) \subseteq Drops
        /\ Unsettled(r)' \subseteq Drops /\ Claimed(r)' \subseteq Drops
    BY DEF Unsettled, Claimed
  <2>2. Window \in Nat /\ Capacity \in Nat
    BY SizesAssumption
  <2>3. Cardinality(Unsettled(r)') <= Window
    <3>1. CASE \E d \in Drops : Receive(d) /\ rcpt[d] = r
      <4>1. PICK d \in Drops : Receive(d) /\ rcpt[d] = r
        BY <3>1
      <4>2. Unsettled(r)' \subseteq Unsettled(r) \cup {d}
        BY <4>1 DEF Receive, Unsettled, InFlight, Goto, kvVars, TypeOK
      <4>3. Cardinality(Unsettled(r)) < Window
        BY <4>1 DEF Receive
      <4>4. Cardinality(Unsettled(r) \cup {d}) <= Cardinality(Unsettled(r)) + 1
        BY <2>1, DropSets, FS_AddElement
      <4>5. Cardinality(Unsettled(r)') <= Cardinality(Unsettled(r) \cup {d})
        BY <2>1, <4>2, DropSets
      <4>6. QED
        BY <2>1, <2>2, <4>3, <4>4, <4>5, DropSets
    <3>2. CASE ~ \E d \in Drops : Receive(d) /\ rcpt[d] = r
      <4>1. Unsettled(r)' \subseteq Unsettled(r)
        BY <3>2, WhoMayJoin DEF Unsettled
      <4>2. QED
        BY <2>1, <2>2, <4>1, DropSets DEF CapacityInv
    <3>3. QED
      BY <3>1, <3>2
  <2>4. Cardinality(Claimed(r)') <= Capacity + Window - 1
    <3>1. CASE \E d \in Drops : CheckCapacity(d) /\ pc'[d] = "put_id" /\ rcpt[d] = r
      <4>1. PICK d \in Drops : CheckCapacity(d) /\ pc'[d] = "put_id" /\ rcpt[d] = r
        BY <3>1
      <4>2. PICK listed \in SUBSET Drops :
              /\ Cardinality(listed) < Capacity
              /\ \A e \in index : rcpt[e] = r => e \in listed \/ e \in index \ indexSeen
        BY <4>1, AdmittedOnListing
      <4>3. Claimed(r)' \subseteq listed \cup Unsettled(r)
        <5> SUFFICES ASSUME NEW e \in Claimed(r)' PROVE e \in listed \cup Unsettled(r)
          OBVIOUS
        <5>1. e \in Drops /\ rcpt[e] = r
          BY WhoMayJoin DEF Claimed
        <5>2. e \in index \/ pc[e] \in {"put_id", "put_rcpt"} \/ e = d
          BY <4>1, <5>1 DEF Claimed, CheckCapacity, Goto, Answer, kvVars, TypeOK
        <5>3. InFlight(d)
          BY <4>1 DEF CheckCapacity, InFlight, Suspended
        <5>4. QED
          BY <4>2, <5>1, <5>2, <5>3 DEF Unsettled, InFlight, Suspended
      <4>4. Cardinality(Claimed(r)') <= Cardinality(listed) + Cardinality(Unsettled(r))
        <5>1. Cardinality(Claimed(r)') <= Cardinality(listed \cup Unsettled(r))
          BY <2>1, <4>3, DropSets
        <5>2. Cardinality(listed \cup Unsettled(r))
                <= Cardinality(listed) + Cardinality(Unsettled(r))
          BY <2>1, DropSetUnion
        <5>3. QED
          BY <2>1, <5>1, <5>2, DropSets
      <4>5. QED
        BY <2>1, <2>2, <4>2, <4>4, DropSets DEF CapacityInv
    <3>2. CASE ~ \E d \in Drops : CheckCapacity(d) /\ pc'[d] = "put_id" /\ rcpt[d] = r
      <4>1. Claimed(r)' \subseteq Claimed(r)
        BY <3>2, WhoMayJoin DEF Claimed
      <4>2. QED
        BY <2>1, <2>2, <4>1, DropSets DEF CapacityInv
    <3>3. QED
      BY <3>1, <3>2
  <2>5. QED
    BY <2>3, <2>4
<1>3. QED
  BY <1>1, <1>2, TypeCorrect, HandlersCorrect, PTL DEF Spec

THEOREM OvershootIsBounded == Spec => []OvershootBounded
<1>1. CapacityInv /\ TypeOK => OvershootBounded
  <2> SUFFICES ASSUME CapacityInv, TypeOK, NEW r \in Recipients
               PROVE  Cardinality({d \in index : rcpt[d] = r}) <= Capacity + Window - 1
    BY DEF OvershootBounded
  <2>1. {d \in index : rcpt[d] = r} \subseteq Claimed(r) /\ Claimed(r) \subseteq Drops
    BY DEF Claimed, TypeOK
  <2>2. QED
    BY <2>1, DropSets, SizesAssumption DEF CapacityInv
<1>2. QED
  BY <1>1, CapacityCorrect, TypeCorrect, PTL

-----------------------------------------------------------------------------
(***************************************************************************)
(* Refinement: under the mapping of Inbox, every step of the Worker and of *)
(* KV is a step of BottleInbox or leaves the inbox as it is.               *)
(***************************************************************************)

(* A handler's end is an answer of the inbox, and nothing else is. *)
LEMMA AnswerMaps ==
    ASSUME TypeOK, HandlerInv, NEW d \in Drops, NEW result \in Outcomes \ {"none"},
           InFlight(d), Answer(d, result)
    PROVE  /\ InboxAnswer[d] = "open"
           /\ InboxAnswer' = [InboxAnswer EXCEPT ![d] =
                                IF result = "accepted" THEN "accepted" ELSE "declined"]
BY DEF InboxAnswer, Answer, InFlight, Suspended, HandlerInv, HandlerOK, TypeOK, Outcomes

LEMMA NoAnswer ==
    ASSUME outcome' = outcome
    PROVE  InboxAnswer' = InboxAnswer
BY DEF InboxAnswer

LEMMA OpenInFlight ==
    ASSUME TypeOK, HandlerInv, NEW d \in Drops, pc[d] # "done"
    PROVE  InboxAnswer[d] = "open"
BY DEF InboxAnswer, HandlerInv, HandlerOK

(* Every step of a handler is a step of the inbox for its bottle. *)
LEMMA HandlerStepMaps ==
    ASSUME TypeOK, HandlerInv, NEW d \in Drops, Handle(d)
    PROVE  [Inbox!Next]_Inbox!vars
<1> USE DEF Inbox!vars, kvVars
<1>1. HandlerOK(d)
  BY DEF HandlerInv
<1>2. SUFFICES
        \/ Inbox!Take(d) \/ Inbox!Certify(d) \/ Inbox!Place(d) \/ Inbox!Accept(d)
        \/ Inbox!Withdraw(d) \/ Inbox!Decline(d)
        \/ UNCHANGED Inbox!vars
  BY Zenon DEF Inbox!Next
<1>3. ASSUME NEW result \in Outcomes \ {"none", "accepted"}, InFlight(d),
             Answer(d, result), UNCHANGED <<clock, storedAt>>,
             ids' \in {ids, ids \ {d}, ids \cup {d}}, index' \in {index, index \ {d}}
      PROVE  Inbox!Decline(d)
  BY <1>3, AnswerMaps DEF Inbox!Decline
<1>4. CASE Receive(d)
  BY <1>1, <1>4, NoAnswer, OpenInFlight
  DEF Receive, Goto, Inbox!Take, HandlerOK
<1>5. CASE Refuse(d) \/ LookupFails(d)
  BY <1>3, <1>5
     DEF Refuse, RefuseBody, RefuseRecipient, RefuseRate, LookupFails, InFlight, Suspended,
         Outcomes
<1>6. CASE Admit(d)
  BY <1>6, NoAnswer DEF Admit, Goto
<1>7. CASE CheckCapacity(d)
  <2>1. CASE Answer(d, "full")
    BY <1>3, <1>7, <2>1 DEF CheckCapacity, InFlight, Suspended, Outcomes
  <2>2. CASE Goto(d, "put_id")
    BY <1>7, <2>2, NoAnswer DEF CheckCapacity, Goto
  <2>3. QED
    BY <1>7, <2>1, <2>2 DEF CheckCapacity
<1>8. CASE PutId(d)
  BY <1>1, <1>8, NoAnswer, OpenInFlight
  DEF PutId, Goto, Inbox!Certify, HandlerOK
<1>9. CASE PutIdFails(d)
  BY <1>3, <1>9 DEF PutIdFails, InFlight, Suspended, Outcomes
<1>10. CASE PutRcpt(d)
  BY <1>1, <1>10, NoAnswer, OpenInFlight
  DEF PutRcpt, Goto, Inbox!Place, HandlerOK
<1>11. CASE PutRcptFails(d)
  BY <1>1, <1>11, NoAnswer, OpenInFlight
  DEF PutRcptFails, Goto, Inbox!Place, HandlerOK
<1>12. ASSUME NEW kind \in KeyKinds, Delete(d, kind) \/ DeleteFails(d, kind)
       PROVE  Inbox!Decline(d) \/ Inbox!Withdraw(d)
  <2>1. /\ ids' \in {ids, ids \ {d}} /\ index' \in {index, index \ {d}}
        /\ UNCHANGED <<clock, storedAt>> /\ pc[d] = "rollback" /\ Settle(d, kind)
    BY <1>12 DEF Delete, DeleteFails
  <2>2. CASE Answer(d, "failed")
    BY <1>3, <2>1, <2>2 DEF InFlight, Suspended, Outcomes
  <2>3. CASE outcome' = outcome
    BY <2>1, <2>3, NoAnswer, OpenInFlight DEF Inbox!Withdraw
  <2>4. QED
    BY <2>1, <2>2, <2>3 DEF Settle
<1>13. CASE Respond(d)
  BY <1>1, <1>13, AnswerMaps
  DEF Respond, Inbox!Accept, HandlerOK, InFlight, Suspended, Outcomes
<1>14. CASE Kill(d)
  BY <1>3, <1>14 DEF Kill, Outcomes
<1>15. QED
  BY <1>4, <1>5, <1>6, <1>7, <1>8, <1>9, <1>10, <1>11, <1>12, <1>13, <1>14 DEF Handle

(* The Worker keeps the promise of BottleInbox. *)
THEOREM WorkerImplementsInbox == Spec => ImplementsInbox
<1>1. Init => Inbox!Init
  BY DEF Init, Inbox!Init, InboxAnswer
<1>2. TypeOK /\ HandlerInv /\ [Next]_vars => [Inbox!Next]_Inbox!vars
  <2> SUFFICES ASSUME TypeOK, HandlerInv, [Next]_vars
               PROVE  [Inbox!Next]_Inbox!vars
    OBVIOUS
  <2>1. CASE Tick
    BY <2>1, NoAnswer DEF Tick, requestVars, kvVars, Inbox!Next, Inbox!Tick
  <2>2. ASSUME NEW d \in Drops, Handle(d) PROVE [Inbox!Next]_Inbox!vars
    BY <2>2, HandlerStepMaps
  <2>3. ASSUME NEW d \in Drops, SyncId(d) \/ SyncIndex(d)
        PROVE  UNCHANGED Inbox!vars
    BY <2>3, NoAnswer DEF SyncId, SyncIndex, requestVars, Inbox!vars
  <2>4. ASSUME NEW d \in Drops, ExpireId(d) \/ ExpireIndex(d)
        PROVE  Inbox!Lapse(d)
    <3>1. Inbox!Lapsed(d)
      BY <2>4, DueIsExpired
      DEF ExpireId, ExpireIndex, Inbox!Lapsed, Expired, ExpiresAt
    <3>2. QED
      BY <2>4, <3>1, NoAnswer DEF ExpireId, ExpireIndex, requestVars, Inbox!Lapse
  <2>5. CASE UNCHANGED vars
    BY <2>5, NoAnswer DEF vars, requestVars, kvVars, Inbox!vars
  <2>6. QED
    BY <2>1, <2>2, <2>3, <2>4, <2>5 DEF Next, Store, Inbox!Next
<1>3. QED
  BY <1>1, <1>2, TypeCorrect, HandlersCorrect, PTL DEF Spec, ImplementsInbox, Inbox!Spec

-----------------------------------------------------------------------------
(***************************************************************************)
(* Leftovers.  Every fault pays for one charge: a rollback that has begun, *)
(* a key that its rollback could not delete, an id key whose drop failed   *)
(* or died.  A failed drop that is still listed holds two of them.         *)
(***************************************************************************)
IdCharge ==
    {d \in ids : \/ outcome[d] \in {"failed", "killed"}
                 \/ pc[d] = "rollback" /\ "id" \notin undo[d]}

RcptCharge ==
    {d \in index : outcome[d] = "failed" \/ (pc[d] = "rollback" /\ "rcpt" \notin undo[d])}

RollbackCharge ==
    {d \in Drops : pc[d] = "rollback" \/ (d \in index /\ outcome[d] = "failed")}

LeftoverInv ==
    /\ \A d \in ids \cup index : outcome[d] \notin {"refused", "full"}
    /\ Cardinality(IdCharge) + Cardinality(RcptCharge) + Cardinality(RollbackCharge) <= faults

LEMMA ChargeGrows ==
    ASSUME NEW S \in SUBSET Drops, NEW T \in SUBSET Drops, NEW d \in Drops
    PROVE  /\ Cardinality(S) \in Nat /\ Cardinality(T) \in Nat
           /\ T \subseteq S => Cardinality(T) <= Cardinality(S)
           /\ T \subseteq S \cup {d} => Cardinality(T) <= Cardinality(S) + 1
<1>1. IsFiniteSet(S) /\ Cardinality(S) \in Nat /\ Cardinality(T) \in Nat
  BY DropSets
<1>2. S \cup {d} \in SUBSET Drops /\ Cardinality(S \cup {d}) <= Cardinality(S) + 1
  <2>1. S \cup {d} \in SUBSET Drops
    OBVIOUS
  <2>2. Cardinality(S \cup {d}) = IF d \in S THEN Cardinality(S) ELSE Cardinality(S) + 1
    BY <1>1, FS_AddElement
  <2>3. QED
    BY <1>1, <2>1, <2>2
<1>3. T \subseteq S \cup {d} => Cardinality(T) <= Cardinality(S \cup {d})
  BY <1>2, DropSets
<1>4. Cardinality(S \cup {d}) \in Nat
  BY <1>2, DropSets
<1>5. QED
  BY <1>1, <1>2, <1>3, <1>4, DropSets

(* The charges a step may add: one, of its own drop, and with a fault.     *)
LEMMA ChargesOf ==
    ASSUME TypeOK, HandlerInv, NEW d \in Drops, Handle(d)
    PROVE  \/ /\ faults' = faults /\ IdCharge' \subseteq IdCharge
              /\ RcptCharge' \subseteq RcptCharge /\ RollbackCharge' \subseteq RollbackCharge
           \/ /\ faults' = faults + 1 /\ IdCharge' \subseteq IdCharge \cup {d}
              /\ RcptCharge' \subseteq RcptCharge /\ RollbackCharge' \subseteq RollbackCharge
           \/ /\ faults' = faults + 1 /\ IdCharge' \subseteq IdCharge
              /\ RcptCharge' \subseteq RcptCharge \cup {d}
              /\ RollbackCharge' \subseteq RollbackCharge
           \/ /\ faults' = faults + 1 /\ IdCharge' \subseteq IdCharge
              /\ RcptCharge' \subseteq RcptCharge
              /\ RollbackCharge' \subseteq RollbackCharge \cup {d}
<1> USE DEF TypeOK, Goto, Answer, Fault, kvVars, IdCharge, RcptCharge, RollbackCharge, KeyKinds
<1>1. HandlerOK(d)
  BY DEF HandlerInv
<1>2. CASE Receive(d)
  BY <1>1, <1>2 DEF Receive, HandlerOK
<1>3. CASE Refuse(d) \/ Admit(d)
  BY <1>1, <1>3 DEF Refuse, RefuseBody, RefuseRecipient, RefuseRate, Admit, HandlerOK
<1>4. CASE LookupFails(d)
  BY <1>1, <1>4 DEF LookupFails, HandlerOK
<1>5. CASE CheckCapacity(d)
  <2>1. pc[d] = "capacity" /\ (Goto(d, "put_id") \/ Answer(d, "full"))
    BY <1>5 DEF CheckCapacity
  <2>2. UNCHANGED <<ids, index, undo, faults>>
    BY <1>5 DEF CheckCapacity
  <2>3. QED
    BY <1>1, <2>1, <2>2 DEF HandlerOK
<1>6. CASE PutId(d)
  BY <1>1, <1>6 DEF PutId, HandlerOK
<1>7. CASE PutIdFails(d)
  BY <1>1, <1>7 DEF PutIdFails, HandlerOK
<1>8. CASE PutRcpt(d)
  BY <1>1, <1>8 DEF PutRcpt, HandlerOK
<1>9. CASE PutRcptFails(d)
  BY <1>1, <1>9 DEF PutRcptFails, HandlerOK
<1>10. CASE Delete(d, "id") \/ DeleteFails(d, "id")
  BY <1>1, <1>10 DEF Delete, DeleteFails, Settle, HandlerOK
<1>11. CASE Delete(d, "rcpt") \/ DeleteFails(d, "rcpt")
  BY <1>1, <1>11 DEF Delete, DeleteFails, Settle, HandlerOK
<1>12. CASE Respond(d)
  BY <1>1, <1>12 DEF Respond, HandlerOK
<1>13. CASE Kill(d)
  BY <1>1, <1>13 DEF Kill, HandlerOK
<1>14. QED
  BY <1>2, <1>3, <1>4, <1>5, <1>6, <1>7, <1>8, <1>9, <1>10, <1>11, <1>12, <1>13 DEF Handle

(* A drop that is refused has no key, and gets none. *)
LEMMA RefusedHasNone ==
    ASSUME TypeOK, HandlerInv, LeftoverInv, NEW d \in Drops, Handle(d)
    PROVE  \A e \in (ids \cup index)' : outcome'[e] \notin {"refused", "full"}
<1> USE DEF TypeOK, Goto, Answer, Fault, kvVars, KeyKinds, LeftoverInv
<1>1. HandlerOK(d)
  BY DEF HandlerInv
<1>2. CASE Receive(d) \/ Admit(d) \/ Refuse(d) \/ LookupFails(d)
  BY <1>1, <1>2 DEF Receive, Admit, Refuse, RefuseBody, RefuseRecipient, RefuseRate,
                    LookupFails, HandlerOK
<1>3. CASE CheckCapacity(d)
  <2>1. pc[d] = "capacity" /\ (Goto(d, "put_id") \/ Answer(d, "full"))
    BY <1>3 DEF CheckCapacity
  <2>2. UNCHANGED <<ids, index>>
    BY <1>3 DEF CheckCapacity
  <2>3. QED
    BY <1>1, <2>1, <2>2 DEF HandlerOK
<1>4. CASE PutId(d) \/ PutIdFails(d) \/ PutRcpt(d) \/ PutRcptFails(d)
  BY <1>1, <1>4 DEF PutId, PutIdFails, PutRcpt, PutRcptFails, HandlerOK
<1>5. ASSUME NEW kind \in KeyKinds, Delete(d, kind) \/ DeleteFails(d, kind)
      PROVE  \A e \in (ids \cup index)' : outcome'[e] \notin {"refused", "full"}
  BY <1>1, <1>5 DEF Delete, DeleteFails, Settle, HandlerOK
<1>6. CASE Respond(d) \/ Kill(d)
  BY <1>1, <1>6 DEF Respond, Kill, HandlerOK
<1>7. QED
  BY <1>2, <1>3, <1>4, <1>5, <1>6 DEF Handle

THEOREM LeftoversCorrect == Spec => []LeftoverInv
<1>1. Init => LeftoverInv
  <2> SUFFICES ASSUME Init PROVE LeftoverInv
    OBVIOUS
  <2>1. IdCharge = {} /\ RcptCharge = {} /\ RollbackCharge = {} /\ faults = 0
    BY DEF Init, IdCharge, RcptCharge, RollbackCharge
  <2>2. QED
    BY <2>1, FS_EmptySet DEF Init, LeftoverInv
<1>2. TypeOK /\ HandlerInv /\ LeftoverInv /\ [Next]_vars => LeftoverInv'
  <2> SUFFICES ASSUME TypeOK, HandlerInv, LeftoverInv, [Next]_vars PROVE LeftoverInv'
    OBVIOUS
  <2>1. /\ IdCharge \in SUBSET Drops /\ RcptCharge \in SUBSET Drops
        /\ RollbackCharge \in SUBSET Drops /\ faults \in Nat
    BY DEF TypeOK, IdCharge, RcptCharge, RollbackCharge
  <2>2. ASSUME /\ faults' = faults /\ IdCharge' \subseteq IdCharge
               /\ RcptCharge' \subseteq RcptCharge /\ RollbackCharge' \subseteq RollbackCharge,
               \A e \in (ids \cup index)' : outcome'[e] \notin {"refused", "full"}
        PROVE  LeftoverInv'
    <3>1. /\ Cardinality(IdCharge') <= Cardinality(IdCharge)
          /\ Cardinality(RcptCharge') <= Cardinality(RcptCharge)
          /\ Cardinality(RollbackCharge') <= Cardinality(RollbackCharge)
          /\ Cardinality(IdCharge) \in Nat /\ Cardinality(RcptCharge) \in Nat
          /\ Cardinality(RollbackCharge) \in Nat /\ Cardinality(IdCharge') \in Nat
          /\ Cardinality(RcptCharge') \in Nat /\ Cardinality(RollbackCharge') \in Nat
      BY <2>1, <2>2, DropSets
    <3>2. QED
      BY <2>1, <2>2, <3>1 DEF LeftoverInv
  <2>3. ASSUME NEW d \in Drops, Handle(d) PROVE LeftoverInv'
    <3>1. \A e \in (ids \cup index)' : outcome'[e] \notin {"refused", "full"}
      BY <2>3, RefusedHasNone
    <3>2. \/ /\ faults' = faults /\ IdCharge' \subseteq IdCharge
             /\ RcptCharge' \subseteq RcptCharge /\ RollbackCharge' \subseteq RollbackCharge
          \/ /\ faults' = faults + 1 /\ IdCharge' \subseteq IdCharge \cup {d}
             /\ RcptCharge' \subseteq RcptCharge /\ RollbackCharge' \subseteq RollbackCharge
          \/ /\ faults' = faults + 1 /\ IdCharge' \subseteq IdCharge
             /\ RcptCharge' \subseteq RcptCharge \cup {d}
             /\ RollbackCharge' \subseteq RollbackCharge
          \/ /\ faults' = faults + 1 /\ IdCharge' \subseteq IdCharge
             /\ RcptCharge' \subseteq RcptCharge
             /\ RollbackCharge' \subseteq RollbackCharge \cup {d}
      BY <2>3, ChargesOf
    <3>3. /\ IdCharge' \in SUBSET Drops /\ RcptCharge' \in SUBSET Drops
          /\ RollbackCharge' \in SUBSET Drops
      BY <2>1, <3>2
    <3>4. /\ Cardinality(IdCharge) \in Nat /\ Cardinality(IdCharge') \in Nat
          /\ IdCharge' \subseteq IdCharge => Cardinality(IdCharge') <= Cardinality(IdCharge)
          /\ IdCharge' \subseteq IdCharge \cup {d} =>
                 Cardinality(IdCharge') <= Cardinality(IdCharge) + 1
      BY <2>1, <3>3, ChargeGrows
    <3>5. /\ Cardinality(RcptCharge) \in Nat /\ Cardinality(RcptCharge') \in Nat
          /\ RcptCharge' \subseteq RcptCharge =>
                 Cardinality(RcptCharge') <= Cardinality(RcptCharge)
          /\ RcptCharge' \subseteq RcptCharge \cup {d} =>
                 Cardinality(RcptCharge') <= Cardinality(RcptCharge) + 1
      BY <2>1, <3>3, ChargeGrows
    <3>6. /\ Cardinality(RollbackCharge) \in Nat /\ Cardinality(RollbackCharge') \in Nat
          /\ RollbackCharge' \subseteq RollbackCharge =>
                 Cardinality(RollbackCharge') <= Cardinality(RollbackCharge)
          /\ RollbackCharge' \subseteq RollbackCharge \cup {d} =>
                 Cardinality(RollbackCharge') <= Cardinality(RollbackCharge) + 1
      BY <2>1, <3>3, ChargeGrows
    <3>7. Cardinality(IdCharge') + Cardinality(RcptCharge') + Cardinality(RollbackCharge')
              <= faults'
      BY <2>1, <3>2, <3>4, <3>5, <3>6 DEF LeftoverInv
    <3>8. QED
      BY <3>1, <3>7 DEF LeftoverInv
  <2>4. CASE Tick \/ UNCHANGED vars
    BY <2>2, <2>4 DEF Tick, vars, requestVars, kvVars, IdCharge, RcptCharge, RollbackCharge,
                      LeftoverInv
  <2>5. ASSUME NEW d \in Drops, Store(d) PROVE LeftoverInv'
    <3>1. /\ ids' \subseteq ids /\ index' \subseteq index
          /\ UNCHANGED <<pc, outcome, undo, faults>>
      BY <2>5 DEF Store, SyncId, SyncIndex, ExpireId, ExpireIndex, requestVars
    <3>2. QED
      BY <2>2, <3>1 DEF IdCharge, RcptCharge, RollbackCharge, LeftoverInv
  <2>6. QED
    BY <2>3, <2>4, <2>5 DEF Next
<1>3. QED
  BY <1>1, <1>2, TypeCorrect, HandlersCorrect, PTL DEF Spec

(* What a failed or killed drop leaves in KV was paid for by the calls     *)
(* that failed (createKvBottleStorage.put and its rollback).               *)
THEOREM LeftoversAreFaults == Spec => []LeftoversNeedFaults
<1>1. TypeOK /\ LeftoverInv => LeftoversNeedFaults
  <2> SUFFICES ASSUME TypeOK, LeftoverInv PROVE LeftoversNeedFaults
    OBVIOUS
  <2> DEFINE A == {d \in ids : outcome[d] \in {"failed", "killed"}}
             B == {d \in index : outcome[d] = "failed"}
  <2>1. A \subseteq IdCharge /\ B \subseteq RcptCharge /\ B \subseteq RollbackCharge
    BY DEF TypeOK, IdCharge, RcptCharge, RollbackCharge
  <2>2. /\ IdCharge \in SUBSET Drops /\ RcptCharge \in SUBSET Drops
        /\ RollbackCharge \in SUBSET Drops /\ A \in SUBSET Drops /\ B \in SUBSET Drops
    BY DEF TypeOK, IdCharge, RcptCharge, RollbackCharge
  <2> HIDE DEF A, B
  <2>3. /\ Cardinality(A) <= Cardinality(IdCharge) /\ Cardinality(B) <= Cardinality(RcptCharge)
        /\ Cardinality(B) <= Cardinality(RollbackCharge)
        /\ Cardinality(A) \in Nat /\ Cardinality(B) \in Nat /\ Cardinality(IdCharge) \in Nat
        /\ Cardinality(RcptCharge) \in Nat /\ Cardinality(RollbackCharge) \in Nat
    BY <2>1, <2>2, DropSets
  <2>4. faults \in Nat
    BY DEF TypeOK
  <2>5. Cardinality(A) + 2 * Cardinality(B) <= faults
    BY <2>3, <2>4 DEF LeftoverInv
  <2>6. QED
    BY <2>5 DEF LeftoversNeedFaults, LeftoverInv, A, B
<1>2. QED
  BY <1>1, LeftoversCorrect, TypeCorrect, PTL

-----------------------------------------------------------------------------
(***************************************************************************)
(* Paging while drops come and go: a finished walk is complete and returns *)
(* no bottle twice, for every number of views, drops and page size.        *)
(*                                                                         *)
(* A bottle is placed once its recipient key was written; from then on its *)
(* place in the listing is fixed, and it can leave the listing but never   *)
(* come back. WalkOK says what a view has seen of the listing up to its    *)
(* cursor, and PageOK what the page it awaits adds to that.                *)
(***************************************************************************)
Early == {"idle", "admit", "capacity", "put_id", "put_rcpt"}
Placed == {d \in Drops : pc[d] \notin Early}
PlacedInv == index \cup indexSeen \subseteq Placed

(* What a walk of v must not miss. *)
Live(v) == {b \in steady[v] \cap index : ~Expired(b)}

PageOK(v) ==
    /\ \A c \in nextCursor[v], b \in page[v] \cup following[v] : KeyBefore(c, b)
    /\ \A k \in following[v], b \in page[v] : ~KeyBefore(k, b)
    /\ \A b \in Live(v) :
        /\ \A c \in nextCursor[v] : KeyBefore(c, b)
        /\ following[v] = {} \/ \E k \in following[v] : ~KeyBefore(k, b)
        => b \in page[v]

WalkOK(v) ==
    /\ cursorFor[v] \in {{}, {selected[v]}} /\ (cursorFor[v] = {} => nextCursor[v] = {})
    /\ opened[v] \cup page[v] \cup nextCursor[v] \cup following[v] \cup steady[v] \subseteq Placed
    /\ now[v] <= clock /\ Cardinality(following[v]) <= 1
    /\ \A b \in steady[v] \cap index : b \in indexSeen /\ rcpt[b] = selected[v]
    /\ \A c \in nextCursor[v], b \in opened[v] : ~KeyBefore(c, b)
    /\ vpc[v] # "idle" /\ nextCursor[v] = {} => opened[v] = {}
    /\ vpc[v] \in {"get", "reply"} => PageOK(v)
    /\ \A b \in Live(v), c \in nextCursor[v] : ~KeyBefore(c, b) => b \in opened[v]
    /\ walked[v] => vpc[v] = "idle" /\ nextCursor[v] = {} /\ Live(v) \subseteq opened[v]

WalkInv == PlacedInv /\ WalkTypeOK /\ \A v \in Views : WalkOK(v)

-----------------------------------------------------------------------------
(* The keys of a recipient are totally ordered.                            *)
LEMMA KeyOrder ==
    ASSUME TypeOK, NEW a \in Drops, NEW b \in Drops
    PROVE  /\ ~KeyBefore(a, a)
           /\ KeyBefore(a, b) => ~KeyBefore(b, a)
           /\ a = b \/ KeyBefore(a, b) \/ KeyBefore(b, a)
           /\ \A c \in Drops : KeyBefore(a, b) /\ KeyBefore(b, c) => KeyBefore(a, c)
<1>1. \A d \in Drops : storedAt[d] \in Nat /\ d \in Nat
  BY DropsAssumption, TimeAssumption DEF TypeOK
<1>2. QED
  BY <1>1 DEF KeyBefore

(* A page has a last key: the one with the fewest keys after it.           *)
LEMMA LastKeyExists ==
    ASSUME TypeOK, NEW keys \in SUBSET Drops, keys # {}
    PROVE  /\ \E b \in keys : LastKey(keys) = {b}
           /\ \A k \in LastKey(keys), b \in keys : ~KeyBefore(k, b)
<1> DEFINE After(b) == {c \in keys : KeyBefore(b, c)}
           tails == {After(b) : b \in keys}
<1>1. IsFiniteSet(keys)
  BY DropSets
<1>2. IsWellFoundedOn(StrictSubsetOrdering(keys), SUBSET keys)
  BY <1>1, FS_FiniteSubsetsOfFinite, FS_StrictSubsetOrderingWellFounded
<1>3. tails \subseteq SUBSET keys /\ tails # {}
  OBVIOUS
<1> HIDE DEF tails
<1>4. PICK t \in tails : \A u \in tails : <<u, t>> \notin StrictSubsetOrdering(keys)
  BY <1>2, <1>3, WFMin
<1>5. PICK b \in keys : t = After(b)
  BY <1>4 DEF tails
<1>6. ASSUME NEW c \in keys PROVE ~KeyBefore(b, c)
  <2>1. SUFFICES ASSUME KeyBefore(b, c) PROVE FALSE
    OBVIOUS
  <2>2. After(c) \subseteq After(b) /\ c \in After(b) /\ c \notin After(c)
    BY <2>1, KeyOrder
  <2>3. After(c) \in tails /\ After(c) \in SUBSET keys /\ After(b) \in SUBSET keys
    BY DEF tails
  <2>4. <<After(c), After(b)>> \in StrictSubsetOrdering(keys)
    BY <2>2, <2>3 DEF StrictSubsetOrdering
  <2>5. QED
    BY <1>4, <1>5, <2>3, <2>4
<1>7. \A c \in keys : c = b \/ KeyBefore(c, b)
  BY <1>6, KeyOrder
<1>8. LastKey(keys) = {b}
  <2>1. b \in LastKey(keys)
    BY <1>7 DEF LastKey
  <2>2. \A k \in LastKey(keys) : k = b
    <3>1. SUFFICES ASSUME NEW k \in LastKey(keys), k # b PROVE FALSE
      OBVIOUS
    <3>2. KeyBefore(b, k) /\ k \in keys
      BY <3>1 DEF LastKey
    <3>3. QED
      BY <1>6, <3>2
  <2>3. QED
    BY <2>1, <2>2
<1>9. QED
  BY <1>6, <1>8

-----------------------------------------------------------------------------
(* The Worker under the walk. *)
LEMMA WalkRefinesSpec == WalkSpec => Spec
<1>1. WalkInit => Init
  BY DEF WalkInit
<1>2. [WalkNext]_walkVars => [Next]_vars
  BY
     DEF WalkNext, walkVars, View, SelectKey, Submit, ListPage, GetValues, ReceivePage,
         PageFails
<1>3. QED
  BY <1>1, <1>2, PTL DEF WalkSpec, Spec

(* Nothing comes back to the listing, and no key changes its place.        *)
LEMMA PlacedStays ==
    ASSUME TypeOK, HandlerInv, [Next]_vars, NEW d \in Drops
    PROVE  /\ d \in Placed => d \in Placed' /\ storedAt'[d] = storedAt[d]
           /\ d \in Placed /\ d \in index' => d \in index
           /\ d \in index' /\ d \in index /\ d \in indexSeen => d \in indexSeen'
           /\ d \in (index \cup indexSeen)' =>
                  d \in index \cup indexSeen \/ d \in Placed'
           /\ clock <= clock' /\ rcpt' = rcpt
<1> DEFINE Goal == /\ d \in Placed => d \in Placed' /\ storedAt'[d] = storedAt[d]
                   /\ d \in Placed /\ d \in index' => d \in index
                   /\ d \in index' /\ d \in index /\ d \in indexSeen => d \in indexSeen'
                   /\ d \in (index \cup indexSeen)' =>
                          d \in index \cup indexSeen \/ d \in Placed'
                   /\ clock <= clock' /\ rcpt' = rcpt
<1> USE DEF TypeOK, Placed, Early, Suspended, Goto, Answer, Fault, requestVars, kvVars
<1>1. CASE Tick \/ UNCHANGED vars
  BY <1>1 DEF Tick, vars
<1>2. ASSUME NEW e \in Drops, Receive(e) PROVE Goal
  BY <1>2 DEF Receive
<1>3. ASSUME NEW e \in Drops, Refuse(e) \/ Admit(e) \/ LookupFails(e) PROVE Goal
  BY <1>3 DEF Refuse, RefuseBody, RefuseRecipient, RefuseRate, Admit, LookupFails
<1>4. ASSUME NEW e \in Drops, CheckCapacity(e) PROVE Goal
  <2>1. /\ pc[e] = "capacity" /\ (Goto(e, "put_id") \/ Answer(e, "full"))
        /\ UNCHANGED <<clock, rcpt, storedAt, index, indexSeen>>
    BY <1>4 DEF CheckCapacity
  <2>2. QED
    BY <2>1
<1>5. ASSUME NEW e \in Drops, PutId(e) \/ PutIdFails(e) PROVE Goal
  BY <1>5 DEF PutId, PutIdFails
<1>6. ASSUME NEW e \in Drops, PutRcpt(e) \/ PutRcptFails(e) PROVE Goal
  BY <1>6 DEF PutRcpt, PutRcptFails
<1>7. ASSUME NEW e \in Drops, NEW kind \in KeyKinds,
             Delete(e, kind) \/ DeleteFails(e, kind)
      PROVE  Goal
  BY <1>7 DEF Delete, DeleteFails, Settle
<1>8. ASSUME NEW e \in Drops, Respond(e) \/ Kill(e) PROVE Goal
  BY <1>8 DEF Respond, Kill
<1>9. ASSUME NEW e \in Drops, SyncId(e) \/ SyncIndex(e) PROVE Goal
  BY <1>9 DEF SyncId, SyncIndex
<1>10. ASSUME NEW e \in Drops, ExpireId(e) \/ ExpireIndex(e) PROVE Goal
  BY <1>10 DEF ExpireId, ExpireIndex
<1>11. QED
  BY <1>1, <1>2, <1>3, <1>4, <1>5, <1>6, <1>7, <1>8, <1>9, <1>10, StepCases

LEMMA PlacedInvStep ==
    ASSUME TypeOK, HandlerInv, PlacedInv, [Next]_vars, TypeOK' PROVE PlacedInv'
<1>1. index' \subseteq Drops /\ indexSeen' \subseteq Drops
  BY DEF TypeOK
<1>2. QED
  BY <1>1, PlacedStays DEF PlacedInv

-----------------------------------------------------------------------------
(* A step of the Worker leaves every walk as sound as it was.              *)
LEMMA WorkerStep ==
    ASSUME TypeOK, HandlerInv, PlacedInv, WalkTypeOK, TypeOK',
           [Next]_vars, UNCHANGED viewVars,
           NEW v \in Views, WalkOK(v)
    PROVE  WalkOK(v)'
<1>1. /\ \A w \in Views : /\ opened[w] \in SUBSET Drops /\ page[w] \in SUBSET Drops
                          /\ nextCursor[w] \in SUBSET Drops
                          /\ following[w] \in SUBSET Drops /\ steady[w] \in SUBSET Drops
                          /\ now[w] \in Nat
      /\ clock \in Nat /\ clock' \in Nat
  BY TimeAssumption DEF WalkTypeOK, TypeOK
<1>2. /\ vpc' = vpc /\ selected' = selected /\ nextCursor' = nextCursor
      /\ cursorFor' = cursorFor /\ now' = now /\ page' = page
      /\ following' = following /\ opened' = opened /\ steady' = steady
      /\ walked' = walked
  BY DEF viewVars
<1>3. /\ clock <= clock' /\ rcpt' = rcpt
      /\ \A d \in Drops : /\ d \in Placed => d \in Placed' /\ storedAt'[d] = storedAt[d]
                          /\ d \in Placed /\ d \in index' => d \in index
                          /\ d \in index' /\ d \in index /\ d \in indexSeen => d \in indexSeen'
  <2>1. clock <= clock' /\ rcpt' = rcpt
    <3>1. CASE Drops = {}
      BY <1>1, <3>1, StepCases DEF Tick, vars, requestVars
    <3>2. CASE Drops # {}
      BY <3>2, PlacedStays
    <3>3. QED
      BY <3>1, <3>2
  <2>2. QED
    BY <2>1, PlacedStays
<1>4. /\ opened[v] \cup page[v] \cup nextCursor[v] \cup following[v] \cup steady[v]
           \subseteq Placed'
      /\ \A b, c \in Placed : KeyBefore(b, c)' = KeyBefore(b, c)
  <2>1. Placed \subseteq Drops
    BY DEF Placed
  <2>2. \A b, c \in Placed : KeyBefore(b, c)' = KeyBefore(b, c)
    BY <1>3, <2>1 DEF KeyBefore
  <2>3. QED
    BY <1>1, <1>3, <2>2 DEF WalkOK
<1>5. Live(v)' \subseteq Live(v)
  <2>1. SUFFICES ASSUME NEW b \in steady[v], b \in index', ~Expired(b)' PROVE b \in Live(v)
    BY <1>2 DEF Live
  <2>2. b \in Drops /\ b \in Placed
    BY <1>1, <2>1 DEF WalkOK
  <2>3. b \in index /\ storedAt'[b] = storedAt[b]
    BY <1>3, <2>1, <2>2
  <2>4. storedAt[b] \in Nat /\ Retention \in Nat
    BY <2>2, TimeAssumption DEF TypeOK
  <2>5. ~Expired(b)
    BY <1>1, <1>3, <2>1, <2>3, <2>4 DEF Expired, ExpiresAt
  <2>6. QED
    BY <2>1, <2>3, <2>5 DEF Live
<1>6. Live(v)' \subseteq Placed /\ Live(v) \subseteq Placed
  BY <1>5 DEF WalkOK, Live
<1>7. vpc[v] \in {"get", "reply"} => PageOK(v)'
  <2>1. SUFFICES ASSUME vpc[v] \in {"get", "reply"} PROVE PageOK(v)'
    OBVIOUS
  <2>2. PageOK(v) /\ nextCursor[v] \cup page[v] \cup following[v] \subseteq Placed
    BY <2>1 DEF WalkOK
  <2>3. /\ \A c \in nextCursor[v], b \in page[v] \cup following[v] : KeyBefore(c, b)'
        /\ \A k \in following[v], b \in page[v] : ~KeyBefore(k, b)'
    BY <1>4, <2>2 DEF PageOK
  <2>4. ASSUME NEW b \in Live(v)',
               \A c \in nextCursor[v] : KeyBefore(c, b)',
               following[v] = {} \/ \E k \in following[v] : ~KeyBefore(k, b)'
        PROVE  b \in page[v]
    BY <1>4, <1>5, <1>6, <2>2, <2>4 DEF PageOK
  <2>5. QED
    BY <1>2, <2>3, <2>4 DEF PageOK
<1>8. /\ \A c \in nextCursor[v], b \in opened[v] : ~KeyBefore(c, b)'
      /\ \A b \in Live(v)', c \in nextCursor[v] : ~KeyBefore(c, b)' => b \in opened[v]
  BY <1>4, <1>5, <1>6 DEF WalkOK
<1>9. \A b \in steady[v] \cap index' : b \in indexSeen' /\ rcpt'[b] = selected[v]
  BY <1>1, <1>3 DEF WalkOK
<1>10. now[v] <= clock'
  BY <1>1, <1>3 DEF WalkOK
<1>11. walked[v] => vpc[v] = "idle" /\ nextCursor[v] = {} /\ Live(v)' \subseteq opened[v]
  BY <1>5 DEF WalkOK
<1>12. /\ cursorFor[v] \in {{}, {selected[v]}} /\ (cursorFor[v] = {} => nextCursor[v] = {})
       /\ vpc[v] # "idle" /\ nextCursor[v] = {} => opened[v] = {}
       /\ Cardinality(following[v]) <= 1
  BY DEF WalkOK
<1>13. QED
  BY <1>2, <1>4, <1>7, <1>8, <1>9, <1>10, <1>11, <1>12 DEF WalkOK

(* A view that takes no step, while the Worker takes none, sees the same. *)
LEMMA OtherView ==
    ASSUME NEW v \in Views, UNCHANGED vars, WalkOK(v),
           vpc'[v] = vpc[v], selected'[v] = selected[v], nextCursor'[v] = nextCursor[v],
           cursorFor'[v] = cursorFor[v], now'[v] = now[v], page'[v] = page[v],
           following'[v] = following[v], opened'[v] = opened[v],
           steady'[v] = steady[v], walked'[v] = walked[v]
    PROVE  WalkOK(v)'
<1>1. /\ clock' = clock /\ pc' = pc /\ rcpt' = rcpt /\ storedAt' = storedAt
      /\ index' = index /\ indexSeen' = indexSeen
  BY DEF vars, requestVars, kvVars
<1>2. Live(v)' = Live(v) /\ Placed' = Placed
  BY <1>1 DEF Live, Placed, Expired, ExpiresAt
<1>3. \A b, c : KeyBefore(b, c)' = KeyBefore(b, c)
  BY <1>1 DEF KeyBefore
<1>4. PageOK(v)' = PageOK(v)
  BY <1>2, <1>3 DEF PageOK
<1>5. QED
  BY <1>1, <1>2, <1>3, <1>4 DEF WalkOK

-----------------------------------------------------------------------------
(* The steps of a view. None of them is a step of the Worker's state.      *)
LEMMA VarsKept ==
    ASSUME UNCHANGED vars
    PROVE  /\ clock' = clock /\ rcpt' = rcpt /\ index' = index /\ indexSeen' = indexSeen
           /\ Placed' = Placed
           /\ \A b, c : KeyBefore(b, c)' = KeyBefore(b, c)
           /\ \A b : Expired(b)' = Expired(b)
BY DEF vars, requestVars, kvVars, Placed, KeyBefore, Expired, ExpiresAt

LEMMA CursorIsKept ==
    ASSUME NEW v \in Views, WalkOK(v) PROVE RequestCursor(v) = nextCursor[v]
BY DEF WalkOK, RequestCursor

LEMMA SelectKeyOK ==
    ASSUME WalkTypeOK, NEW v \in Views, WalkOK(v), NEW r \in Recipients, SelectKey(v, r)
    PROVE  WalkOK(v)'
<1>1. /\ vpc[v] = "idle" /\ vpc' = vpc /\ now' = now /\ page' = page
      /\ following' = following /\ selected'[v] = r
      /\ nextCursor'[v] = {} /\ cursorFor'[v] = {} /\ opened'[v] = {}
      /\ steady'[v] = {} /\ walked'[v] = FALSE
      /\ UNCHANGED vars
  BY DEF SelectKey, WalkTypeOK
<1>2. QED
  BY <1>1, VarsKept DEF WalkOK, Live

LEMMA SubmitOK ==
    ASSUME TypeOK, PlacedInv, WalkTypeOK, NEW v \in Views, WalkOK(v), Submit(v)
    PROVE  WalkOK(v)'
<1>1. /\ vpc[v] = "idle" /\ vpc'[v] = "list" /\ now'[v] = clock
      /\ selected' = selected /\ nextCursor' = nextCursor /\ cursorFor' = cursorFor
      /\ page' = page /\ following' = following
      /\ UNCHANGED vars
  BY DEF Submit, WalkTypeOK
<1>2. clock \in Nat
  BY DEF TypeOK
<1>3. CASE nextCursor[v] = {}
  <2>1. /\ opened'[v] = {} /\ walked'[v] = FALSE
        /\ steady'[v] = {b \in index \cap indexSeen : rcpt[b] = selected[v]}
    BY <1>3, CursorIsKept DEF Submit, WalkTypeOK
  <2>2. QED
    BY <1>1, <1>2, <1>3, <2>1, VarsKept DEF WalkOK, Live, PlacedInv
<1>4. CASE nextCursor[v] # {}
  <2>1. opened' = opened /\ walked' = walked /\ steady' = steady
    BY <1>4, CursorIsKept DEF Submit
  <2>2. QED
    BY <1>1, <1>2, <1>4, <2>1, VarsKept DEF WalkOK, Live
<1>5. QED
  BY <1>3, <1>4

LEMMA ListPageOK ==
    ASSUME TypeOK, PlacedInv, WalkTypeOK, NEW v \in Views, WalkOK(v), ListPage(v)
    PROVE  /\ WalkOK(v)'
           /\ page'[v] \in SUBSET Drops /\ Cardinality(page'[v]) <= PageSize
           /\ following'[v] \in SUBSET Drops
<1>1. PICK copy \in {index, indexSeen} :
        \E keys \in Pages(Listed(copy, selected[v], RequestCursor(v)), PageSize) :
            /\ keys = {} => Listed(copy, selected[v], RequestCursor(v)) = {}
            /\ page' = [page EXCEPT ![v] = keys]
            /\ following' = [following EXCEPT ![v] =
                 IF keys = Listed(copy, selected[v], RequestCursor(v))
                 THEN {} ELSE LastKey(keys)]
  BY DEF ListPage
<1> DEFINE listed == Listed(copy, selected[v], nextCursor[v])
<1>2. PICK keys \in Pages(listed, PageSize) :
         /\ keys = {} => listed = {}
         /\ page' = [page EXCEPT ![v] = keys]
         /\ following' = [following EXCEPT ![v] =
                            IF keys = listed THEN {} ELSE LastKey(keys)]
  BY <1>1, CursorIsKept
<1>3. /\ vpc[v] = "list" /\ vpc'[v] = "get" /\ page'[v] = keys
      /\ following'[v] = IF keys = listed THEN {} ELSE LastKey(keys)
      /\ selected' = selected /\ nextCursor' = nextCursor /\ cursorFor' = cursorFor
      /\ now' = now /\ opened' = opened /\ steady' = steady /\ walked' = walked
      /\ UNCHANGED vars
  BY <1>2 DEF ListPage, WalkTypeOK
<1>4. /\ keys \subseteq listed /\ Cardinality(keys) <= PageSize
      /\ keys = {} => listed = {}
      /\ \A b \in keys, c \in listed : KeyBefore(c, b) => c \in keys
  BY <1>2 DEF Pages
<1>5. copy \subseteq Drops /\ copy \subseteq Placed /\ listed \subseteq copy
  BY DEF TypeOK, PlacedInv, Listed
<1>6. \A b \in listed, c \in nextCursor[v] : KeyBefore(c, b)
  BY DEF Listed
<1>7. \/ following'[v] = {} /\ keys = listed
      \/ \E k \in keys : following'[v] = {k} /\ \A b \in keys : ~KeyBefore(k, b)
  BY <1>3, <1>4, <1>5, LastKeyExists
<1>8. following'[v] \subseteq keys /\ Cardinality(following'[v]) <= 1
  <2>1. following'[v] = {} => Cardinality(following'[v]) = 0
    BY FS_EmptySet
  <2>2. ASSUME NEW k \in keys, following'[v] = {k} PROVE Cardinality(following'[v]) = 1
    BY <2>2, FS_Singleton
  <2>3. QED
    BY <1>7, <2>1, <2>2
<1>9. \A b \in Live(v) : (\A c \in nextCursor[v] : KeyBefore(c, b)) => b \in listed
  BY DEF Live, WalkOK, Listed
<1>10. ASSUME NEW b \in Live(v),
              \A c \in nextCursor[v] : KeyBefore(c, b),
              following'[v] = {} \/ \E k \in following'[v] : ~KeyBefore(k, b)
       PROVE  b \in keys
  <2>1. b \in listed /\ b \in Drops
    BY <1>5, <1>9, <1>10
  <2>2. CASE following'[v] = {} /\ keys = listed
    BY <2>1, <2>2
  <2>3. ASSUME NEW k \in keys, following'[v] = {k} PROVE b \in keys
    <3>1. ~KeyBefore(k, b) /\ k \in Drops
      BY <1>4, <1>5, <1>10, <2>3
    <3>2. b = k \/ KeyBefore(b, k)
      BY <2>1, <3>1, KeyOrder
    <3>3. QED
      BY <1>4, <2>1, <3>2
  <2>4. QED
    BY <1>7, <2>2, <2>3
<1>11. Live(v)' = Live(v)
  BY <1>3, VarsKept DEF Live
<1>12. PageOK(v)'
  BY <1>3, <1>4, <1>6, <1>7, <1>8, <1>10, <1>11, VarsKept DEF PageOK
<1>13. WalkOK(v)'
  BY <1>3, <1>4, <1>5, <1>8, <1>11, <1>12, VarsKept DEF WalkOK
<1>14. QED
  BY <1>3, <1>4, <1>5, <1>8, <1>13

LEMMA GetValuesOK ==
    ASSUME TypeOK, WalkTypeOK, NEW v \in Views, WalkOK(v), GetValues(v)
    PROVE  WalkOK(v)' /\ page'[v] \subseteq page[v]
<1>1. PICK values \in SUBSET (page[v] \cap (index \cup indexSeen)) :
        /\ page[v] \cap index \cap indexSeen \subseteq values
        /\ page' = [page EXCEPT ![v] = {b \in values : ExpiresAt(b) > now[v]}]
  BY DEF GetValues
<1>2. /\ vpc[v] = "get" /\ vpc'[v] = "reply"
      /\ page'[v] = {b \in values : ExpiresAt(b) > now[v]}
      /\ selected' = selected /\ nextCursor' = nextCursor /\ cursorFor' = cursorFor
      /\ now' = now /\ opened' = opened /\ steady' = steady /\ walked' = walked
      /\ following' = following /\ UNCHANGED vars
  BY <1>1 DEF GetValues, WalkTypeOK
<1>3. page'[v] \subseteq page[v] /\ PageOK(v)
  BY <1>2 DEF WalkOK
<1>4. \A b \in Live(v) : b \in page[v] => b \in page'[v]
  <2>1. SUFFICES ASSUME NEW b \in Live(v), b \in page[v] PROVE b \in page'[v]
    OBVIOUS
  <2>2. b \in index /\ b \in indexSeen /\ ~Expired(b) /\ b \in Drops
    BY <2>1 DEF Live, WalkOK, WalkTypeOK
  <2>3. ExpiresAt(b) \in Nat /\ clock \in Nat /\ now[v] \in Nat /\ now[v] <= clock
    BY <2>2, TimeAssumption DEF TypeOK, WalkTypeOK, WalkOK, ExpiresAt
  <2>4. ExpiresAt(b) > now[v]
    BY <2>2, <2>3 DEF Expired
  <2>5. QED
    BY <1>1, <1>2, <2>1, <2>2, <2>4
<1>5. Live(v)' = Live(v)
  BY <1>2, VarsKept DEF Live
<1>6. PageOK(v)'
  BY <1>2, <1>3, <1>4, <1>5, VarsKept DEF PageOK
<1>7. QED
  BY <1>2, <1>3, <1>5, <1>6, VarsKept DEF WalkOK

LEMMA ReceivePageOK ==
    ASSUME TypeOK, WalkTypeOK, NEW v \in Views, WalkOK(v), ReceivePage(v)
    PROVE  WalkOK(v)'
<1>1. /\ vpc[v] = "reply" /\ vpc'[v] = "idle" /\ now'[v] = 0 /\ page'[v] = {}
      /\ following'[v] = {} /\ opened'[v] = opened[v] \cup page[v]
      /\ nextCursor'[v] = following[v] /\ cursorFor'[v] = {selected[v]}
      /\ walked'[v] = (following[v] = {})
      /\ selected' = selected /\ steady' = steady /\ UNCHANGED vars
  BY DEF ReceivePage, Settled, WalkTypeOK
<1>2. PageOK(v) /\ (nextCursor[v] = {} => opened[v] = {})
  BY <1>1 DEF WalkOK
<1>3. opened[v] \cup page[v] \cup nextCursor[v] \cup following[v] \cup Live(v) \subseteq Drops
  BY DEF WalkTypeOK, Live
<1>4. \A c \in following[v], b \in opened[v] \cup page[v] : ~KeyBefore(c, b)
  <2>1. SUFFICES ASSUME NEW c \in following[v], NEW b \in opened[v] PROVE ~KeyBefore(c, b)
    BY <1>2 DEF PageOK
  <2>2. PICK c0 \in nextCursor[v] : TRUE
    BY <1>2, <2>1
  <2>3. KeyBefore(c0, c) /\ ~KeyBefore(c0, b)
    BY <1>2, <2>1, <2>2 DEF PageOK, WalkOK
  <2>4. QED
    BY <1>3, <2>1, <2>2, <2>3, KeyOrder
<1>5. \A b \in Live(v) :
         following[v] = {} \/ (\E k \in following[v] : ~KeyBefore(k, b))
         => b \in opened[v] \cup page[v]
  BY <1>2 DEF PageOK, WalkOK
<1>6. Live(v)' = Live(v)
  BY <1>1, VarsKept DEF Live
<1>7. clock \in Nat /\ Cardinality({}) <= 1
  BY FS_EmptySet DEF TypeOK
<1>8. /\ (opened[v] \cup page[v] \cup nextCursor[v] \cup following[v] \cup steady[v])'
           \subseteq Placed'
      /\ \A b \in (steady[v] \cap index)' : b \in indexSeen' /\ rcpt'[b] = selected'[v]
  BY <1>1, VarsKept DEF WalkOK
<1>9. (\A c \in nextCursor[v], b \in opened[v] : ~KeyBefore(c, b))'
  BY <1>1, <1>4, VarsKept
<1>10. (\A b \in Live(v), c \in nextCursor[v] : ~KeyBefore(c, b) => b \in opened[v])'
  BY <1>1, <1>5, <1>6, VarsKept
<1>11. walked'[v] => nextCursor'[v] = {} /\ Live(v)' \subseteq opened'[v]
  BY <1>1, <1>5, <1>6
<1>12. cursorFor'[v] = {selected'[v]} /\ cursorFor'[v] # {}
  BY <1>1
<1>13. now'[v] <= clock' /\ Cardinality(following'[v]) <= 1
  BY <1>1, <1>7, VarsKept
<1>14. QED
  BY <1>1, <1>8, <1>9, <1>10, <1>11, <1>12, <1>13 DEF WalkOK

LEMMA PageFailsOK ==
    ASSUME TypeOK, WalkTypeOK, NEW v \in Views, WalkOK(v), PageFails(v)
    PROVE  WalkOK(v)'
<1>1. /\ vpc[v] # "idle" /\ vpc'[v] = "idle" /\ now'[v] = 0 /\ page'[v] = {}
      /\ following'[v] = {} /\ opened' = opened /\ nextCursor' = nextCursor
      /\ cursorFor' = cursorFor /\ walked' = walked /\ selected' = selected
      /\ steady' = steady /\ UNCHANGED vars
  BY DEF PageFails, Settled, WalkTypeOK
<1>2. clock \in Nat /\ Cardinality({}) <= 1
  BY FS_EmptySet DEF TypeOK
<1>3. Live(v)' = Live(v)
  BY <1>1, VarsKept DEF Live
<1>4. QED
  BY <1>1, <1>2, <1>3, VarsKept DEF WalkOK

-----------------------------------------------------------------------------
ViewTypes ==
    /\ vpc \in [Views -> {"idle", "list", "get", "reply"}]
    /\ selected \in [Views -> Recipients]
    /\ nextCursor \in [Views -> SUBSET Drops]
    /\ cursorFor \in [Views -> SUBSET Recipients]
    /\ now \in [Views -> 0..MaxClock]
    /\ page \in [Views -> SUBSET Drops]
    /\ following \in [Views -> SUBSET Drops]
    /\ opened \in [Views -> SUBSET Drops]
    /\ steady \in [Views -> SUBSET Drops]
    /\ walked \in [Views -> BOOLEAN]

Sized(v) == Cardinality(nextCursor[v]) <= 1 /\ Cardinality(page[v]) <= PageSize

LEMMA TypesSplit == WalkTypeOK <=> ViewTypes /\ \A v \in Views : Sized(v)
BY DEF WalkTypeOK, ViewTypes, Sized

(* What one view does is its own: the invariant holds at it and elsewhere. *)
LEMMA ViewStep ==
    ASSUME TypeOK, WalkInv, NEW v \in Views, View(v)
    PROVE  WalkInv'
<1> USE DEF WalkInv
<1>1. WalkOK(v) /\ ViewTypes /\ Sized(v)
  BY TypesSplit
<1>2. UNCHANGED vars /\ WalkOK(v)'
  <2>1. ASSUME NEW r \in Recipients, SelectKey(v, r) PROVE UNCHANGED vars /\ WalkOK(v)'
    BY <1>1, <2>1, SelectKeyOK DEF SelectKey
  <2>2. CASE Submit(v)
    BY <1>1, <2>2, SubmitOK DEF Submit
  <2>3. CASE ListPage(v)
    BY <1>1, <2>3, ListPageOK DEF ListPage
  <2>4. CASE GetValues(v)
    BY <1>1, <2>4, GetValuesOK DEF GetValues
  <2>5. CASE ReceivePage(v)
    BY <1>1, <2>5, ReceivePageOK DEF ReceivePage
  <2>6. CASE PageFails(v)
    BY <1>1, <2>6, PageFailsOK DEF PageFails
  <2>7. QED
    BY <2>1, <2>2, <2>3, <2>4, <2>5, <2>6 DEF View
<1>3. ASSUME NEW u \in Views, u # v
      PROVE  /\ vpc'[u] = vpc[u] /\ selected'[u] = selected[u]
             /\ nextCursor'[u] = nextCursor[u] /\ cursorFor'[u] = cursorFor[u]
             /\ now'[u] = now[u] /\ page'[u] = page[u] /\ following'[u] = following[u]
             /\ opened'[u] = opened[u] /\ steady'[u] = steady[u] /\ walked'[u] = walked[u]
  BY <1>1, <1>3 DEF ViewTypes, View, SelectKey, Submit, ListPage, GetValues,
       ReceivePage, PageFails, Settled
<1>4. \A u \in Views : WalkOK(u)'
  BY <1>2, <1>3, OtherView
<1>5. ViewTypes' /\ Sized(v)'
  <2>1. clock \in 0..MaxClock /\ index \subseteq Drops /\ indexSeen \subseteq Drops
    BY DEF TypeOK
  <2>2. Cardinality({}) = 0 /\ PageSize \in Nat /\ 0 \in 0..MaxClock
    BY FS_EmptySet, PageSizeAssumption, TimeAssumption
  <2>3. ASSUME NEW r \in Recipients, SelectKey(v, r) PROVE ViewTypes' /\ Sized(v)'
    BY <1>1, <2>2, <2>3 DEF ViewTypes, Sized, SelectKey
  <2>4. CASE Submit(v)
    <3>1. CASE RequestCursor(v) = {}
      <4>1. PICK from \in SUBSET Drops : steady' = [steady EXCEPT ![v] = from]
        BY <2>1, <2>4, <3>1 DEF Submit
      <4>2. QED
        BY <1>1, <2>1, <2>4, <3>1, <4>1 DEF ViewTypes, Sized, Submit
    <3>2. CASE RequestCursor(v) # {}
      BY <1>1, <2>1, <2>4, <3>2 DEF ViewTypes, Sized, Submit
    <3>3. QED
      BY <3>1, <3>2
  <2>5. CASE ListPage(v)
    <3>1. /\ page'[v] \in SUBSET Drops /\ Cardinality(page'[v]) <= PageSize
          /\ following'[v] \in SUBSET Drops
      BY <1>1, <2>5, ListPageOK
    <3>2. PICK keys, next : /\ page' = [page EXCEPT ![v] = keys]
                            /\ following' = [following EXCEPT ![v] = next]
      BY <2>5 DEF ListPage
    <3>3. keys = page'[v] /\ next = following'[v]
      BY <1>1, <3>2 DEF ViewTypes
    <3>4. QED
      BY <1>1, <2>5, <3>1, <3>2, <3>3 DEF ViewTypes, Sized, ListPage
  <2>6. CASE GetValues(v)
    <3>1. page'[v] \subseteq page[v]
      BY <1>1, <2>6, GetValuesOK
    <3>2. page[v] \in SUBSET Drops
      BY <1>1 DEF ViewTypes
    <3>3. Cardinality(page'[v]) <= Cardinality(page[v])
      BY <3>1, <3>2, DropSets, FS_Subset
    <3>4. /\ Cardinality(page[v]) \in Nat /\ Cardinality(page'[v]) \in Nat
      BY <3>1, <3>2, DropSets, FS_Subset, FS_CardinalityType
    <3>5. PICK values : page' = [page EXCEPT ![v] = values]
      BY <2>6 DEF GetValues
    <3>6. values = page'[v]
      BY <1>1, <3>5 DEF ViewTypes
    <3>7. ViewTypes'
      BY <1>1, <2>6, <3>1, <3>2, <3>5, <3>6 DEF ViewTypes, GetValues
    <3>8. Sized(v)'
      BY <1>1, <2>2, <2>6, <3>3, <3>4 DEF Sized, GetValues
    <3>9. QED
      BY <3>7, <3>8
  <2>7. CASE ReceivePage(v)
    <3>1. Cardinality(following[v]) <= 1
      BY <1>1 DEF WalkOK
    <3>2. QED
      BY <1>1, <2>2, <2>7, <3>1 DEF ViewTypes, Sized, ReceivePage, Settled
  <2>8. CASE PageFails(v)
    BY <1>1, <2>2, <2>8 DEF ViewTypes, Sized, PageFails, Settled
  <2>9. QED
    BY <2>3, <2>4, <2>5, <2>6, <2>7, <2>8 DEF View
<1>6. \A u \in Views : Sized(u)'
  BY <1>3, <1>5, TypesSplit DEF Sized
<1>7. WalkTypeOK'
  BY <1>5, <1>6 DEF WalkTypeOK, ViewTypes, Sized
<1>8. PlacedInv'
  BY <1>2, VarsKept DEF PlacedInv
<1>9. QED
  BY <1>4, <1>7, <1>8

(* The paging invariant holds in every reachable state, whatever the       *)
(* Worker stores, rolls back and expires between the pages.                *)
THEOREM WalksAreSound == WalkSpec => []WalkInv
<1>1. WalkInit => WalkInv
  <2> SUFFICES ASSUME WalkInit PROVE WalkInv
    OBVIOUS
  <2>1. Cardinality({}) = 0 /\ PageSize \in Nat /\ MaxClock \in Nat
    BY FS_EmptySet, PageSizeAssumption, TimeAssumption
  <2>2. PlacedInv
    BY DEF WalkInit, Init, PlacedInv
  <2>3. WalkTypeOK
    BY <2>1 DEF WalkInit, WalkTypeOK
  <2>4. ASSUME NEW v \in Views PROVE WalkOK(v)
    BY <2>1 DEF WalkInit, Init, WalkOK, Live
  <2>5. QED
    BY <2>2, <2>3, <2>4 DEF WalkInv
<1>2. TypeOK /\ HandlerInv /\ TypeOK' /\ WalkInv /\ [WalkNext]_walkVars => WalkInv'
  <2> SUFFICES ASSUME TypeOK, HandlerInv, TypeOK', WalkInv, [WalkNext]_walkVars
               PROVE  WalkInv'
    OBVIOUS
  <2>1. CASE [Next]_vars /\ UNCHANGED viewVars
    <3>1. PlacedInv' /\ \A v \in Views : WalkOK(v)'
      BY <2>1, PlacedInvStep, WorkerStep DEF WalkInv
    <3>2. WalkTypeOK'
      BY <2>1 DEF WalkInv, WalkTypeOK, viewVars
    <3>3. QED
      BY <3>1, <3>2 DEF WalkInv
  <2>2. ASSUME NEW v \in Views, View(v) PROVE WalkInv'
    BY <2>2, ViewStep
  <2>3. QED
    BY <2>1, <2>2 DEF WalkNext, walkVars
<1>3. QED
  BY <1>1, <1>2, WalkRefinesSpec, TypeCorrect, HandlersCorrect, PTL DEF WalkSpec

(* A view's variables keep their types: a cursor is one key at most, and a *)
(* page holds no more than PageSize.                                       *)
THEOREM WalksTyped == WalkSpec => []WalkTypeOK
BY WalksAreSound, PTL DEF WalkInv

(* A finished walk has returned every bottle listed everywhere when it     *)
(* began and still there, for any page size and any number of drops.       *)
THEOREM WalksAreComplete == WalkSpec => []WalkComplete
<1>1. WalkInv => WalkComplete
  BY DEF WalkInv, WalkOK, WalkComplete, Live
<1>2. QED
  BY <1>1, WalksAreSound, PTL

(* A walk returns no bottle twice, failed and retried pages included.      *)
THEOREM WalksDoNotRepeat == WalkSpec => []NoBottleTwice
<1>1. TypeOK /\ WalkInv => NoBottleTwice
  <2> SUFFICES ASSUME TypeOK, WalkInv, NEW v \in Views, vpc[v] = "reply",
                      NEW b \in page[v], b \in opened[v]
               PROVE  FALSE
    BY DEF NoBottleTwice
  <2>1. WalkOK(v) /\ PageOK(v)
    BY DEF WalkInv, WalkOK
  <2>2. nextCursor[v] # {}
    BY <2>1 DEF WalkOK
  <2>3. QED
    BY <2>1, <2>2 DEF WalkOK, PageOK
<1>2. QED
  BY <1>1, WalksAreSound, WalkRefinesSpec, TypeCorrect, PTL
=============================================================================
