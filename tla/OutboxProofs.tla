---------------------------- MODULE OutboxProofs ----------------------------
(***************************************************************************)
(* Theorems about Outbox, for every number of messages, dispatchers,       *)
(* reclaims and faults, and every threshold.                               *)
(***************************************************************************)
EXTENDS Outbox, TLAPS

(* A row in somebody's hands is marked so, with its claim counted, and is  *)
(* in those hands once: not both current and still to do.                  *)
HeldInv ==
  /\ \A d \in Dispatchers, m \in Messages : Holds(d, m) => row[m].status = "dispatching"
  /\ \A m \in Messages : row[m].status = "dispatching" => row[m].attempts > 0
  /\ \A d \in Dispatchers : dispatcher[d].at \notin dispatcher[d].todo

(* A row about to be marked dispatched has been published.                 *)
MarkInv ==
  \A d \in Dispatchers : dispatcher[d].pc = "mark" => published[dispatcher[d].at] > 0

(* A message that may still be published without further ado is owed its   *)
(* copy: it has one less than it may have.                                 *)
Due(m) ==
  \/ row[m].status \in {"absent", "pending"}
  \/ \E d \in Dispatchers :
       m \in dispatcher[d].todo \/ (m = dispatcher[d].at /\ dispatcher[d].pc # "mark")

CopiesInv == \A m \in Messages : Due(m) => published[m] <= reclaims[m] + faults

OutboxInv ==
  /\ TypeOK /\ RowsClaimedOnce /\ HeldInv
  /\ MarkInv /\ DispatchedIsPublished
  /\ CopiesInv /\ NoSpuriousCopies

-----------------------------------------------------------------------------
(* What the steps of a dispatcher change.                                  *)

(* The row d is at, n, passes out of its hands; nobody else has it.        *)
LEMMA Released ==
  ASSUME OutboxInv, NEW d \in Dispatchers, Proceed(d), NEW n, n = dispatcher[d].at,
         dispatcher[d].pc \in AtRow
  PROVE  /\ n \in Messages
         /\ dispatcher' \in [Dispatchers -> Dispatcher]
         /\ \A g \in Dispatchers :
              /\ dispatcher'[g].todo = dispatcher[g].todo
              /\ g # d => dispatcher'[g] = dispatcher[g]
         /\ dispatcher'[d].pc = "next" /\ dispatcher'[d].at = None
         /\ \A g \in Dispatchers : ~Holds(g, n)'
         /\ \A g \in Dispatchers, m \in Messages : Holds(g, m)' => Holds(g, m)
<1>1. n \in Messages /\ Holds(d, n)
  BY DEF OutboxInv, TypeOK, Holds
<1>2. /\ dispatcher \in [Dispatchers -> Dispatcher]
      /\ dispatcher' = [dispatcher EXCEPT ![d].pc = "next", ![d].at = None, ![d].attempts = 0]
  BY DEF OutboxInv, TypeOK, Proceed, AtRow
<1>3. /\ \A g \in Dispatchers : /\ dispatcher'[g].todo = dispatcher[g].todo
                                /\ g # d => dispatcher'[g] = dispatcher[g]
      /\ dispatcher'[d].pc = "next" /\ dispatcher'[d].at = None
      /\ dispatcher' \in [Dispatchers -> Dispatcher]
  BY <1>2 DEF Dispatcher, AtRow
<1>4. \A m \in Messages : m # None
  BY OutboxAssumption DEF None
<1>5. \A g \in Dispatchers, m \in Messages : Holds(g, m)' => Holds(g, m)
  BY <1>3, <1>4 DEF Holds
<1>6. \A g \in Dispatchers : ~Holds(g, n)'
  <2>1. ~Holds(d, n)'
    BY <1>1, <1>3, <1>4 DEF OutboxInv, HeldInv, Holds
  <2>2. QED
    BY <1>1, <1>5, <2>1 DEF OutboxInv, RowsClaimedOnce
<1>7. QED
  BY <1>1, <1>3, <1>5, <1>6

(* Whoever lets go of its row, having written it or not, keeps the invariant. *)
LEMMA ReleaseKeeps ==
  ASSUME OutboxInv, NEW d \in Dispatchers, Proceed(d), NEW n, n = dispatcher[d].at,
         dispatcher[d].pc \in AtRow,
         row' \in [Messages -> [status: RowStatus, attempts: Nat]],
         \A m \in Messages : m # n => row'[m] = row[m],
         row'[n].status = "dispatching" => row'[n] = row[n],
         row'[n].status \in {"absent", "pending"} => dispatcher[d].pc # "mark",
         row'[n].status = "dispatched" => dispatcher[d].pc = "mark",
         UNCHANGED <<dispatchLock, published, reclaims>>, recorded' \subseteq Messages,
         faults' \in Nat, faults <= faults'
  PROVE  OutboxInv'
<1>1. /\ n \in Messages
      /\ dispatcher' \in [Dispatchers -> Dispatcher]
      /\ \A g \in Dispatchers : /\ dispatcher'[g].todo = dispatcher[g].todo
                                /\ g # d => dispatcher'[g] = dispatcher[g]
      /\ dispatcher'[d].pc = "next" /\ dispatcher'[d].at = None
      /\ \A g \in Dispatchers : ~Holds(g, n)'
      /\ \A g \in Dispatchers, m \in Messages : Holds(g, m)' => Holds(g, m)
  BY Released
<1>2. TypeOK'
  <2>1. \A g \in Dispatchers : dispatcher'[g].pc \in AtRow =>
                                 dispatcher'[g].at \in Messages
    BY <1>1 DEF OutboxInv, TypeOK, AtRow
  <2>2. QED
    BY <1>1, <2>1 DEF OutboxInv, TypeOK
<1>3. RowsClaimedOnce'
  BY <1>1 DEF OutboxInv, RowsClaimedOnce
<1>4. HeldInv'
  <2>1. \A g \in Dispatchers, m \in Messages : Holds(g, m)' => row'[m].status = "dispatching"
    BY <1>1 DEF OutboxInv, HeldInv
  <2>2. \A m \in Messages : row'[m].status = "dispatching" => row'[m].attempts > 0
    BY <1>1 DEF OutboxInv, HeldInv
  <2>3. \A g \in Dispatchers : dispatcher'[g].at \notin dispatcher'[g].todo
    <3>1. None \notin dispatcher[d].todo
      BY OutboxAssumption DEF OutboxInv, TypeOK, Dispatcher, None
    <3>2. QED
      BY <1>1, <3>1 DEF OutboxInv, HeldInv
  <2>4. QED
    BY <2>1, <2>2, <2>3 DEF HeldInv
<1>5. MarkInv' /\ DispatchedIsPublished'
  <2>1. MarkInv'
    BY <1>1 DEF OutboxInv, MarkInv
  <2>2. \A m \in Messages : row'[m].status = "dispatched" => published'[m] > 0
    BY <1>1 DEF OutboxInv, MarkInv, DispatchedIsPublished
  <2>3. QED
    BY <2>1, <2>2 DEF DispatchedIsPublished
<1>6. CopiesInv' /\ NoSpuriousCopies'
  <2>1. \A m \in Messages : m # None
    BY OutboxAssumption DEF None
  <2>2. ASSUME NEW m \in Messages PROVE Due(m)' => Due(m)
    <3>1. CASE m # n
      BY <1>1, <2>1, <3>1 DEF Due
    <3>2. CASE m = n
      BY <1>1, <3>2 DEF Due, Holds
    <3>3. QED
      BY <3>1, <3>2
  <2>3. \A m \in Messages : published[m] \in Nat /\ reclaims[m] \in Nat /\ faults \in Nat
    BY DEF OutboxInv, TypeOK
  <2>4. CopiesInv'
    BY <2>2, <2>3 DEF OutboxInv, CopiesInv
  <2>5. NoSpuriousCopies'
    BY <2>3 DEF OutboxInv, NoSpuriousCopies
  <2>6. QED
    BY <2>4, <2>5
<1>7. QED
  BY <1>2, <1>3, <1>4, <1>5, <1>6 DEF OutboxInv

(* A dispatcher goes on with the row it is at, which stays as it is.       *)
LEMMA GotoKeeps ==
  ASSUME OutboxInv, NEW d \in Dispatchers, 
         NEW pc \in {"locked"} \cup AtRow, Goto(d, pc),
         pc \in AtRow => dispatcher[d].pc \in AtRow,
         pc = "mark" => published'[dispatcher[d].at] > 0,
         dispatcher[d].pc = "mark" => pc = "mark",
         row' = row, dispatchLock' \in Dispatchers \cup {None},
         published' \in [Messages -> Nat], recorded' \subseteq Messages,
         UNCHANGED reclaims, faults' \in Nat,
         \A m \in Messages :
           /\ published[m] <= published'[m]
           /\ published'[m] > published[m] + faults' - faults =>
                m = dispatcher[d].at /\ pc = "mark"
                /\ published'[m] <= published[m] + 1 /\ dispatcher[d].pc = "publish",
         faults <= faults'
  PROVE  OutboxInv'
<1>1. \A g \in Dispatchers :
        /\ dispatcher'[g].todo = dispatcher[g].todo /\ dispatcher'[g].at = dispatcher[g].at
        /\ g # d => dispatcher'[g] = dispatcher[g]
  BY DEF OutboxInv, TypeOK, Goto
<1>2. dispatcher'[d].pc = pc
  BY DEF OutboxInv, TypeOK, Goto
<1>3. TypeOK'
  <2>1. dispatcher' \in [Dispatchers -> Dispatcher]
    BY DEF OutboxInv, TypeOK, Goto, Dispatcher, AtRow
  <2>2. QED
    BY <1>1, <1>2, <2>1 DEF OutboxInv, TypeOK
<1>4. RowsClaimedOnce' /\ HeldInv'
  BY <1>1 DEF OutboxInv, RowsClaimedOnce, HeldInv, Holds
<1>5. MarkInv' /\ DispatchedIsPublished'
  <2>1. \A m \in Messages : published[m] > 0 => published'[m] > 0
    BY <1>3 DEF OutboxInv, TypeOK
  <2>2. \A g \in Dispatchers : dispatcher[g].pc = "mark" => dispatcher[g].at \in Messages
    BY DEF OutboxInv, TypeOK, AtRow
  <2>3. QED
    BY <1>1, <1>2, <2>1, <2>2 DEF OutboxInv, MarkInv, DispatchedIsPublished
<1>6. CopiesInv' /\ NoSpuriousCopies'
  <2> SUFFICES ASSUME NEW m \in Messages
               PROVE  /\ published'[m] <= 1 + reclaims[m] + faults'
                      /\ Due(m)' => published'[m] <= reclaims[m] + faults'
    BY DEF CopiesInv, NoSpuriousCopies
  <2>1. /\ published[m] \in Nat /\ published'[m] \in Nat /\ reclaims[m] \in Nat
        /\ faults \in Nat /\ faults' \in Nat
        /\ published[m] <= 1 + reclaims[m] + faults
        /\ Due(m) => published[m] <= reclaims[m] + faults
    BY DEF OutboxInv, TypeOK, NoSpuriousCopies, CopiesInv
  <2>2. CASE published'[m] <= published[m] + faults' - faults
    <3>1. Due(m)' => Due(m)
      BY <1>1, <1>2 DEF Due
    <3>2. QED
      BY <2>1, <2>2, <3>1
  <2>3. CASE published'[m] > published[m] + faults' - faults
    <3>1. /\ m = dispatcher[d].at /\ pc = "mark" /\ dispatcher[d].pc = "publish"
          /\ published'[m] <= published[m] + 1
      BY <2>3
    <3>2. Due(m)
      BY <3>1 DEF Due
    <3>3. ~Due(m)'
      <4>1. Holds(d, m) /\ m \notin dispatcher[d].todo
        BY <3>1 DEF Holds, OutboxInv, HeldInv
      <4>2. \A g \in Dispatchers : g # d => ~Holds(g, m)
        BY <4>1 DEF OutboxInv, RowsClaimedOnce
      <4>3. row[m].status = "dispatching"
        BY <4>1 DEF OutboxInv, HeldInv
      <4>4. QED
        BY <1>1, <1>2, <3>1, <4>1, <4>2, <4>3 DEF Due, Holds
    <3>4. QED
      BY <2>1, <3>1, <3>2, <3>3
  <2>4. QED
    BY <2>1, <2>2, <2>3
<1>7. QED
  BY <1>3, <1>4, <1>5, <1>6 DEF OutboxInv

-----------------------------------------------------------------------------
(* Claiming takes rows that nobody has.                                    *)
LEMMA ClaimKeeps ==
  ASSUME OutboxInv, NEW d \in Dispatchers, NEW claimed \in SUBSET Messages,
         claimOutboxMessages(d, claimed)
  PROVE  OutboxInv'
<1>1. /\ \A m \in claimed : /\ row[m].status = "pending"
                            /\ row'[m].status = "dispatching" /\ row'[m].attempts > 0
      /\ \A m \in Messages \ claimed : row'[m] = row[m]
      /\ row' \in [Messages -> [status: RowStatus, attempts: Nat]]
  BY DEF claimOutboxMessages, Claimable, OutboxInv, TypeOK, RowStatus
<1>2. /\ dispatcher' = [dispatcher EXCEPT ![d].todo = claimed, ![d].pc = "next"]
      /\ dispatcher[d].pc = "locked"
      /\ UNCHANGED <<dispatchLock, published, recorded, reclaims, faults>>
  BY DEF claimOutboxMessages
<1>3. /\ dispatcher' \in [Dispatchers -> Dispatcher]
      /\ \A g \in Dispatchers : /\ dispatcher'[g].at = dispatcher[g].at
                                /\ g # d => dispatcher'[g] = dispatcher[g]
      /\ dispatcher'[d].todo = claimed /\ dispatcher'[d].pc = "next"
  BY <1>2 DEF OutboxInv, TypeOK, Dispatcher, AtRow
<1>4. \A g \in Dispatchers, m \in claimed : ~Holds(g, m)
  BY <1>1 DEF OutboxInv, HeldInv
<1>5. \A g \in Dispatchers, m \in Messages :
        Holds(g, m)' => Holds(g, m) \/ (g = d /\ m \in claimed)
  BY <1>3 DEF Holds
<1>6. TypeOK'
  BY <1>1, <1>2, <1>3 DEF OutboxInv, TypeOK, AtRow
<1>7. RowsClaimedOnce'
  BY <1>4, <1>5 DEF OutboxInv, RowsClaimedOnce
<1>8. HeldInv'
  <2>1. \A g \in Dispatchers, m \in Messages : Holds(g, m)' => row'[m].status = "dispatching"
    BY <1>1, <1>5 DEF OutboxInv, HeldInv
  <2>2. \A m \in Messages : row'[m].status = "dispatching" => row'[m].attempts > 0
    BY <1>1 DEF OutboxInv, HeldInv
  <2>3. \A g \in Dispatchers : dispatcher'[g].at \notin dispatcher'[g].todo
    BY <1>3, <1>4 DEF OutboxInv, HeldInv, Holds
  <2>4. QED
    BY <2>1, <2>2, <2>3 DEF HeldInv
<1>9. MarkInv' /\ DispatchedIsPublished'
  BY <1>1, <1>2, <1>3 DEF OutboxInv, MarkInv, DispatchedIsPublished
<1>10. CopiesInv' /\ NoSpuriousCopies'
  <2>1. \A m \in Messages : Due(m)' => Due(m)
    BY <1>1, <1>2, <1>3 DEF Due
  <2>2. QED
    BY <1>2, <2>1 DEF OutboxInv, CopiesInv, NoSpuriousCopies
<1>11. QED
  BY <1>6, <1>7, <1>8, <1>9, <1>10 DEF OutboxInv

(* The next row moves from the batch into the dispatcher's hand.           *)
LEMMA NextKeeps ==
  ASSUME OutboxInv, NEW d \in Dispatchers, NextMessage(d)
  PROVE  OutboxInv'
<1>1. PICK n \in dispatcher[d].todo :
        dispatcher' = [dispatcher EXCEPT ![d] =
          [pc |-> "publish", todo |-> @.todo \ {n}, at |-> n, attempts |-> row[n].attempts - 1]]
  BY DEF NextMessage
<1>2. /\ n \in Messages /\ Holds(d, n)
      /\ dispatcher[d].pc = "next"
      /\ UNCHANGED <<row, dispatchLock, published, recorded, reclaims, faults>>
  BY DEF NextMessage, OutboxInv, TypeOK, Dispatcher, Holds
<1>3. row[n].attempts - 1 \in Nat
  BY <1>2 DEF OutboxInv, HeldInv, TypeOK
<1>4. /\ dispatcher' \in [Dispatchers -> Dispatcher]
      /\ \A g \in Dispatchers : g # d => dispatcher'[g] = dispatcher[g]
      /\ dispatcher'[d].pc = "publish" /\ dispatcher'[d].at = n
      /\ dispatcher'[d].todo = dispatcher[d].todo \ {n}
  BY <1>1, <1>2, <1>3 DEF OutboxInv, TypeOK, Dispatcher, AtRow
<1>5. \A g \in Dispatchers, m \in Messages : Holds(g, m)' => Holds(g, m)
  BY <1>2, <1>4 DEF Holds
<1>6. TypeOK'
  BY <1>2, <1>4 DEF OutboxInv, TypeOK, AtRow
<1>7. RowsClaimedOnce' /\ HeldInv'
  BY <1>2, <1>4, <1>5 DEF OutboxInv, RowsClaimedOnce, HeldInv
<1>8. MarkInv' /\ DispatchedIsPublished'
  BY <1>2, <1>4 DEF OutboxInv, MarkInv, DispatchedIsPublished
<1>9. CopiesInv' /\ NoSpuriousCopies'
  <2>1. \A m \in Messages : Due(m)' => Due(m)
    BY <1>1, <1>2, <1>4 DEF Due
  <2>2. QED
    BY <1>2, <2>1 DEF OutboxInv, CopiesInv, NoSpuriousCopies
<1>10. QED
  BY <1>6, <1>7, <1>8, <1>9 DEF OutboxInv

(* A dispatcher that stops, holding rows or none, drops what it held.      *)
LEMMA StopKeeps ==
  ASSUME OutboxInv, NEW d \in Dispatchers,
         dispatcher' = [dispatcher EXCEPT ![d] = IdleDispatcher],
         dispatchLock' \in Dispatchers \cup {None}, faults' \in Nat, faults <= faults',
         UNCHANGED <<row, published, recorded, reclaims>>
  PROVE  OutboxInv'
<1>1. /\ dispatcher' \in [Dispatchers -> Dispatcher]
      /\ \A g \in Dispatchers : g # d => dispatcher'[g] = dispatcher[g]
      /\ dispatcher'[d].pc = "idle" /\ dispatcher'[d].at = None /\ dispatcher'[d].todo = {}
  BY DEF OutboxInv, TypeOK, Dispatcher, IdleDispatcher
<1>2. \A m \in Messages : m # None
  BY OutboxAssumption DEF None
<1>3. \A g \in Dispatchers, m \in Messages : Holds(g, m)' => Holds(g, m)
  BY <1>1, <1>2 DEF Holds
<1>4. TypeOK'
  BY <1>1 DEF OutboxInv, TypeOK, AtRow
<1>5. RowsClaimedOnce' /\ HeldInv'
  BY <1>1, <1>3 DEF OutboxInv, RowsClaimedOnce, HeldInv
<1>6. MarkInv' /\ DispatchedIsPublished'
  BY <1>1 DEF OutboxInv, MarkInv, DispatchedIsPublished
<1>7. CopiesInv' /\ NoSpuriousCopies'
  <2>1. \A m \in Messages : Due(m)' => Due(m)
    BY <1>1, <1>2 DEF Due
  <2>2. \A m \in Messages : published[m] \in Nat /\ reclaims[m] \in Nat /\ faults \in Nat
    BY DEF OutboxInv, TypeOK
  <2>3. QED
    BY <2>1, <2>2 DEF OutboxInv, CopiesInv, NoSpuriousCopies
<1>8. QED
  BY <1>4, <1>5, <1>6, <1>7 DEF OutboxInv
-----------------------------------------------------------------------------
(* Every step keeps the invariant, one case for each action.               *)
LEMMA OutboxStep ==
  ASSUME OutboxInv, [Next]_vars
  PROVE  OutboxInv'
<1>1. ASSUME NEW m \in Messages, enqueueOutboxTx(m)
      PROVE  OutboxInv'
  <2>1. /\ row[m].status = "absent" /\ row'[m].status = "pending"
        /\ row' \in [Messages -> [status: RowStatus, attempts: Nat]]
        /\ \A k \in Messages : k # m => row'[k] = row[k]
        /\ UNCHANGED <<dispatchLock, dispatcher, published, recorded, reclaims, faults>>
    BY <1>1 DEF enqueueOutboxTx, OutboxInv, TypeOK, RowStatus
  <2>2. TypeOK' /\ RowsClaimedOnce' /\ MarkInv' /\ NoSpuriousCopies'
    BY <2>1 DEF OutboxInv, TypeOK, RowsClaimedOnce, MarkInv, NoSpuriousCopies, Holds
  <2>3. HeldInv' /\ DispatchedIsPublished'
    BY <2>1 DEF OutboxInv, HeldInv, DispatchedIsPublished, Holds
  <2>4. CopiesInv'
    BY <2>1 DEF OutboxInv, CopiesInv, Due
  <2>5. QED
    BY <2>2, <2>3, <2>4 DEF OutboxInv
<1>2. ASSUME NEW m \in Messages, ReclaimMessage(m)
      PROVE  OutboxInv'
  <2>1. /\ \A d \in Dispatchers : ~Holds(d, m)
        /\ row'[m].status = "pending" /\ reclaims'[m] = reclaims[m] + 1
        /\ row' \in [Messages -> [status: RowStatus, attempts: Nat]]
        /\ reclaims' \in [Messages -> Nat]
        /\ \A k \in Messages : k # m => row'[k] = row[k] /\ reclaims'[k] = reclaims[k]
        /\ UNCHANGED <<dispatchLock, dispatcher, published, recorded, faults>>
    BY <1>2 DEF ReclaimMessage, OutboxInv, TypeOK, RowStatus
  <2>2. TypeOK' /\ RowsClaimedOnce' /\ MarkInv'
    BY <2>1 DEF OutboxInv, TypeOK, RowsClaimedOnce, MarkInv, Holds
  <2>3. HeldInv' /\ DispatchedIsPublished'
    BY <2>1 DEF OutboxInv, HeldInv, DispatchedIsPublished, Holds
  <2>4. CopiesInv' /\ NoSpuriousCopies'
    <3>1. \A k \in Messages : /\ published[k] \in Nat /\ reclaims[k] \in Nat /\ faults \in Nat
                              /\ k # m => (Due(k)' <=> Due(k))
      BY <2>1 DEF OutboxInv, TypeOK, Due
    <3>2. QED
      BY <2>1, <3>1 DEF OutboxInv, CopiesInv, NoSpuriousCopies
  <2>5. QED
    BY <2>2, <2>3, <2>4 DEF OutboxInv
<1>3. ASSUME NEW d \in Dispatchers, LockDispatch(d)
      PROVE  OutboxInv'
  BY <1>3, GotoKeeps DEF LockDispatch, OutboxInv, TypeOK, AtRow
<1>4. ASSUME NEW d \in Dispatchers, NEW claimed \in SUBSET Messages,
             claimOutboxMessages(d, claimed)
      PROVE  OutboxInv'
  BY <1>4, ClaimKeeps
<1>5. ASSUME NEW d \in Dispatchers, NextMessage(d)
      PROVE  OutboxInv'
  BY <1>5, NextKeeps
<1>6. ASSUME NEW d \in Dispatchers, PublishWithID(d)
      PROVE  OutboxInv'
  <2>1. dispatcher[d].pc = "publish" /\ dispatcher[d].at \in Messages
    BY <1>6 DEF PublishWithID, OutboxInv, TypeOK, AtRow
  <2>2. /\ published' \in [Messages -> Nat]
        /\ \A m \in Messages :
             published'[m] = IF m = dispatcher[d].at THEN published[m] + 1 ELSE published[m]
        /\ \A m \in Messages : published[m] \in Nat
    BY <1>6, <2>1 DEF PublishWithID, OutboxInv, TypeOK
  <2>3. QED
    BY <1>6, <2>1, <2>2, GotoKeeps DEF PublishWithID, OutboxInv, TypeOK, AtRow
<1>7. ASSUME NEW d \in Dispatchers, PublishFails(d)
      PROVE  OutboxInv'
  <2>1. dispatcher[d].pc = "publish" /\ dispatcher[d].at \in Messages
    BY <1>7 DEF PublishFails, OutboxInv, TypeOK, AtRow
  <2>2. /\ published' \in [Messages -> Nat]
        /\ faults' = faults + 1 /\ faults \in Nat
        /\ \A m \in Messages : /\ published[m] <= published'[m]
                               /\ published'[m] <= published[m] + 1
    BY <1>7, <2>1 DEF PublishFails, Fault, OutboxInv, TypeOK
  <2>3. QED
    BY <1>7, <2>1, <2>2, GotoKeeps DEF PublishFails, OutboxInv, TypeOK, AtRow
<1>8. ASSUME NEW d \in Dispatchers, RecordDeath(d)
      PROVE  OutboxInv'
  <2>1. dispatcher[d].pc = "release" /\ dispatcher[d].at \in Messages
    BY <1>8 DEF RecordDeath, OutboxInv, TypeOK, AtRow
  <2>2. /\ recorded' \subseteq Messages
        /\ faults' \in Nat /\ faults <= faults' /\ faults \in Nat
        /\ \A m \in Messages : published[m] \in Nat
    BY <1>8, <2>1 DEF RecordDeath, Fault, OutboxInv, TypeOK
  <2>3. QED
    BY <1>8, <2>1, <2>2, GotoKeeps DEF RecordDeath, OutboxInv, TypeOK, AtRow
<1>9. ASSUME NEW d \in Dispatchers,
             MarkDispatched(d) \/ ReleaseForRetry(d) \/ BuryRow(d) \/ UpdateFails(d)
      PROVE  OutboxInv'
  <2>1. PICK n : n = dispatcher[d].at
    OBVIOUS
  <2>2. dispatcher[d].pc \in AtRow /\ n \in Messages /\ Proceed(d)
    BY <1>9, <2>1 DEF MarkDispatched, ReleaseForRetry, BuryRow, UpdateFails, OutboxInv,
                      TypeOK, AtRow
  <2>3. /\ row' \in [Messages -> [status: RowStatus, attempts: Nat]]
        /\ \A m \in Messages : m # n => row'[m] = row[m]
        /\ row'[n].status = "dispatching" => row'[n] = row[n]
        /\ row'[n].status \in {"absent", "pending"} => dispatcher[d].pc # "mark"
        /\ row'[n].status = "dispatched" => dispatcher[d].pc = "mark"
    <3>1. row[n].status = "dispatching" /\ row[n] \in [status: RowStatus, attempts: Nat]
      BY <2>1, <2>2 DEF OutboxInv, HeldInv, Holds, TypeOK
    <3>2. \/ row' = row
          \/ row' = [row EXCEPT ![n].status = "dispatched"] /\ dispatcher[d].pc = "mark"
          \/ row' = [row EXCEPT ![n].status = "pending"] /\ dispatcher[d].pc = "release"
          \/ row' = [row EXCEPT ![n] = [status |-> "dead_letter",
                                        attempts |-> dispatcher[d].attempts + 1]]
      BY <1>9, <2>1 DEF MarkDispatched, ReleaseForRetry, BuryRow, UpdateFails
    <3>3. dispatcher[d].attempts \in Nat
      BY DEF OutboxInv, TypeOK, Dispatcher
    <3>4. QED
      BY <2>2, <3>1, <3>2, <3>3 DEF OutboxInv, TypeOK, RowStatus
  <2>4. /\ UNCHANGED <<dispatchLock, published, reclaims, recorded>>
        /\ recorded' \subseteq Messages /\ faults' \in Nat /\ faults <= faults'
    BY <1>9 DEF MarkDispatched, ReleaseForRetry, BuryRow, UpdateFails, Fault, OutboxInv, TypeOK
  <2>5. QED
    BY <2>1, <2>2, <2>3, <2>4, ReleaseKeeps
<1>10. ASSUME NEW d \in Dispatchers, UnlockDispatch(d) \/ CrashDispatcher(d)
       PROVE  OutboxInv'
  <2>1. /\ dispatcher' = [dispatcher EXCEPT ![d] = IdleDispatcher]
        /\ dispatchLock' \in Dispatchers \cup {None}
        /\ faults' \in Nat /\ faults <= faults'
        /\ UNCHANGED <<row, published, recorded, reclaims>>
    BY <1>10 DEF UnlockDispatch, CrashDispatcher, Fault, OutboxInv, TypeOK
  <2>2. QED
    BY <2>1, StopKeeps
<1>11. CASE DispatchLockExpires \/ UNCHANGED vars
  <2>1. /\ UNCHANGED <<row, dispatcher, published, recorded, reclaims, faults>>
        /\ dispatchLock' \in Dispatchers \cup {None}
    BY <1>11 DEF DispatchLockExpires, vars, OutboxInv, TypeOK
  <2>2. QED
    BY <2>1 DEF OutboxInv, TypeOK, RowsClaimedOnce, HeldInv, MarkInv, DispatchedIsPublished,
                CopiesInv, NoSpuriousCopies, Due, Holds
<1>12. QED
  BY <1>1, <1>2, <1>3, <1>4, <1>5, <1>6, <1>7, <1>8, <1>9, <1>10, <1>11
     DEF Next, DispatcherStep

(* The initial state satisfies it.                                         *)
LEMMA OutboxStart == Init => OutboxInv
<1> SUFFICES ASSUME Init PROVE OutboxInv
  OBVIOUS
<1>1. /\ TypeOK
      /\ \A d \in Dispatchers : /\ dispatcher[d].pc = "idle"
                                /\ dispatcher[d].at = None /\ dispatcher[d].todo = {}
      /\ \A m \in Messages : row[m].status = "absent" /\ published[m] = 0 /\ reclaims[m] = 0
      /\ faults = 0
  BY DEF Init, TypeOK, RowStatus, Dispatcher, IdleDispatcher, AtRow
<1>2. \A m \in Messages : m # None
  BY OutboxAssumption DEF None
<1>3. RowsClaimedOnce /\ HeldInv
  BY <1>1, <1>2 DEF RowsClaimedOnce, HeldInv, Holds
<1>4. MarkInv /\ DispatchedIsPublished /\ CopiesInv /\ NoSpuriousCopies
  BY <1>1 DEF MarkInv, DispatchedIsPublished, CopiesInv, NoSpuriousCopies
<1>5. QED
  BY <1>1, <1>3, <1>4 DEF OutboxInv

(* The invariant of the outbox.                                            *)
LEMMA OutboxInvariant == Spec => []OutboxInv
BY OutboxStart, OutboxStep, PTL DEF Spec

(* Type correctness; an attempt is never counted below zero.               *)
THEOREM TypeCorrect == Spec => []TypeOK
<1>1. OutboxInv => TypeOK
  BY DEF OutboxInv
<1>2. QED
  BY <1>1, OutboxInvariant, PTL

(* The claim keeps dispatchers apart, whatever becomes of their lock.      *)
THEOREM RowsAreClaimedOnce == Spec => []RowsClaimedOnce
<1>1. OutboxInv => RowsClaimedOnce
  BY DEF OutboxInv
<1>2. QED
  BY <1>1, OutboxInvariant, PTL

(* The outbox never takes a message for published that is not.             *)
THEOREM DispatchedRowsArePublished == Spec => []DispatchedIsPublished
<1>1. OutboxInv => DispatchedIsPublished
  BY DEF OutboxInv
<1>2. QED
  BY <1>1, OutboxInvariant, PTL

(* A message has no more copies than it was enqueued or reclaimed, and     *)
(* than there were faults.                                                 *)
THEOREM CopiesAreAccountedFor == Spec => []NoSpuriousCopies
<1>1. OutboxInv => NoSpuriousCopies
  BY DEF OutboxInv
<1>2. QED
  BY <1>1, OutboxInvariant, PTL

-----------------------------------------------------------------------------
(* What the attempts of a row count: a dispatcher at a row has the number  *)
(* before its claim; a row that waits without ever having been reclaimed   *)
(* has failed less often than the dead letters ask for; and what was       *)
(* reclaimed was published.                                                *)
AtRowInv ==
  \A d \in Dispatchers :
    dispatcher[d].pc \in AtRow =>
      row[dispatcher[d].at].attempts = dispatcher[d].attempts + 1

WaitingInv ==
  \A m \in Messages :
    /\ row[m].status = "absent" => row[m].attempts = 0
    /\ row[m].status = "pending" /\ reclaims[m] = 0 => row[m].attempts < Threshold
    /\ reclaims[m] > 0 => published[m] > 0

TriesInv == AtRowInv /\ WaitingInv

(* The actions of one dispatcher at a row keep TriesInv: it alone has that *)
(* row, and gives it back to wait only below the threshold.                *)
LEMMA EndOfRowKeepsTries ==
  ASSUME OutboxInv, TriesInv, NEW d \in Dispatchers,
         MarkDispatched(d) \/ ReleaseForRetry(d) \/ BuryRow(d) \/ UpdateFails(d)
  PROVE  TriesInv'
<1>1. PICK n : n = dispatcher[d].at
  OBVIOUS
<1>2. dispatcher[d].pc \in AtRow /\ n \in Messages /\ Proceed(d) /\ Holds(d, n)
  BY <1>1 DEF MarkDispatched, ReleaseForRetry, BuryRow, UpdateFails, OutboxInv, TypeOK, AtRow,
              Holds
<1>3. /\ \A g \in Dispatchers : g # d => dispatcher'[g] = dispatcher[g]
      /\ dispatcher'[d].pc = "next"
  BY <1>2 DEF Proceed, OutboxInv, TypeOK, Dispatcher
<1>4. \A m \in Messages : m # n => row'[m] = row[m]
  BY <1>1, <1>2 DEF MarkDispatched, ReleaseForRetry, BuryRow, UpdateFails, OutboxInv, TypeOK
<1>5. UNCHANGED <<published, reclaims>>
  BY DEF MarkDispatched, ReleaseForRetry, BuryRow, UpdateFails
<1>6. AtRowInv'
  <2> SUFFICES ASSUME NEW g \in Dispatchers, dispatcher'[g].pc \in AtRow
               PROVE  row'[dispatcher'[g].at].attempts = dispatcher'[g].attempts + 1
    BY DEF AtRowInv
  <2>1. g # d /\ dispatcher'[g] = dispatcher[g]
    BY <1>3 DEF AtRow
  <2>2. dispatcher[g].at \in Messages /\ Holds(g, dispatcher[g].at)
    BY <2>1 DEF OutboxInv, TypeOK, Holds
  <2>3. dispatcher[g].at # n
    BY <1>2, <2>1, <2>2 DEF OutboxInv, RowsClaimedOnce
  <2>4. QED
    BY <1>4, <2>1, <2>2, <2>3 DEF TriesInv, AtRowInv
<1>7. WaitingInv'
  <2>1. row[n].status = "dispatching" /\ row[n] \in [status: RowStatus, attempts: Nat]
    BY <1>2 DEF OutboxInv, HeldInv, TypeOK
  <2>2. row'[n].status \notin {"absent", "pending"} \/ row'[n].attempts < Threshold
    <3>1. CASE ReleaseForRetry(d)
      <4>1. dispatcher[d].attempts + 1 < Threshold
        BY <3>1, OutboxAssumption
           DEF ReleaseForRetry, OutOfRetries, OutboxInv, TypeOK, Dispatcher
      <4>2. row[n].attempts < Threshold
        BY <1>1, <1>2, <4>1 DEF TriesInv, AtRowInv
      <4>3. row'[n].attempts = row[n].attempts
        BY <1>1, <1>2, <3>1 DEF ReleaseForRetry, OutboxInv, TypeOK
      <4>4. QED
        BY <4>2, <4>3
    <3>2. CASE MarkDispatched(d) \/ BuryRow(d) \/ UpdateFails(d)
      <4>1. row'[n].status \in {"dispatching", "dispatched", "dead_letter"}
        BY <1>1, <1>2, <2>1, <3>2
           DEF MarkDispatched, BuryRow, UpdateFails, OutboxInv, TypeOK
      <4>2. QED
        BY <4>1
    <3>3. QED
      BY <3>1, <3>2
  <2>3. row'[n].status # "absent"
    BY <1>1, <1>2, <2>1
       DEF MarkDispatched, ReleaseForRetry, BuryRow, UpdateFails, OutboxInv, TypeOK
  <2>4. QED
    BY <1>4, <1>5, <2>2, <2>3 DEF TriesInv, WaitingInv
<1>8. QED
  BY <1>6, <1>7 DEF TriesInv

(* A step of a dispatcher from one stage to the next on the same row.      *)
LEMMA GotoKeepsTries ==
  ASSUME OutboxInv, TriesInv, NEW d \in Dispatchers, NEW pc, Goto(d, pc),
         dispatcher[d].pc \in AtRow \/ pc \notin AtRow,
         UNCHANGED <<row, reclaims>>,
         \A m \in Messages : published[m] <= published'[m] /\ published'[m] \in Nat
  PROVE  TriesInv'
<1>1. /\ \A g \in Dispatchers :
            /\ dispatcher'[g].at = dispatcher[g].at
            /\ dispatcher'[g].attempts = dispatcher[g].attempts
            /\ dispatcher'[g].pc \in AtRow => dispatcher[g].pc \in AtRow
  BY DEF Goto, OutboxInv, TypeOK, Dispatcher
<1>2. \A m \in Messages : published[m] \in Nat
  BY DEF OutboxInv, TypeOK
<1>3. QED
  BY <1>1, <1>2 DEF TriesInv, AtRowInv, WaitingInv

LEMMA TriesStep ==
  ASSUME OutboxInv, TriesInv, [Next]_vars
  PROVE  TriesInv'
<1>1. ASSUME NEW m \in Messages, enqueueOutboxTx(m)
      PROVE  TriesInv'
  <2>1. /\ row[m].status = "absent"
        /\ row'[m].status = "pending"
        /\ row'[m].attempts = row[m].attempts
        /\ \A k \in Messages : k # m => row'[k] = row[k]
        /\ UNCHANGED <<dispatcher, published, reclaims>>
    BY <1>1 DEF enqueueOutboxTx, OutboxInv, TypeOK
  <2>2. row'[m].attempts < Threshold
    BY <2>1, OutboxAssumption DEF TriesInv, WaitingInv
  <2>3. \A k \in Messages : row'[k].attempts = row[k].attempts
    BY <2>1
  <2>4. AtRowInv'
    BY <2>1, <2>3 DEF TriesInv, AtRowInv, OutboxInv, TypeOK
  <2>5. QED
    BY <2>1, <2>2, <2>4 DEF TriesInv, WaitingInv
<1>2. ASSUME NEW m \in Messages, ReclaimMessage(m)
      PROVE  TriesInv'
  <2>1. /\ published[m] > 0 /\ reclaims'[m] = reclaims[m] + 1 /\ reclaims[m] \in Nat
        /\ row'[m].status = "pending" /\ row'[m].attempts = row[m].attempts
        /\ \A k \in Messages : k # m => row'[k] = row[k] /\ reclaims'[k] = reclaims[k]
        /\ UNCHANGED <<dispatcher, published>>
    BY <1>2 DEF ReclaimMessage, OutboxInv, TypeOK
  <2>2. AtRowInv'
    BY <2>1 DEF TriesInv, AtRowInv, OutboxInv, TypeOK
  <2>3. QED
    BY <2>1, <2>2 DEF TriesInv, WaitingInv
<1>3. ASSUME NEW d \in Dispatchers, LockDispatch(d)
      PROVE  TriesInv'
  BY <1>3, GotoKeepsTries DEF LockDispatch, AtRow, OutboxInv, TypeOK
<1>4. ASSUME NEW d \in Dispatchers, NEW claimed \in SUBSET Messages,
             claimOutboxMessages(d, claimed)
      PROVE  TriesInv'
  <2>1. /\ \A m \in claimed : row'[m].status = "dispatching"
        /\ \A m \in Messages \ claimed : row'[m] = row[m]
        /\ \A m \in claimed : row[m].status = "pending"
        /\ UNCHANGED <<published, reclaims>>
    BY <1>4 DEF claimOutboxMessages, Claimable, OutboxInv, TypeOK
  <2>2. \A g \in Dispatchers : /\ dispatcher'[g].at = dispatcher[g].at
                               /\ dispatcher'[g].attempts = dispatcher[g].attempts
                               /\ dispatcher'[g].pc \in AtRow => dispatcher[g].pc \in AtRow
    BY <1>4 DEF claimOutboxMessages, OutboxInv, TypeOK, Dispatcher, AtRow
  <2>3. AtRowInv'
    <3> SUFFICES ASSUME NEW g \in Dispatchers, dispatcher'[g].pc \in AtRow
                 PROVE  row'[dispatcher'[g].at].attempts = dispatcher'[g].attempts + 1
      BY DEF AtRowInv
    <3>1. dispatcher[g].at \in Messages /\ Holds(g, dispatcher[g].at)
      BY <2>2 DEF OutboxInv, TypeOK, Holds
    <3>2. dispatcher[g].at \notin claimed
      BY <2>1, <3>1 DEF OutboxInv, HeldInv
    <3>3. QED
      BY <2>1, <2>2, <3>1, <3>2 DEF TriesInv, AtRowInv
  <2>4. WaitingInv'
    BY <2>1 DEF TriesInv, WaitingInv
  <2>5. QED
    BY <2>3, <2>4 DEF TriesInv
<1>5. ASSUME NEW d \in Dispatchers, NextMessage(d)
      PROVE  TriesInv'
  <2>1. PICK n \in dispatcher[d].todo :
          dispatcher' = [dispatcher EXCEPT ![d] =
            [pc |-> "publish", todo |-> @.todo \ {n}, at |-> n, attempts |-> row[n].attempts - 1]]
    BY <1>5 DEF NextMessage
  <2>2. n \in Messages /\ row[n].attempts \in Nat
    BY DEF OutboxInv, TypeOK, Dispatcher
  <2>3. /\ dispatcher'[d].at = n /\ dispatcher'[d].attempts = row[n].attempts - 1
        /\ \A g \in Dispatchers : g # d => dispatcher'[g] = dispatcher[g]
        /\ UNCHANGED <<row, published, reclaims>>
    BY <1>5, <2>1 DEF NextMessage, OutboxInv, TypeOK
  <2>4. AtRowInv'
    BY <2>2, <2>3 DEF TriesInv, AtRowInv
  <2>5. QED
    BY <2>3, <2>4 DEF TriesInv, WaitingInv
<1>6. ASSUME NEW d \in Dispatchers, PublishWithID(d) \/ PublishFails(d) \/ RecordDeath(d)
      PROVE  TriesInv'
  <2>1. \A m \in Messages : published[m] <= published'[m] /\ published'[m] \in Nat
    BY <1>6 DEF PublishWithID, PublishFails, RecordDeath, OutboxInv, TypeOK
  <2>2. dispatcher[d].pc \in AtRow /\ UNCHANGED <<row, reclaims>>
    BY <1>6 DEF PublishWithID, PublishFails, RecordDeath, AtRow
  <2>3. Goto(d, "mark") \/ Goto(d, "release") \/ Goto(d, "bury")
    BY <1>6 DEF PublishWithID, PublishFails, RecordDeath
  <2>4. QED
    BY <2>1, <2>2, <2>3, GotoKeepsTries
<1>7. ASSUME NEW d \in Dispatchers,
             MarkDispatched(d) \/ ReleaseForRetry(d) \/ BuryRow(d) \/ UpdateFails(d)
      PROVE  TriesInv'
  BY <1>7, EndOfRowKeepsTries
<1>8. ASSUME NEW d \in Dispatchers, UnlockDispatch(d) \/ CrashDispatcher(d)
      PROVE  TriesInv'
  <2>1. /\ \A g \in Dispatchers : g # d => dispatcher'[g] = dispatcher[g]
        /\ dispatcher'[d].pc = "idle"
        /\ UNCHANGED <<row, published, reclaims>>
    BY <1>8 DEF UnlockDispatch, CrashDispatcher, IdleDispatcher, OutboxInv, TypeOK
  <2>2. QED
    BY <2>1 DEF TriesInv, AtRowInv, WaitingInv, AtRow
<1>9. CASE DispatchLockExpires \/ UNCHANGED vars
  BY <1>9 DEF DispatchLockExpires, vars, TriesInv, AtRowInv, WaitingInv
<1>10. QED
  BY <1>1, <1>2, <1>3, <1>4, <1>5, <1>6, <1>7, <1>8, <1>9 DEF Next, DispatcherStep

LEMMA TriesStart == Init => TriesInv
BY DEF Init, TriesInv, AtRowInv, WaitingInv, IdleDispatcher, AtRow

(* A row given up without a dead letter is one the stream has had, and     *)
(* that a stale turn has put back since: failing to publish never uses up  *)
(* the attempts of a row, whatever the threshold, as long as it is not     *)
(* above max_attempts.                                                     *)
THEOREM ExhaustedRowsWerePublished == Spec => []ExhaustedWasPublished
<1>1. TypeOK /\ TriesInv => ExhaustedWasPublished
  BY OutboxAssumption DEF TriesInv, WaitingInv, ExhaustedWasPublished, Exhausted, TypeOK
<1>2. Spec => []TriesInv
  BY OutboxStart, OutboxStep, TriesStart, TriesStep, PTL DEF Spec
<1>3. QED
  BY <1>1, <1>2, TypeCorrect, PTL
=============================================================================
