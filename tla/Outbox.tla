------------------------------- MODULE Outbox -------------------------------
(***************************************************************************)
(* The local outbox async_messages and the loops that dispatch it to the   *)
(* Redis stream (internal/interview/service.go).  Every process runs a     *)
(* dispatcher; a Redis lock keeps them apart as long as it lives.          *)
(*                                                                         *)
(* A step is one SQL statement, one transaction or one Redis command.  A   *)
(* row that backs off is one that is not claimed yet.  The stream is the   *)
(* number of entries published for each message; module StreamGroup tells  *)
(* what becomes of them.  Payloads are encoded by the code that reads them *)
(* back, so markOutboxFailed, for rows that cannot be decoded, is left out. *)
(***************************************************************************)
EXTENDS Naturals, FiniteSets

CONSTANTS
  Messages,       \* outbox rows, one per answer (its dedup key)
  Dispatchers,    \* processes running dispatchOutboxLoop
  Threshold,      \* DeadLetterRetryThreshold
  MaxAttempts,    \* max_attempts of a row
  MaxReclaims,    \* bound on the times a message is reclaimed
  MaxFaults       \* bound on crashes and failed commands

ASSUME OutboxAssumption ==
  /\ Threshold \in Nat \ {0}
  /\ MaxAttempts \in Nat /\ Threshold <= MaxAttempts
  /\ MaxReclaims \in Nat
  /\ MaxFaults \in Nat
  /\ "none" \notin Messages \cup Dispatchers

None == "none"

VARIABLES
  row,            \* the outbox row of each message: status and attempts
  dispatchLock,   \* the Redis lock of the dispatch loops: who set it
  dispatcher,     \* each dispatcher: its step, its batch, the row it is at
  published,      \* how many stream entries each message has
  recorded,       \* messages with a row in dead_letter_events
  reclaims,       \* how often each message was reclaimed
  faults          \* crashes and failed commands so far

vars == <<row, dispatchLock, dispatcher, published, recorded, reclaims, faults>>

RowStatus == {"absent", "pending", "dispatching", "dispatched", "dead_letter"}

AtRow == {"publish", "mark", "release", "bury"}       \* steps on the row it is at

Dispatcher == [pc: {"idle", "locked", "next"} \cup AtRow,
               todo: SUBSET Messages, at: Messages \cup {None}, attempts: Nat]

IdleDispatcher == [pc |-> "idle", todo |-> {}, at |-> None, attempts |-> 0]

Init ==
  /\ row = [m \in Messages |-> [status |-> "absent", attempts |-> 0]]
  /\ dispatchLock = None
  /\ dispatcher = [d \in Dispatchers |-> IdleDispatcher]
  /\ published = [m \in Messages |-> 0]
  /\ recorded = {}
  /\ reclaims = [m \in Messages |-> 0]
  /\ faults = 0

Fault == faults < MaxFaults /\ faults' = faults + 1

Holds(d, m) == m \in dispatcher[d].todo \/ m = dispatcher[d].at

-----------------------------------------------------------------------------
(* What others do to the rows.                                             *)

(* In the transaction that accepts the answer; the dedup key is new.       *)
enqueueOutboxTx(m) ==
  /\ row[m].status = "absent"
  /\ row' = [row EXCEPT ![m].status = "pending"]
  /\ UNCHANGED <<dispatchLock, dispatcher, published, recorded, reclaims, faults>>

(* A turn found stale: the row is to be published once more, whatever its  *)
(* status; its attempts stay as they are.  Only a published message can    *)
(* have made its turn run, and that two minutes ago, when its dispatcher   *)
(* has long left it.                                                       *)
ReclaimMessage(m) ==
  /\ published[m] > 0
  /\ ~\E d \in Dispatchers : Holds(d, m)
  /\ reclaims[m] < MaxReclaims
  /\ row' = [row EXCEPT ![m].status = "pending"]
  /\ reclaims' = [reclaims EXCEPT ![m] = @ + 1]
  /\ UNCHANGED <<dispatchLock, dispatcher, published, recorded, faults>>

-----------------------------------------------------------------------------
(* dispatchOutboxLoop.                                                     *)

Goto(d, pc) == dispatcher' = [dispatcher EXCEPT ![d].pc = pc]

LockDispatch(d) ==
  /\ dispatcher[d].pc = "idle"
  /\ dispatchLock = None
  /\ dispatchLock' = d
  /\ Goto(d, "locked")
  /\ UNCHANGED <<row, published, recorded, reclaims, faults>>

(* The lock lives 10 seconds, less than a batch may take.                  *)
DispatchLockExpires ==
  /\ dispatchLock # None
  /\ dispatchLock' = None
  /\ UNCHANGED <<row, dispatcher, published, recorded, reclaims, faults>>

(* Variant: a row is given up before its retries are used up.              *)
ClaimableTooFewTimes(m) == row[m].status = "pending" /\ row[m].attempts + 1 < Threshold

Claimable(m) == row[m].status = "pending" /\ row[m].attempts < MaxAttempts

(* Variant: the rows claimed are not marked.                               *)
claimOutboxMessagesUnmarked(d, claimed) ==
  /\ dispatcher[d].pc = "locked"
  /\ \A m \in claimed : Claimable(m)
  /\ row' = [m \in Messages |->
               IF m \in claimed THEN [row[m] EXCEPT !.attempts = @ + 1] ELSE row[m]]
  /\ dispatcher' = [dispatcher EXCEPT ![d].todo = claimed, ![d].pc = "next"]
  /\ UNCHANGED <<dispatchLock, published, recorded, reclaims, faults>>

(* claimOutboxMessages: some of the claimable rows, for a row may back off *)
(* or be locked by another claim, which SKIP LOCKED passes over.           *)
claimOutboxMessages(d, claimed) ==
  /\ dispatcher[d].pc = "locked"
  /\ \A m \in claimed : Claimable(m)
  /\ row' = [m \in Messages |->
               IF m \in claimed
               THEN [status |-> "dispatching", attempts |-> row[m].attempts + 1] ELSE row[m]]
  /\ dispatcher' = [dispatcher EXCEPT ![d].todo = claimed, ![d].pc = "next"]
  /\ UNCHANGED <<dispatchLock, published, recorded, reclaims, faults>>

(* Variant: the row is marked before it is published.                      *)
NextMessageMarksFirst(d) ==
  /\ dispatcher[d].pc = "next"
  /\ \E m \in dispatcher[d].todo :
       /\ row' = [row EXCEPT ![m].status = "dispatched"]
       /\ dispatcher' = [dispatcher EXCEPT ![d] =
            [pc |-> "publish", todo |-> @.todo \ {m}, at |-> m, attempts |-> row[m].attempts - 1]]
  /\ UNCHANGED <<dispatchLock, published, recorded, reclaims, faults>>

(* The next row of the batch, with the attempts read before the claim.     *)
NextMessage(d) ==
  /\ dispatcher[d].pc = "next"
  /\ \E m \in dispatcher[d].todo :
       dispatcher' = [dispatcher EXCEPT ![d] =
         [pc |-> "publish", todo |-> @.todo \ {m}, at |-> m, attempts |-> row[m].attempts - 1]]
  /\ UNCHANGED <<row, dispatchLock, published, recorded, reclaims, faults>>

Proceed(d) ==
  dispatcher' = [dispatcher EXCEPT ![d].pc = "next", ![d].at = None, ![d].attempts = 0]

PublishWithID(d) ==
  /\ dispatcher[d].pc = "publish"
  /\ published' = [published EXCEPT ![dispatcher[d].at] = @ + 1]
  /\ Goto(d, "mark")
  /\ UNCHANGED <<row, dispatchLock, recorded, reclaims, faults>>

(* XADD returns an error, after it took effect or not.                     *)
PublishFails(d) ==
  /\ dispatcher[d].pc = "publish"
  /\ Fault
  /\ \/ published' = [published EXCEPT ![dispatcher[d].at] = @ + 1]
     \/ UNCHANGED published
  /\ Goto(d, "release")
  /\ UNCHANGED <<row, dispatchLock, recorded, reclaims>>

MarkDispatched(d) ==
  /\ dispatcher[d].pc = "mark"
  /\ row' = [row EXCEPT ![dispatcher[d].at].status = "dispatched"]
  /\ Proceed(d)
  /\ UNCHANGED <<dispatchLock, published, recorded, reclaims, faults>>

(* Variant: the attempt that just failed is not counted.                   *)
OutOfRetriesLater(d) == dispatcher[d].attempts >= Threshold

(* releaseOutboxForRetry: back to pending below the threshold ...          *)
OutOfRetries(d) == dispatcher[d].attempts + 1 >= Threshold

ReleaseForRetry(d) ==
  /\ dispatcher[d].pc = "release" /\ ~OutOfRetries(d)
  /\ row' = [row EXCEPT ![dispatcher[d].at].status = "pending"]
  /\ Proceed(d)
  /\ UNCHANGED <<dispatchLock, published, recorded, reclaims, faults>>

(* ... and at it the upsert of the event, whose error is ignored, ...      *)
RecordDeath(d) ==
  /\ dispatcher[d].pc = "release" /\ OutOfRetries(d)
  /\ \/ recorded' = recorded \cup {dispatcher[d].at} /\ UNCHANGED faults
     \/ Fault /\ UNCHANGED recorded
  /\ Goto(d, "bury")
  /\ UNCHANGED <<row, dispatchLock, published, reclaims>>

(* Variant: the row gets a status of its own.                              *)
BuryRowAsFailed(d) ==
  /\ dispatcher[d].pc = "bury"
  /\ row' = [row EXCEPT ![dispatcher[d].at] =
               [status |-> "failed", attempts |-> dispatcher[d].attempts + 1]]
  /\ Proceed(d)
  /\ UNCHANGED <<dispatchLock, published, recorded, reclaims, faults>>

(* ... and then the row.                                                   *)
BuryRow(d) ==
  /\ dispatcher[d].pc = "bury"
  /\ row' = [row EXCEPT ![dispatcher[d].at] =
               [status |-> "dead_letter", attempts |-> dispatcher[d].attempts + 1]]
  /\ Proceed(d)
  /\ UNCHANGED <<dispatchLock, published, recorded, reclaims, faults>>

(* The UPDATE that ends with a row fails; its error is ignored as well.    *)
UpdateFails(d) ==
  /\ \/ dispatcher[d].pc \in {"mark", "bury"}
     \/ dispatcher[d].pc = "release" /\ ~OutOfRetries(d)
  /\ Fault
  /\ Proceed(d)
  /\ UNCHANGED <<row, dispatchLock, published, recorded, reclaims>>

UnlockDispatch(d) ==
  /\ dispatcher[d].pc = "next" /\ dispatcher[d].todo = {}
  /\ dispatchLock' = IF dispatchLock = d THEN None ELSE dispatchLock
  /\ dispatcher' = [dispatcher EXCEPT ![d] = IdleDispatcher]
  /\ UNCHANGED <<row, published, recorded, reclaims, faults>>

CrashDispatcher(d) ==
  /\ dispatcher[d].pc # "idle"
  /\ Fault
  /\ dispatcher' = [dispatcher EXCEPT ![d] = IdleDispatcher]
  /\ UNCHANGED <<row, dispatchLock, published, recorded, reclaims>>

-----------------------------------------------------------------------------

DispatcherStep(d) ==
  \/ LockDispatch(d) \/ \E claimed \in SUBSET Messages : claimOutboxMessages(d, claimed)
  \/ NextMessage(d) \/ PublishWithID(d) \/ MarkDispatched(d) \/ ReleaseForRetry(d)
  \/ RecordDeath(d) \/ BuryRow(d) \/ UnlockDispatch(d)

Next ==
  \/ \E m \in Messages : enqueueOutboxTx(m) \/ ReclaimMessage(m)
  \/ \E d \in Dispatchers :
       DispatcherStep(d) \/ PublishFails(d) \/ UpdateFails(d) \/ CrashDispatcher(d)
  \/ DispatchLockExpires

Spec == Init /\ [][Next]_vars

(* The loops run on, the lock expires, and no row that can be claimed      *)
(* again and again is passed over for ever: the oldest are claimed first.  *)
Fairness ==
  /\ \A d \in Dispatchers : WF_vars(DispatcherStep(d))
  /\ \A m \in Messages :
       SF_vars(\E d \in Dispatchers, claimed \in SUBSET Messages :
                 m \in claimed /\ claimOutboxMessages(d, claimed))
  /\ WF_vars(DispatchLockExpires)

FairSpec == Spec /\ Fairness

-----------------------------------------------------------------------------
(* Properties.                                                             *)

TypeOK ==
  /\ row \in [Messages -> [status: RowStatus, attempts: Nat]]
  /\ dispatchLock \in Dispatchers \cup {None}
  /\ dispatcher \in [Dispatchers -> Dispatcher]
  /\ \A d \in Dispatchers :
       dispatcher[d].pc \in AtRow => dispatcher[d].at \in Messages
  /\ published \in [Messages -> Nat]
  /\ recorded \subseteq Messages
  /\ reclaims \in [Messages -> Nat]
  /\ faults \in Nat

(* Two dispatchers never hold the same row, although the lock may expire   *)
(* in the middle of a batch: the claim itself keeps them apart.            *)
RowsClaimedOnce ==
  \A d, g \in Dispatchers, m \in Messages : Holds(d, m) /\ Holds(g, m) => d = g

(* A message is published no more often than it was enqueued, reclaimed,   *)
(* or an XADD of it reported an error after taking effect.                 *)
NoSpuriousCopies ==
  \A m \in Messages : published[m] <= 1 + reclaims[m] + faults

(* A dispatched row was published, whatever failed in between: the outbox  *)
(* never forgets a message that the stream does not have.                  *)
DispatchedIsPublished ==
  \A m \in Messages : row[m].status = "dispatched" => published[m] > 0

(* The row no dispatcher will look at again: claimed, and its dispatcher   *)
(* died or failed to write what became of it.                              *)
Orphaned(m) ==
  row[m].status = "dispatching" /\ ~\E d \in Dispatchers : Holds(d, m)

(* Every claim counts as an attempt, a successful one too, and a reclaim   *)
(* takes none back: a row can end pending with its attempts used up, and   *)
(* then no claim ever selects it again (claimOutboxMessages).              *)
Exhausted(m) == row[m].status = "pending" /\ row[m].attempts >= MaxAttempts

(* Failures alone never get a row there: the dead letters, whose threshold *)
(* is lower, take it first.  A row that is silently given up is one that   *)
(* was published, and reclaimed since.                                     *)
ExhaustedWasPublished ==
  \A m \in Messages : Exhausted(m) => published[m] > 0 /\ reclaims[m] > 0

(* Whatever fails and however often rows are reclaimed, a row is in the    *)
(* end dispatched or dead, or nobody looks at it any more: orphaned, or    *)
(* exhausted although the stream has had it.                               *)
EveryRowSettles ==
  \A m \in Messages :
    row[m].status = "pending" ~> \/ row[m].status \in {"dispatched", "dead_letter"}
                                 \/ Orphaned(m)
                                 \/ Exhausted(m) /\ published[m] > 0

(* The same without orphans: what the outbox is for.  Violated by a        *)
(* dispatcher that dies after its claim: see the run outbox_drains.        *)
OutboxDrains ==
  \A m \in Messages :
    row[m].status = "pending" ~> published[m] > 0 \/ row[m].status = "dead_letter"
=============================================================================
