---------------------------- MODULE StreamGroup ----------------------------
(***************************************************************************)
(* The Redis stream between the outbox and ProcessTurn: the consumer group *)
(* of the workers, the redelivery of what they leave unacknowledged, and   *)
(* the way of what nobody can process to the dead-letter stream and the    *)
(* table dead_letter_events (internal/interview/service.go,                *)
(* internal/workqueue/stream.go).                                          *)
(*                                                                         *)
(* A process runs two loops that handle entries: one reads the group, the  *)
(* other sweeps out poison entries and claims entries left pending.  A     *)
(* step is one Redis command or one upsert.  An entry is its position in   *)
(* the stream; what a handler does is whether it returns nil.  That an     *)
(* entry is idle for 30 seconds is a choice: one that waits in a long      *)
(* batch is no different from one whose consumer died.  Delivery counts    *)
(* matter up to the threshold.  Trimming of the dead-letter stream (at     *)
(* 10000 unrecorded copies) is left out.                                   *)
(***************************************************************************)
EXTENDS Naturals, FiniteSets

CONSTANTS
  Processes,      \* processes running StartWorker
  MaxEntries,     \* bound on the entries ever published
  MaxLen,         \* length at which XADD trims the stream
  BatchSize,      \* COUNT of a read, a claim and a sweep
  Threshold,      \* MaxDeliveries
  MaxFaults       \* bound on crashes and failed commands

ASSUME GroupAssumption ==
  /\ MaxEntries \in Nat /\ MaxFaults \in Nat
  /\ MaxLen \in Nat \ {0}
  /\ BatchSize \in Nat \ {0}
  /\ Threshold \in Nat \ {0}

Entries == 1 .. MaxEntries

VARIABLES
  length,         \* entries published so far
  trimmed,        \* the entries up to this one are gone from the stream
  delivered,      \* the last entry the group has handed out
  deliveries,     \* delivery count of each pending entry, 0 if not pending
  loops,          \* each process: the batches and the sweep of its two loops
  done,           \* entries some handler returned nil for
  dead,           \* entries with an unacknowledged copy in the dead-letter stream
  recorded,       \* entries with a row in dead_letter_events
  faults          \* crashes and failed commands so far

vars == <<length, trimmed, delivered, deliveries, loops, done, dead, recorded, faults>>

(* reading, claimed: what is left of the batch of each loop; poison: what  *)
(* is left of the sweep; buried: its first entry is in the dead letters.   *)
Loops == [reading: SUBSET Entries, claimed: SUBSET Entries, poison: SUBSET Entries,
          pc: {"idle", "sweep", "buried"}]

IdleLoops == [reading |-> {}, claimed |-> {}, poison |-> {}, pc |-> "idle"]

Init ==
  /\ length = 0 /\ trimmed = 0 /\ delivered = 0
  /\ deliveries = [e \in Entries |-> 0]
  /\ loops = [p \in Processes |-> IdleLoops]
  /\ done = {} /\ dead = {} /\ recorded = {}
  /\ faults = 0

Pending(e) == deliveries[e] > 0
InStream(e) == trimmed < e /\ e <= length

(* Batches and sweeps are handled in stream order.                         *)
First(S) == CHOOSE e \in S : \A f \in S : e <= f

(* Variant: a claim does not count as a delivery.                          *)
BumpNot(n) == n

Bump(n) == IF n < Threshold THEN n + 1 ELSE n

(* XACK.                                                                   *)
Ack(e) == deliveries' = [deliveries EXCEPT ![e] = 0]

Fault == faults < MaxFaults /\ faults' = faults + 1

-----------------------------------------------------------------------------

(* PublishWithID: XADD trims approximately, to MaxLen or to anything more. *)
Publish ==
  /\ length < MaxEntries
  /\ length' = length + 1
  /\ trimmed' \in {k \in trimmed .. length : k = trimmed \/ k + MaxLen <= length'}
  /\ UNCHANGED <<delivered, deliveries, loops, done, dead, recorded, faults>>

(* ReadGroup: the next entries nobody has been given yet.                  *)
ReadGroup(p) ==
  LET unread == {e \in Entries : InStream(e) /\ delivered < e}
      batch  == {e \in unread : Cardinality({f \in unread : f <= e}) <= BatchSize}
  IN
  /\ loops[p].reading = {} /\ batch # {}
  /\ delivered' = CHOOSE e \in batch : \A f \in batch : f <= e
  /\ deliveries' = [e \in Entries |-> IF e \in batch THEN 1 ELSE deliveries[e]]
  /\ loops' = [loops EXCEPT ![p].reading = batch]
  /\ UNCHANGED <<length, trimmed, done, dead, recorded, faults>>

(* handleMessages: an entry is acknowledged if its handler returned nil.   *)
(* XACK is idempotent, so it does not matter who else has the entry.       *)
Handle(p, batch) ==
  LET e == First(loops[p][batch]) IN
  /\ loops[p][batch] # {}
  /\ \/ Ack(e) /\ done' = done \cup {e} /\ UNCHANGED faults
     \/ Fault /\ done' = done \cup {e} /\ UNCHANGED deliveries   \* the XACK fails
     \/ UNCHANGED <<deliveries, done, faults>>                   \* the handler does
  /\ loops' = [loops EXCEPT ![p][batch] = @ \ {e}]
  /\ UNCHANGED <<length, trimmed, delivered, dead, recorded>>

-----------------------------------------------------------------------------
(* reclaimPendingLoop, once its last batch is handled.                     *)

(* XPENDING: some entries that are pending and delivered often enough.     *)
PendingOverDelivery(p, poison) ==
  /\ loops[p].pc = "idle" /\ loops[p].claimed = {}
  /\ Cardinality(poison) <= BatchSize
  /\ \A e \in poison : deliveries[e] >= Threshold
  /\ loops' = [loops EXCEPT ![p].poison = poison, ![p].pc = "sweep"]
  /\ UNCHANGED <<length, trimmed, delivered, deliveries, done, dead, recorded, faults>>

(* Variant: the sweep does not leave the entry behind.                     *)
SkipWithoutLeaving(p, e) == loops' = [loops EXCEPT ![p].poison = @ \ {e}]

Skip(p, e) == loops' = [loops EXCEPT ![p].poison = @ \ {e}, ![p].pc = "sweep"]

(* Variant: the error of the XADD does not keep it from acknowledging.     *)
DeadLetterByIDRegardless(p) ==
  LET e == First(loops[p].poison) IN
  /\ loops[p].pc = "sweep" /\ loops[p].poison # {}
  /\ \/ dead' = dead \cup {e} /\ UNCHANGED faults
     \/ Fault /\ UNCHANGED dead
  /\ loops' = [loops EXCEPT ![p].pc = "buried"]
  /\ UNCHANGED <<length, trimmed, delivered, deliveries, done, recorded>>

(* DeadLetterByID: the entry, as XRANGE still has it, goes to the          *)
(* dead-letter stream, whatever has become of it since XPENDING ...        *)
DeadLetterByID(p) ==
  LET e == First(loops[p].poison) IN
  /\ loops[p].pc = "sweep" /\ loops[p].poison # {}
  /\ \/ /\ InStream(e)
        /\ dead' = dead \cup {e}
        /\ loops' = [loops EXCEPT ![p].pc = "buried"]
        /\ UNCHANGED faults
     \/ /\ IF InStream(e) THEN Fault ELSE UNCHANGED faults
        /\ Skip(p, e)
        /\ UNCHANGED dead
  /\ UNCHANGED <<length, trimmed, delivered, deliveries, done, recorded>>

(* ... and is then acknowledged.  If that fails it is buried again later.  *)
AckBuried(p) ==
  LET e == First(loops[p].poison) IN
  /\ loops[p].pc = "buried"
  /\ \/ Ack(e) /\ UNCHANGED faults
     \/ Fault /\ UNCHANGED deliveries
  /\ Skip(p, e)
  /\ UNCHANGED <<length, trimmed, delivered, done, dead, recorded>>

(* XAUTOCLAIM: entries idle for 30 seconds, whoever has them; those that   *)
(* were trimmed are not returned and no longer pending.                    *)
ClaimPending(p, idle) ==
  LET live == {e \in idle : InStream(e)} IN
  /\ loops[p].pc = "sweep" /\ loops[p].poison = {}
  /\ Cardinality(live) <= BatchSize
  /\ \A e \in idle : Pending(e)
  /\ deliveries' = [e \in Entries |-> IF e \in live THEN Bump(deliveries[e])
                                      ELSE IF e \in idle THEN 0 ELSE deliveries[e]]
  /\ loops' = [loops EXCEPT ![p].claimed = live, ![p].pc = "idle"]
  /\ UNCHANGED <<length, trimmed, delivered, done, dead, recorded, faults>>

Crash(p) ==
  /\ loops[p] # IdleLoops
  /\ Fault
  /\ loops' = [loops EXCEPT ![p] = IdleLoops]
  /\ UNCHANGED <<length, trimmed, delivered, deliveries, done, dead, recorded>>

-----------------------------------------------------------------------------
(* deadLetterAnalysisLoop.  The upsert is keyed by the original entry, so  *)
(* copies of an entry are all the same; a copy is read again until acked.  *)

persistDeadLetterMessage(e) ==
  /\ e \in dead
  /\ recorded' = recorded \cup {e}
  /\ UNCHANGED <<length, trimmed, delivered, deliveries, loops, done, dead, faults>>

AckDeadLetter(e) ==
  /\ e \in dead /\ e \in recorded
  /\ dead' = dead \ {e}
  /\ UNCHANGED <<length, trimmed, delivered, deliveries, loops, done, recorded, faults>>

-----------------------------------------------------------------------------

Sweep(p) ==
  \/ \E S \in SUBSET Entries : PendingOverDelivery(p, S) \/ ClaimPending(p, S)
  \/ DeadLetterByID(p) \/ AckBuried(p)

Next ==
  \/ Publish
  \/ \E p \in Processes :
       \/ ReadGroup(p) \/ Handle(p, "reading") \/ Handle(p, "claimed")
       \/ Sweep(p) \/ Crash(p)
  \/ \E e \in Entries : persistDeadLetterMessage(e) \/ AckDeadLetter(e)

Spec == Init /\ [][Next]_vars

(* The loops run on.  Both XPENDING and XAUTOCLAIM start at the oldest     *)
(* entry: one that stays idle is taken in the end.                         *)
Fairness ==
  /\ \A p \in Processes :
       /\ WF_vars(ReadGroup(p)) /\ WF_vars(Handle(p, "reading"))
       /\ WF_vars(Handle(p, "claimed")) /\ WF_vars(Sweep(p))
  /\ \A e \in Entries :
       /\ SF_vars(\E p \in Processes, S \in SUBSET Entries :
                    e \in S /\ PendingOverDelivery(p, S))
       /\ SF_vars(\E p \in Processes, S \in SUBSET Entries : e \in S /\ ClaimPending(p, S))
       /\ WF_vars(persistDeadLetterMessage(e)) /\ WF_vars(AckDeadLetter(e))

FairSpec == Spec /\ Fairness

-----------------------------------------------------------------------------
(* Properties.                                                             *)

TypeOK ==
  /\ length \in 0 .. MaxEntries
  /\ trimmed \in 0 .. length
  /\ delivered \in 0 .. length
  /\ deliveries \in [Entries -> 0 .. Threshold]
  /\ loops \in [Processes -> Loops]
  /\ \A p \in Processes : loops[p].pc = "buried" => loops[p].poison # {}
  /\ done \subseteq Entries /\ dead \subseteq Entries /\ recorded \subseteq Entries
  /\ faults \in Nat

(* Between its publication and its end no entry falls between two steps,   *)
(* whoever crashes and whatever fails: it is unread, or pending, or was    *)
(* handled, or is a dead letter, or more than MaxLen entries came after it. *)
NothingLost ==
  \A e \in 1 .. length :
    \/ delivered < e \/ Pending(e)
    \/ e \in done \cup dead \cup recorded
    \/ e + MaxLen <= length

(* Whatever its handlers return, an entry is in the end handled, recorded  *)
(* as a dead letter, or trimmed: none is redelivered for ever, and none is *)
(* left pending by a crash.                                                *)
EveryEntrySettles ==
  \A e \in Entries : e <= length ~> e \in done \cup recorded \/ e <= trimmed
=============================================================================
