-------------------------- MODULE StreamGroupProofs --------------------------
(***************************************************************************)
(* Theorems about StreamGroup, for every number of processes, entries and  *)
(* faults, every batch size, threshold and length of the stream.           *)
(***************************************************************************)
EXTENDS StreamGroup, FiniteSetTheorems, WellFoundedInduction, TLAPS

(* The usual order of the natural numbers is well-founded.                 *)
Less == {ss \in Nat \X Nat : ss[1] < ss[2]}

LEMMA LessWellFounded == IsWellFoundedOn(Less, Nat)
BY NatLessThanWellFounded DEF OpToRel, Less

(* A set of natural numbers that is not empty has a least element.         *)
LEMMA LeastElement ==
  ASSUME NEW T, T \subseteq Nat, T # {}
  PROVE  \E x \in T : \A y \in T : x <= y
<1>1. PICK x \in T : \A y \in T : ~(<<y, x>> \in Less)
  BY LessWellFounded, WFMin
<1>2. ASSUME NEW y \in T PROVE x <= y
  <2>1. y \in Nat /\ x \in Nat
    OBVIOUS
  <2>2. y < x => <<y, x>> \in Less
    BY <2>1 DEF Less
  <2>3. QED
    BY <1>1, <2>1, <2>2
<1>3. QED
  BY <1>2

(* The first of some entries is one of them.                               *)
LEMMA FirstIn ==
  ASSUME NEW S \in SUBSET Entries, S # {}
  PROVE  First(S) \in S
<1>1. S \subseteq Nat
  BY GroupAssumption DEF Entries
<1>2. QED
  BY <1>1, LeastElement DEF First

(* The last of some entries, as ReadGroup takes it, exists as well.        *)
LEMMA LastIn ==
  ASSUME NEW S \in SUBSET Entries, S # {}
  PROVE  /\ (CHOOSE e \in S : \A f \in S : f <= e) \in S
         /\ \A g \in S : g <= (CHOOSE e \in S : \A f \in S : f <= e)
<1> DEFINE Above == {n \in Nat : \A f \in S : f <= n}
<1>1. MaxEntries \in Above
  BY GroupAssumption DEF Entries
<1>2. PICK n \in Above : \A k \in Above : n <= k
  BY <1>1, LeastElement
<1>3. n \in S
  <2>1. SUFFICES ASSUME n \notin S PROVE FALSE
    OBVIOUS
  <2>2. \A f \in S : f \in Nat /\ f > 0 /\ f <= n /\ f # n
    BY <2>1, GroupAssumption DEF Entries
  <2>3. n - 1 \in Nat /\ \A f \in S : f <= n - 1
    BY <2>2
  <2>4. n - 1 \in Above
    BY <2>3
  <2>5. QED
    BY <1>2, <2>4
<1>4. \E e \in S : \A f \in S : f <= e
  BY <1>2, <1>3
<1>5. QED
  BY <1>4

-----------------------------------------------------------------------------
(* What a process does to its loops keeps their type.                      *)
LEMMA LoopsUpdate ==
  ASSUME loops \in [Processes -> Loops], NEW p \in Processes,
         NEW S \in SUBSET Entries, NEW pc \in {"idle", "sweep", "buried"},
         \/ loops' = [loops EXCEPT ![p].reading = S]
         \/ loops' = [loops EXCEPT ![p].claimed = S, ![p].pc = pc]
         \/ loops' = [loops EXCEPT ![p].poison = S, ![p].pc = pc]
  PROVE  loops' \in [Processes -> Loops]
BY DEF Loops

(* Handling leaves a batch smaller.                                        *)
LEMMA HandleLoops ==
  ASSUME loops \in [Processes -> Loops], NEW p \in Processes, NEW batch \in {"reading", "claimed"},
         NEW e, loops' = [loops EXCEPT ![p][batch] = @ \ {e}]
  PROVE  /\ loops' \in [Processes -> Loops]
         /\ \A q \in Processes : /\ loops'[q].pc = loops[q].pc
                                 /\ loops'[q].poison = loops[q].poison
<1>1. CASE batch = "reading"
  BY <1>1 DEF Loops
<1>2. CASE batch = "claimed"
  BY <1>2 DEF Loops
<1>3. QED
  BY <1>1, <1>2

(* The type invariant, one case for each action.                           *)
LEMMA TypeStep ==
  ASSUME TypeOK, [Next]_vars
  PROVE  TypeOK'
<1> USE GroupAssumption
<1>1. CASE Publish
  BY <1>1 DEF Publish, TypeOK, Entries
<1>2. ASSUME NEW p \in Processes, ReadGroup(p)
      PROVE  TypeOK'
  <2> DEFINE unread == {e \in Entries : InStream(e) /\ delivered < e}
             batch  == {e \in unread : Cardinality({f \in unread : f <= e}) <= BatchSize}
  <2>1. batch \in SUBSET Entries /\ batch # {}
    BY <1>2 DEF ReadGroup
  <2>2. delivered' \in batch
    BY <1>2, <2>1, LastIn DEF ReadGroup
  <2>3. delivered' \in 0 .. length'
    BY <1>2, <2>2 DEF ReadGroup, InStream, Entries, TypeOK
  <2>4. deliveries' \in [Entries -> 0 .. Threshold]
    BY <1>2 DEF ReadGroup, TypeOK
  <2>5. /\ loops' \in [Processes -> Loops]
        /\ \A q \in Processes : /\ loops'[q].pc = loops[q].pc
                                /\ loops'[q].poison = loops[q].poison
    <3>1. loops' = [loops EXCEPT ![p].reading = batch]
      BY <1>2 DEF ReadGroup
    <3>2. QED
      BY <2>1, <3>1, LoopsUpdate DEF TypeOK, Loops
  <2>6. QED
    BY <1>2, <2>3, <2>4, <2>5 DEF ReadGroup, TypeOK
<1>3. ASSUME NEW p \in Processes, NEW batch \in {"reading", "claimed"}, Handle(p, batch)
      PROVE  TypeOK'
  <2> DEFINE e == First(loops[p][batch])
  <2>1. e \in Entries
    BY <1>3, FirstIn DEF Handle, TypeOK, Loops
  <2>2. deliveries' \in [Entries -> 0 .. Threshold]
    BY <1>3, <2>1 DEF Handle, Ack, TypeOK
  <2>3. done' \subseteq Entries /\ faults' \in Nat
    BY <1>3, <2>1 DEF Handle, Fault, TypeOK
  <2>4. loops' = [loops EXCEPT ![p][batch] = @ \ {e}]
    BY <1>3 DEF Handle
  <2>5. QED
    BY <1>3, <2>2, <2>3, <2>4, HandleLoops DEF Handle, TypeOK
<1>4. ASSUME NEW p \in Processes, NEW S \in SUBSET Entries, PendingOverDelivery(p, S)
      PROVE  TypeOK'
  <2>1. loops' \in [Processes -> Loops]
    BY <1>4, LoopsUpdate DEF PendingOverDelivery, TypeOK
  <2>2. \A q \in Processes : loops'[q].pc = "buried" => loops'[q].poison # {}
    BY <1>4 DEF PendingOverDelivery, TypeOK, Loops
  <2>3. QED
    BY <1>4, <2>1, <2>2 DEF PendingOverDelivery, TypeOK
<1>5. ASSUME NEW p \in Processes, NEW S \in SUBSET Entries, ClaimPending(p, S)
      PROVE  TypeOK'
  <2> DEFINE live == {e \in S : InStream(e)}
  <2>1. /\ loops' = [loops EXCEPT ![p].claimed = live, ![p].pc = "idle"]
        /\ live \in SUBSET Entries
    BY <1>5 DEF ClaimPending
  <2>2. loops' \in [Processes -> Loops]
    BY <2>1, LoopsUpdate DEF TypeOK
  <2>3. \A q \in Processes : loops'[q].pc = "buried" => loops'[q].poison # {}
    BY <2>1 DEF TypeOK, Loops
  <2>4. deliveries' \in [Entries -> 0 .. Threshold]
    BY <1>5 DEF ClaimPending, TypeOK, Bump
  <2>5. QED
    BY <1>5, <2>2, <2>3, <2>4 DEF ClaimPending, TypeOK
<1>6. ASSUME NEW p \in Processes, DeadLetterByID(p)
      PROVE  TypeOK'
  <2> DEFINE e == First(loops[p].poison)
  <2>1. e \in Entries /\ loops[p].poison # {} /\ loops[p] \in Loops
    BY <1>6, FirstIn DEF DeadLetterByID, TypeOK, Loops
  <2>2. dead' \subseteq Entries /\ faults' \in Nat
    BY <1>6, <2>1 DEF DeadLetterByID, TypeOK, Fault
  <2>3. \/ loops' = [loops EXCEPT ![p].pc = "buried"]
        \/ loops' = [loops EXCEPT ![p].poison = @ \ {e}, ![p].pc = "sweep"]
    BY <1>6 DEF DeadLetterByID, Skip
  <2>4. /\ loops' \in [Processes -> Loops]
        /\ \A q \in Processes : loops'[q].pc = "buried" => loops'[q].poison # {}
    BY <2>1, <2>3 DEF TypeOK, Loops
  <2>5. QED
    BY <1>6, <2>2, <2>4 DEF DeadLetterByID, TypeOK
<1>7. ASSUME NEW p \in Processes, AckBuried(p)
      PROVE  TypeOK'
  <2> DEFINE e == First(loops[p].poison)
  <2>1. loops' = [loops EXCEPT ![p].poison = @ \ {e}, ![p].pc = "sweep"]
    BY <1>7 DEF AckBuried, Skip
  <2>2. /\ loops' \in [Processes -> Loops]
        /\ \A q \in Processes : loops'[q].pc = "buried" => loops'[q].poison # {}
    BY <2>1 DEF TypeOK, Loops
  <2>3. deliveries' \in [Entries -> 0 .. Threshold] /\ faults' \in Nat
    BY <1>7 DEF AckBuried, Ack, Fault, TypeOK
  <2>4. QED
    BY <1>7, <2>2, <2>3 DEF AckBuried, TypeOK
<1>8. ASSUME NEW p \in Processes, Crash(p)
      PROVE  TypeOK'
  <2>1. /\ loops' \in [Processes -> Loops]
        /\ \A q \in Processes : loops'[q].pc = "buried" => loops'[q].poison # {}
    BY <1>8 DEF Crash, TypeOK, IdleLoops, Loops
  <2>2. QED
    BY <1>8, <2>1 DEF Crash, Fault, TypeOK
<1>9. ASSUME NEW e \in Entries, persistDeadLetterMessage(e) \/ AckDeadLetter(e)
      PROVE  TypeOK'
  BY <1>9 DEF persistDeadLetterMessage, AckDeadLetter, TypeOK
<1>10. CASE UNCHANGED vars
  BY <1>10 DEF vars, TypeOK
<1>11. QED
  BY <1>1, <1>2, <1>3, <1>4, <1>5, <1>6, <1>7, <1>8, <1>9, <1>10 DEF Next, Sweep

(* Type correctness.                                                       *)
THEOREM TypeCorrect == Spec => []TypeOK
<1>1. Init => TypeOK
  BY GroupAssumption DEF Init, TypeOK, IdleLoops, Loops
<1>2. QED
  BY <1>1, TypeStep, PTL DEF Spec

-----------------------------------------------------------------------------
(* What NothingLost rests on: only what is too far back was trimmed, only  *)
(* what was handed out is pending, and a loop acknowledges an entry it     *)
(* gave up only after the entry's copy is in the dead letters.             *)
TrimmedInv == trimmed = 0 \/ trimmed + MaxLen <= length

PendingInv == \A e \in Entries : Pending(e) => e <= delivered

BuriedInv ==
  \A p \in Processes : loops[p].pc = "buried" => First(loops[p].poison) \in dead \cup recorded

GroupInv == TrimmedInv /\ PendingInv /\ BuriedInv /\ NothingLost

(* A step that keeps the stream, the deliveries, the sweeps and the fates. *)
LEMMA FatesKept ==
  ASSUME TypeOK, GroupInv,
         UNCHANGED <<length, trimmed, delivered, deliveries>>,
         done \subseteq done', dead \cup recorded \subseteq dead' \cup recorded',
         \A p \in Processes : loops'[p].pc = "buried" =>
            loops[p].pc = "buried" /\ loops'[p].poison = loops[p].poison
  PROVE  GroupInv'
BY DEF GroupInv, TrimmedInv, PendingInv, BuriedInv, NothingLost, Pending

(* An entry loses its place in the group when its fate is settled.         *)
LEMMA AckKeeps ==
  ASSUME TypeOK, GroupInv, NEW e,
         Ack(e), UNCHANGED <<length, trimmed, delivered>>,
         done \subseteq done', UNCHANGED <<dead, recorded>>,
         e \in done' \cup dead \cup recorded,
         \A p \in Processes : loops'[p].pc = "buried" =>
            loops[p].pc = "buried" /\ loops'[p].poison = loops[p].poison
  PROVE  GroupInv'
<1>1. \A f \in Entries : deliveries'[f] = IF f = e THEN 0 ELSE deliveries[f]
  BY DEF Ack, TypeOK
<1>2. PendingInv'
  BY <1>1, GroupAssumption DEF GroupInv, PendingInv, Pending
<1>3. NothingLost'
  <2>1. \A f \in 1 .. length : f \in Entries
    BY GroupAssumption DEF TypeOK, Entries
  <2>2. QED
    BY <1>1, <2>1 DEF GroupInv, NothingLost, Pending
<1>4. QED
  BY <1>2, <1>3 DEF GroupInv, TrimmedInv, BuriedInv

(* Reading takes the oldest unread entries, without a gap.                 *)
LEMMA ReadKeeps ==
  ASSUME TypeOK, GroupInv, NEW p \in Processes, ReadGroup(p)
  PROVE  GroupInv'
<1> USE GroupAssumption
<1> DEFINE unread == {e \in Entries : InStream(e) /\ delivered < e}
           upto(e) == {f \in unread : f <= e}
           batch  == {e \in unread : Cardinality(upto(e)) <= BatchSize}
<1>1. batch \in SUBSET Entries /\ batch # {}
  BY DEF ReadGroup
<1>2. delivered' \in batch
  BY <1>1, LastIn DEF ReadGroup
<1>3. \A e \in unread : e <= delivered' => e \in batch
  <2> SUFFICES ASSUME NEW e \in unread, e <= delivered' PROVE e \in batch
    OBVIOUS
  <2>1. IsFiniteSet(upto(delivered'))
    <3>1. IsFiniteSet(1 .. MaxEntries)
      BY FS_Interval
    <3>2. QED
      BY <3>1, FS_Subset DEF Entries
  <2>2. upto(e) \subseteq upto(delivered')
    BY <1>2 DEF Entries
  <2>3. /\ Cardinality(upto(e)) <= Cardinality(upto(delivered'))
        /\ Cardinality(upto(e)) \in Nat /\ Cardinality(upto(delivered')) \in Nat
    BY <2>1, <2>2, FS_Subset, FS_CardinalityType
  <2>4. QED
    BY <1>2, <2>3
<1>4. /\ \A e \in batch : deliveries'[e] = 1
      /\ \A e \in Entries \ batch : deliveries'[e] = deliveries[e]
      /\ UNCHANGED <<length, trimmed, done, dead, recorded>>
  BY <1>1 DEF ReadGroup
<1>5. delivered < delivered' /\ delivered' <= length /\ delivered' \in Nat
  BY <1>2 DEF InStream, Entries
<1>6. PendingInv'
  <2> SUFFICES ASSUME NEW e \in Entries, Pending(e)' PROVE e <= delivered'
    BY DEF PendingInv
  <2>1. CASE e \in batch
    <3>1. \A f \in batch : f <= delivered'
      BY <1>1, LastIn DEF ReadGroup
    <3>2. QED
      BY <2>1, <3>1
  <2>2. CASE e \notin batch
    BY <1>4, <1>5, <2>2 DEF GroupInv, PendingInv, Pending, Entries, TypeOK
  <2>3. QED
    BY <2>1, <2>2
<1>7. NothingLost'
  <2> SUFFICES ASSUME NEW e \in 1 .. length, e <= delivered'
               PROVE  \/ Pending(e)' \/ e \in done \cup dead \cup recorded
                      \/ e + MaxLen <= length
    BY <1>4, <1>5 DEF NothingLost
  <2>1. e \in Entries
    BY DEF TypeOK, Entries
  <2>2. CASE e \in batch
    BY <1>4, <2>2 DEF Pending
  <2>3. CASE e \notin batch /\ delivered < e
    BY <1>3, <2>1, <2>3 DEF InStream, GroupInv, TrimmedInv, TypeOK
  <2>4. CASE e \notin batch /\ e <= delivered
    BY <1>4, <2>1, <2>4 DEF GroupInv, NothingLost, Pending, TypeOK
  <2>5. QED
    BY <2>1, <2>2, <2>3, <2>4 DEF TypeOK
<1>8. TrimmedInv' /\ BuriedInv'
  BY DEF ReadGroup, GroupInv, TrimmedInv, BuriedInv, TypeOK, Loops
<1>9. QED
  BY <1>6, <1>7, <1>8 DEF GroupInv

(* Claiming drops from the group only what was trimmed.                    *)
LEMMA ClaimKeeps ==
  ASSUME TypeOK, GroupInv, NEW p \in Processes, NEW S \in SUBSET Entries, ClaimPending(p, S)
  PROVE  GroupInv'
<1> USE GroupAssumption
<1>1. /\ \A e \in Entries : \/ Pending(e)' <=> Pending(e)
                            \/ Pending(e) /\ ~InStream(e)
      /\ UNCHANGED <<length, trimmed, delivered, done, dead, recorded>>
  BY DEF ClaimPending, Pending, Bump, TypeOK
<1>2. PendingInv'
  BY <1>1 DEF GroupInv, PendingInv
<1>3. NothingLost'
  <2>1. \A e \in 1 .. length : e \in Entries
    BY DEF TypeOK, Entries
  <2>2. \A e \in 1 .. length : ~InStream(e) => e + MaxLen <= length
    BY DEF InStream, GroupInv, TrimmedInv, TypeOK
  <2>3. QED
    BY <1>1, <2>1, <2>2 DEF GroupInv, NothingLost
<1>4. TrimmedInv' /\ BuriedInv'
  BY DEF ClaimPending, GroupInv, TrimmedInv, BuriedInv, TypeOK, Loops
<1>5. QED
  BY <1>2, <1>3, <1>4 DEF GroupInv

(* Every step keeps the invariant, one case for each action.               *)
LEMMA GroupStep ==
  ASSUME TypeOK, GroupInv, [Next]_vars
  PROVE  GroupInv'
<1> USE GroupAssumption
<1>1. CASE Publish
  <2>1. TrimmedInv'
    <3>1. /\ length' = length + 1 /\ length \in Nat /\ trimmed \in Nat /\ MaxLen \in Nat
          /\ trimmed = 0 \/ trimmed + MaxLen <= length
      BY <1>1 DEF Publish, GroupInv, TrimmedInv, TypeOK
    <3>2. trimmed' = trimmed \/ trimmed' + MaxLen <= length'
      BY <1>1 DEF Publish
    <3>3. CASE trimmed' = trimmed
      BY <3>1, <3>3 DEF TrimmedInv
    <3>4. CASE trimmed' + MaxLen <= length'
      BY <3>4 DEF TrimmedInv
    <3>5. QED
      BY <3>2, <3>3, <3>4
  <2>2. NothingLost'
    <3> SUFFICES ASSUME NEW e \in 1 .. length'
                 PROVE  \/ delivered < e \/ Pending(e)
                        \/ e \in done \cup dead \cup recorded
                        \/ e + MaxLen <= length'
      BY <1>1 DEF Publish, NothingLost, Pending
    <3>1. CASE e = length + 1
      BY <3>1 DEF TypeOK
    <3>2. CASE e \in 1 .. length
      BY <1>1, <3>2 DEF Publish, GroupInv, NothingLost, TypeOK
    <3>3. QED
      BY <1>1, <3>1, <3>2 DEF Publish, TypeOK
  <2>3. PendingInv' /\ BuriedInv'
    BY <1>1 DEF Publish, GroupInv, PendingInv, BuriedInv, Pending
  <2>4. QED
    BY <2>1, <2>2, <2>3 DEF GroupInv
<1>2. ASSUME NEW p \in Processes, ReadGroup(p)
      PROVE  GroupInv'
  BY <1>2, ReadKeeps
<1>3. ASSUME NEW p \in Processes, NEW batch \in {"reading", "claimed"}, Handle(p, batch)
      PROVE  GroupInv'
  <2> DEFINE e == First(loops[p][batch])
  <2>1. \A q \in Processes : /\ loops'[q].pc = loops[q].pc
                             /\ loops'[q].poison = loops[q].poison
    BY <1>3, HandleLoops DEF Handle, TypeOK
  <2>2. CASE Ack(e) /\ done' = done \cup {e}
    BY <1>3, <2>1, <2>2, AckKeeps DEF Handle
  <2>3. CASE UNCHANGED deliveries /\ done \subseteq done'
    BY <1>3, <2>1, <2>3, FatesKept DEF Handle
  <2>4. QED
    BY <1>3, <2>2, <2>3 DEF Handle
<1>4. ASSUME NEW p \in Processes, NEW S \in SUBSET Entries, PendingOverDelivery(p, S)
      PROVE  GroupInv'
  <2>1. \A q \in Processes : loops'[q].pc = "buried" => loops'[q] = loops[q]
    BY <1>4 DEF PendingOverDelivery, TypeOK, Loops
  <2>2. QED
    BY <1>4, <2>1, FatesKept DEF PendingOverDelivery
<1>5. ASSUME NEW p \in Processes, NEW S \in SUBSET Entries, ClaimPending(p, S)
      PROVE  GroupInv'
  BY <1>5, ClaimKeeps
<1>6. ASSUME NEW p \in Processes, DeadLetterByID(p)
      PROVE  GroupInv'
  <2> DEFINE e == First(loops[p].poison)
  <2>1. CASE dead' = dead \cup {e} /\ loops' = [loops EXCEPT ![p].pc = "buried"]
    <3>1. BuriedInv'
      BY <1>6, <2>1 DEF DeadLetterByID, GroupInv, BuriedInv, TypeOK, Loops
    <3>2. TrimmedInv' /\ PendingInv' /\ NothingLost'
      BY <1>6, <2>1 DEF DeadLetterByID, GroupInv, TrimmedInv, PendingInv, NothingLost, Pending
    <3>3. QED
      BY <3>1, <3>2 DEF GroupInv
  <2>2. CASE UNCHANGED dead /\ Skip(p, e)
    <3>1. \A q \in Processes : loops'[q].pc = "buried" => loops'[q] = loops[q]
      BY <2>2 DEF Skip, TypeOK, Loops
    <3>2. QED
      BY <1>6, <2>2, <3>1, FatesKept DEF DeadLetterByID
  <2>3. QED
    BY <1>6, <2>1, <2>2 DEF DeadLetterByID
<1>7. ASSUME NEW p \in Processes, AckBuried(p)
      PROVE  GroupInv'
  <2> DEFINE e == First(loops[p].poison)
  <2>1. \A q \in Processes : loops'[q].pc = "buried" => loops'[q] = loops[q]
    BY <1>7 DEF AckBuried, Skip, TypeOK, Loops
  <2>2. e \in dead \cup recorded
    BY <1>7 DEF AckBuried, GroupInv, BuriedInv
  <2>3. CASE Ack(e)
    BY <1>7, <2>1, <2>2, <2>3, AckKeeps DEF AckBuried
  <2>4. CASE UNCHANGED deliveries
    BY <1>7, <2>1, <2>4, FatesKept DEF AckBuried
  <2>5. QED
    BY <1>7, <2>3, <2>4 DEF AckBuried
<1>8. ASSUME NEW p \in Processes, Crash(p)
      PROVE  GroupInv'
  <2>1. \A q \in Processes : loops'[q].pc = "buried" => loops'[q] = loops[q]
    BY <1>8 DEF Crash, IdleLoops, TypeOK
  <2>2. QED
    BY <1>8, <2>1, FatesKept DEF Crash
<1>9. ASSUME NEW e \in Entries, persistDeadLetterMessage(e) \/ AckDeadLetter(e)
      PROVE  GroupInv'
  BY <1>9, FatesKept DEF persistDeadLetterMessage, AckDeadLetter
<1>10. CASE UNCHANGED vars
  BY <1>10, FatesKept DEF vars
<1>11. QED
  BY <1>1, <1>2, <1>3, <1>4, <1>5, <1>6, <1>7, <1>8, <1>9, <1>10 DEF Next, Sweep

(* No entry is lost between its publication and its end: whatever crashes, *)
(* whatever fails and however often it is redelivered or buried.           *)
THEOREM EntriesAreNotLost == Spec => []NothingLost
<1>1. Init => GroupInv
  BY GroupAssumption DEF Init, GroupInv, TrimmedInv, PendingInv, BuriedInv, NothingLost,
                         Pending, IdleLoops
<1>2. QED
  BY <1>1, GroupStep, TypeCorrect, PTL DEF Spec, GroupInv
=============================================================================
