--------------------------- MODULE ContextProofs ----------------------------
(***************************************************************************)
(* Theorems about the skill packs (SkillSync), for any number of packs,    *)
(* references and requests, and about the items chosen for prompts and     *)
(* retrieval (ContextEngine), for any number of them, all sizes and all    *)
(* budgets.                                                                *)
(***************************************************************************)
EXTENDS SkillSync, ContextEngine, ListLemmas, SequenceTheorems

-----------------------------------------------------------------------------
(* Skill packs.                                                            *)

Ordered(s) == \A m, n \in DOMAIN s : m < n => s[m] < s[n]

(* A request in state n that creates a pack has come as far as the         *)
(* directories d show.                                                     *)
Writes(n, d) ==
  n.pc \in {"mkdir", "meta", "references"} =>
    /\ n.id \in Packs
    /\ n.pc # "mkdir" => d[n.id].there

(* A transaction works off its packs in order; it replaces the references  *)
(* of those it has locked, as r has them, and touches no others.           *)
Current(n, i) == n.pc = "replace" /\ i = n.todo[1]

Locks(n) ==
  /\ n.held # {} => n.pc \in {"upsert", "replace"}
  /\ n.pc = "replace" => n.todo # <<>> /\ n.todo[1] \in n.held
  /\ n.pc \in {"upsert", "replace"} => Ordered(n.todo)
  /\ \A i \in n.held, m \in DOMAIN n.todo : i < n.todo[m] \/ Current(n, i)

Replaces(n, r) ==
  \A i \in Packs :
    /\ i \in n.held /\ ~Current(n, i) => n.deleted[i] = r[i] /\ n.stored[i] = n.loaded[i].refs
    /\ i \notin n.held => n.deleted[i] = {} /\ n.stored[i] = {}

Fits(n, d, r) == Writes(n, d) /\ Locks(n) /\ Replaces(n, r)

MetaHasDirectory(d) == \A i \in Packs : d[i].meta => d[i].there

SkillInv ==
  /\ SkillTypeOK
  /\ MetaHasDirectory(disk)
  /\ PackAndReferencesAgree
  /\ \A q \in SkillRequests : Fits(request[q], disk, refRow)
  /\ \A p, q \in SkillRequests : p # q => request[p].held \cap request[q].held = {}

-----------------------------------------------------------------------------
(* What is in a directory stays there, as far as it is looked for.         *)
Grows(d, e) == \A i \in Packs : d[i].there => e[i].there

LEMMA FitsKept ==
  ASSUME NEW n \in SkillRequest, NEW d, NEW e, NEW r, NEW s,
         Grows(d, e), \A i \in n.held : s[i] = r[i], Fits(n, d, r)
  PROVE  Fits(n, e, s)
<1>1. n.held \subseteq Packs
  BY DEF SkillRequest
<1>2. Writes(n, e)
  BY DEF Fits, Writes, Grows
<1>3. Replaces(n, s)
  BY <1>1 DEF Fits, Replaces
<1>4. QED
  BY <1>2, <1>3 DEF Fits

(* What a step of one request may change.                                  *)
Shared(q) ==
  /\ disk' \in [Packs -> Directory] /\ Grows(disk, disk') /\ MetaHasDirectory(disk')
  /\ registry' \in [Packs -> LoadedPack]
  /\ packRow' \in [Packs -> PackRow]
  /\ refRow' \in [Packs -> SUBSET References]
  /\ PackAndReferencesAgree'
  /\ \A p \in SkillRequests \ {q} : \A i \in request[p].held : refRow'[i] = refRow[i]

LEMMA MoveKeeps ==
  ASSUME SkillInv, NEW q \in SkillRequests, NEW n \in SkillRequest,
         request' = [request EXCEPT ![q] = n], Shared(q), Fits(n, disk', refRow'),
         \A p \in SkillRequests \ {q} : request[p].held \cap n.held = {}
  PROVE  SkillInv'
<1>1. /\ request \in [SkillRequests -> SkillRequest]
      /\ request'[q] = n /\ \A p \in SkillRequests : p # q => request'[p] = request[p]
  BY DEF SkillInv, SkillTypeOK
<1>2. SkillTypeOK'
  <2>1. request' \in [SkillRequests -> SkillRequest]
    BY <1>1
  <2>2. QED
    BY <2>1 DEF SkillTypeOK, Shared
<1>3. \A p \in SkillRequests : Fits(request'[p], disk', refRow')
  <2>1. ASSUME NEW p \in SkillRequests, p # q PROVE Fits(request'[p], disk', refRow')
    <3>1. request'[p] = request[p] /\ request[p] \in SkillRequest /\ Fits(request[p], disk, refRow)
      BY <1>1, <2>1 DEF SkillInv
    <3>2. Grows(disk, disk') /\ \A i \in request[p].held : refRow'[i] = refRow[i]
      BY <2>1 DEF Shared
    <3>3. QED
      BY <3>1, <3>2, FitsKept
  <2>2. QED
    BY <1>1, <2>1
<1>4. \A p, o \in SkillRequests : p # o => request'[p].held \cap request'[o].held = {}
  BY <1>1 DEF SkillInv
<1>5. QED
  BY <1>2, <1>3, <1>4 DEF SkillInv, Shared

(* Nothing shared changes.                                                 *)
LEMMA SharedStays ==
  ASSUME SkillInv, NEW q \in SkillRequests, UNCHANGED <<disk, packRow, refRow>>,
         registry' \in [Packs -> LoadedPack]
  PROVE  Shared(q)
BY DEF SkillInv, SkillTypeOK, Shared, Grows, MetaHasDirectory, PackAndReferencesAgree

LEMMA Before ==
  ASSUME SkillInv, NEW q \in SkillRequests
  PROVE  /\ request \in [SkillRequests -> SkillRequest] /\ request[q] \in SkillRequest
         /\ disk \in [Packs -> Directory] /\ registry \in [Packs -> LoadedPack]
         /\ packRow \in [Packs -> PackRow] /\ refRow \in [Packs -> SUBSET References]
         /\ Fits(request[q], disk, refRow) /\ MetaHasDirectory(disk)
         /\ \A p \in SkillRequests \ {q} : request[p].held \cap request[q].held = {}
BY DEF SkillInv, SkillTypeOK

-----------------------------------------------------------------------------
(* A request outside its transaction holds nothing.                        *)
LEMMA FreshFits ==
  ASSUME NEW n, n.held = {}, n.deleted = NoReferences, n.stored = NoReferences,
         n.pc \notin {"upsert", "replace"}, NEW r
  PROVE  Locks(n) /\ Replaces(n, r)
BY DEF Locks, Replaces, NoReferences, Current

LEMMA IdleIsRequest ==
  /\ IdleRequest \in SkillRequest
  /\ IdleRequest.held = {} /\ IdleRequest.deleted = NoReferences /\ IdleRequest.stored = NoReferences
<1>1. NothingLoaded \in [Packs -> LoadedPack]
  BY DEF NothingLoaded, NoPack, LoadedPack
<1>2. NoReferences \in [Packs -> SUBSET References]
  BY DEF NoReferences
<1>3. <<>> \in Seq(Packs)
  OBVIOUS
<1>4. QED
  BY <1>1, <1>2, <1>3 DEF IdleRequest, SkillRequest, RequestPc

LEMMA SkillInit == InitSkills => SkillInv
<1>1. SUFFICES ASSUME InitSkills PROVE SkillInv
  OBVIOUS
<1>2. disk \in [Packs -> Directory] /\ MetaHasDirectory(disk)
  <2>1. NoDirectory \in Directory /\ NoDirectory.meta = FALSE
    BY DEF NoDirectory, Directory
  <2>2. ASSUME NEW refs \in SUBSET References
        PROVE  DeployedPack(refs) \in Directory /\ DeployedPack(refs).there
    BY DEF DeployedPack, Directory
  <2>3. \A i \in Packs : disk[i] = NoDirectory \/ \E refs \in SUBSET References : disk[i] = DeployedPack(refs)
    BY <1>1 DEF InitSkills
  <2>4. QED
    BY <1>1, <2>1, <2>2, <2>3 DEF InitSkills, MetaHasDirectory
<1>3. registry \in [Packs -> LoadedPack]
  BY <1>1 DEF InitSkills, NothingLoaded, NoPack, LoadedPack
<1>4. /\ packRow \in [Packs -> PackRow] /\ refRow \in [Packs -> SUBSET References]
      /\ PackAndReferencesAgree
  BY <1>1 DEF InitSkills, PackRow, NoReferences, PackAndReferencesAgree
<1>5. request = [q \in SkillRequests |-> IdleRequest] /\ IdleRequest.pc = "idle"
  BY <1>1 DEF InitSkills, IdleRequest
<1>6. Fits(IdleRequest, disk, refRow)
  BY <1>5, IdleIsRequest, FreshFits DEF Fits, Writes
<1>7. QED
  BY <1>2, <1>3, <1>4, <1>5, <1>6, IdleIsRequest DEF SkillInv, SkillTypeOK

LEMMA EndFits ==
  ASSUME NEW pc \in {"ended", "all", "read", "idle"}
  PROVE  /\ [IdleRequest EXCEPT !.pc = pc] \in SkillRequest
         /\ [IdleRequest EXCEPT !.pc = pc].pc = pc
         /\ [IdleRequest EXCEPT !.pc = pc].held = {}
         /\ [IdleRequest EXCEPT !.pc = pc].deleted = NoReferences
         /\ [IdleRequest EXCEPT !.pc = pc].stored = NoReferences
BY IdleIsRequest DEF IdleRequest, SkillRequest, RequestPc

(* A request ends, or reloads what it has read.                            *)
LEMMA EndKeeps ==
  ASSUME SkillInv, NEW q \in SkillRequests, Shared(q), NEW pc \in {"ended", "all"},
         request' = [request EXCEPT ![q] = [IdleRequest EXCEPT !.pc = pc]]
  PROVE  SkillInv'
<1> DEFINE n == [IdleRequest EXCEPT !.pc = pc]
<1>1. /\ n \in SkillRequest /\ n.pc = pc
      /\ n.held = {} /\ n.deleted = NoReferences /\ n.stored = NoReferences
  BY EndFits
<1> HIDE DEF n
<1>2. Fits(n, disk', refRow')
  BY <1>1, FreshFits DEF Fits, Writes
<1>3. QED
  BY <1>1, <1>2, MoveKeeps DEF n

(* A request outside its transaction moves, holding nothing as before.     *)
LEMMA QuietFits ==
  ASSUME NEW n, NEW m, NEW r, Locks(n), Replaces(n, r),
         n.pc \notin {"upsert", "replace"}, m.pc \notin {"upsert", "replace"},
         m.held = n.held, m.deleted = n.deleted, m.stored = n.stored
  PROVE  m.held = {} /\ Locks(m) /\ Replaces(m, r)
BY DEF Locks, Replaces, Current

LEMMA QuietKeeps ==
  ASSUME SkillInv, NEW q \in SkillRequests, NEW n \in SkillRequest,
         request' = [request EXCEPT ![q] = n], Shared(q), UNCHANGED refRow,
         request[q].pc \notin {"upsert", "replace"}, n.pc \notin {"upsert", "replace"},
         n.held = request[q].held, n.deleted = request[q].deleted, n.stored = request[q].stored,
         Writes(n, disk')
  PROVE  SkillInv'
<1>1. Locks(request[q]) /\ Replaces(request[q], refRow)
  BY Before DEF Fits
<1>2. n.held = {} /\ Locks(n) /\ Replaces(n, refRow')
  BY <1>1, QuietFits
<1>3. Fits(n, disk', refRow')
  BY <1>2 DEF Fits
<1>4. QED
  BY <1>2, <1>3, MoveKeeps

-----------------------------------------------------------------------------
(* The registry and its directory                                          *)

LEMMA StatKeeps ==
  ASSUME SkillInv, NEW q \in SkillRequests, NEW i \in Packs, StatPack(q, i)
  PROVE  SkillInv'
<1>1. Shared(q)
  BY Before, SharedStays DEF StatPack
<1>2. CASE EndRequest(q)
  BY <1>1, <1>2, EndKeeps DEF EndRequest
<1>3. ASSUME NEW refs \in SUBSET References,
             request' = [request EXCEPT ![q] = [IdleRequest EXCEPT
                           !.pc = "mkdir", !.id = i, !.refs = refs, !.files = refs]]
      PROVE  SkillInv'
  <2> DEFINE n == [IdleRequest EXCEPT !.pc = "mkdir", !.id = i, !.refs = refs, !.files = refs]
  <2>1. /\ n \in SkillRequest /\ n.pc = "mkdir" /\ n.id = i
        /\ n.held = {} /\ n.deleted = NoReferences /\ n.stored = NoReferences
    BY IdleIsRequest DEF IdleRequest, SkillRequest, RequestPc
  <2>2. request' = [request EXCEPT ![q] = n]
    BY <1>3
  <2> HIDE DEF n
  <2>3. Fits(n, disk', refRow')
    BY <2>1, FreshFits DEF Fits, Writes
  <2>4. QED
    BY <1>1, <2>1, <2>2, <2>3, MoveKeeps
<1>4. QED
  BY <1>2, <1>3 DEF StatPack

(* One directory changes, and loses nothing.                               *)
LEMMA DirectoryChanges ==
  ASSUME SkillInv, NEW q \in SkillRequests, NEW i \in Packs, NEW dir \in Directory,
         disk' = [disk EXCEPT ![i] = dir], UNCHANGED <<registry, packRow, refRow>>,
         disk[i].there => dir.there, dir.meta => dir.there
  PROVE  Shared(q) /\ disk'[i] = dir
<1>1. disk \in [Packs -> Directory] /\ MetaHasDirectory(disk)
  BY Before
<1>2. disk'[i] = dir /\ \A j \in Packs : j # i => disk'[j] = disk[j]
  BY <1>1
<1>3. disk' \in [Packs -> Directory] /\ Grows(disk, disk') /\ MetaHasDirectory(disk')
  BY <1>1, <1>2 DEF Grows, MetaHasDirectory
<1>4. QED
  BY <1>2, <1>3 DEF SkillInv, SkillTypeOK, Shared, PackAndReferencesAgree

LEMMA WriteKeeps ==
  ASSUME SkillInv, NEW q \in SkillRequests, WritePack(q)
  PROVE  SkillInv'
<1> DEFINE now == request[q]
           i == now.id
<1>1. /\ now \in SkillRequest /\ now.pc \in {"mkdir", "meta", "references"}
      /\ Writes(now, disk) /\ request \in [SkillRequests -> SkillRequest]
      /\ UNCHANGED <<registry, packRow, refRow>>
  BY Before DEF WritePack, Fits
<1>2. /\ i \in Packs /\ disk[i] \in Directory
      /\ disk[i].meta => disk[i].there
      /\ now.refs \in SUBSET References
  BY <1>1, Before DEF Writes, MetaHasDirectory, SkillRequest
<1>3. CASE now.pc = "mkdir" /\ disk' = [disk EXCEPT ![i].there = TRUE]
           /\ request' = [request EXCEPT ![q].pc = "meta"]
  <2> DEFINE dir == [disk[i] EXCEPT !.there = TRUE]
             n == [now EXCEPT !.pc = "meta"]
  <2>1. dir \in Directory /\ dir.there /\ dir.meta = disk[i].meta
    BY <1>2 DEF Directory
  <2>2. disk' = [disk EXCEPT ![i] = dir]
    BY <1>3
  <2>3. /\ n \in SkillRequest /\ n.pc = "meta" /\ n.id = i
        /\ n.held = now.held /\ n.deleted = now.deleted /\ n.stored = now.stored
    BY <1>1 DEF SkillRequest, RequestPc
  <2>4. request' = [request EXCEPT ![q] = n]
    BY <1>3
  <2> HIDE DEF dir, n
  <2>5. Shared(q) /\ disk'[i] = dir
    BY <1>1, <1>2, <2>1, <2>2, DirectoryChanges
  <2>6. Writes(n, disk')
    BY <1>2, <2>1, <2>3, <2>5 DEF Writes
  <2>7. QED
    BY <1>1, <2>3, <2>4, <2>5, <2>6, QuietKeeps
<1>4. CASE now.pc = "meta" /\ disk' = [disk EXCEPT ![i].meta = TRUE, ![i].named = now.refs]
           /\ request' = [request EXCEPT ![q].pc = "references"]
  <2> DEFINE dir == [disk[i] EXCEPT !.meta = TRUE, !.named = now.refs]
             n == [now EXCEPT !.pc = "references"]
  <2>1. dir \in Directory /\ dir.there = disk[i].there
    BY <1>2 DEF Directory
  <2>2. disk' = [disk EXCEPT ![i] = dir]
    BY <1>2, <1>4, Before
  <2>3. /\ n \in SkillRequest /\ n.pc = "references" /\ n.id = i
        /\ n.held = now.held /\ n.deleted = now.deleted /\ n.stored = now.stored
    BY <1>1 DEF SkillRequest, RequestPc
  <2>4. request' = [request EXCEPT ![q] = n]
    BY <1>4
  <2>5. disk[i].there
    BY <1>1, <1>4 DEF Writes
  <2> HIDE DEF dir, n
  <2>6. Shared(q) /\ disk'[i] = dir
    BY <1>1, <1>2, <2>1, <2>2, <2>5, DirectoryChanges
  <2>7. Writes(n, disk')
    BY <1>2, <2>1, <2>3, <2>5, <2>6 DEF Writes
  <2>8. QED
    BY <1>1, <2>3, <2>4, <2>6, <2>7, QuietKeeps
<1>5. ASSUME now.pc = "references", NEW r \in now.files,
             disk' = [disk EXCEPT ![i].files = @ \cup {r}],
             request' = [request EXCEPT ![q].files = @ \ {r}]
      PROVE  SkillInv'
  <2> DEFINE dir == [disk[i] EXCEPT !.files = @ \cup {r}]
             n == [now EXCEPT !.files = @ \ {r}]
  <2>1. dir \in Directory /\ dir.meta = disk[i].meta /\ dir.there = disk[i].there
    <3>1. disk[i].files \cup {r} \in SUBSET References
      BY <1>1, <1>2, <1>5 DEF Directory, SkillRequest
    <3>2. QED
      BY <1>2, <3>1 DEF Directory
  <2>2. disk' = [disk EXCEPT ![i] = dir]
    BY <1>5
  <2>3. /\ n \in SkillRequest /\ n.pc = "references" /\ n.id = i
        /\ n.held = now.held /\ n.deleted = now.deleted /\ n.stored = now.stored
    BY <1>1, <1>5 DEF SkillRequest
  <2>4. request' = [request EXCEPT ![q] = n]
    BY <1>5
  <2>5. disk[i].there
    BY <1>1, <1>5 DEF Writes
  <2> HIDE DEF dir, n
  <2>6. Shared(q) /\ disk'[i] = dir
    BY <1>1, <1>2, <2>1, <2>2, <2>5, DirectoryChanges
  <2>7. Writes(n, disk')
    BY <1>2, <2>1, <2>3, <2>5, <2>6 DEF Writes
  <2>8. QED
    BY <1>1, <2>3, <2>4, <2>6, <2>7, QuietKeeps
<1>6. CASE now.pc = "references" /\ disk' = disk
           /\ request' = [request EXCEPT ![q].pc = "scan", ![q].refs = {}]
  <2> DEFINE n == [now EXCEPT !.pc = "scan", !.refs = {}]
  <2>1. /\ n \in SkillRequest /\ n.pc = "scan"
        /\ n.held = now.held /\ n.deleted = now.deleted /\ n.stored = now.stored
    BY <1>1 DEF SkillRequest, RequestPc
  <2>2. request' = [request EXCEPT ![q] = n]
    BY <1>1, <1>6
  <2> HIDE DEF n
  <2>3. Shared(q)
    BY <1>1, <1>6, Before, SharedStays
  <2>4. Writes(n, disk')
    BY <2>1 DEF Writes
  <2>5. QED
    BY <1>1, <1>6, <2>1, <2>2, <2>3, <2>4, QuietKeeps
<1>7. QED
  BY <1>3, <1>4, <1>5, <1>6 DEF WritePack

LEMMA EditKeeps ==
  ASSUME SkillInv, NEW i \in Packs, EditPack(i)
  PROVE  SkillInv'
<1>1. PICK refs \in SUBSET References : disk' = [disk EXCEPT ![i].named = refs, ![i].files = refs]
  BY DEF EditPack
<1> DEFINE dir == [disk[i] EXCEPT !.named = refs, !.files = refs]
<1>2. disk \in [Packs -> Directory] /\ MetaHasDirectory(disk)
  BY DEF SkillInv, SkillTypeOK
<1>3. dir \in Directory /\ dir.meta = disk[i].meta /\ dir.there = disk[i].there
  BY <1>2 DEF Directory
<1>4. disk' = [disk EXCEPT ![i] = dir]
  BY <1>1, <1>2
<1> HIDE DEF dir
<1>5. disk' \in [Packs -> Directory] /\ Grows(disk, disk') /\ MetaHasDirectory(disk')
  BY <1>2, <1>3, <1>4 DEF Grows, MetaHasDirectory
<1>6. UNCHANGED <<registry, packRow, refRow, request>>
  BY DEF EditPack
<1>7. ASSUME NEW q \in SkillRequests PROVE Fits(request'[q], disk', refRow')
  <2>1. request[q] \in SkillRequest /\ Fits(request[q], disk, refRow)
    BY Before
  <2>2. QED
    BY <1>5, <1>6, <2>1, FitsKept
<1>8. QED
  BY <1>5, <1>6, <1>7 DEF SkillInv, SkillTypeOK, PackAndReferencesAgree

(* What a scan makes of a directory, and the step that reads it.           *)
PackRead(i) == IF disk[i].meta
               THEN [there |-> TRUE, whole |-> Whole(i), refs |-> loadReferences(i)]
               ELSE NoPack

ReadsPack(q, i) ==
  request' = [request EXCEPT ![q].names = @ \ {i}, ![q].loaded[i] = PackRead(i)]

LEMMA BeginKeeps ==
  ASSUME SkillInv, NEW q \in SkillRequests, BeginScan(q)
  PROVE  SkillInv'
<1> DEFINE names == {i \in Packs : disk[i].there}
           known == {i \in Packs : Settled(i)}
           n == [request[q] EXCEPT !.pc = "read", !.names = names, !.known = known]
<1>1. /\ request[q] \in SkillRequest /\ request[q].pc \in {"idle", "scan"}
      /\ UNCHANGED <<disk, registry, packRow, refRow>>
  BY Before DEF BeginScan
<1>2. names \in SUBSET Packs /\ known \in SUBSET Packs
  OBVIOUS
<1>3. request' = [request EXCEPT ![q] = n]
  BY Before DEF BeginScan
<1> HIDE DEF names, known
<1>4. /\ n \in SkillRequest /\ n.pc = "read"
      /\ n.held = request[q].held /\ n.deleted = request[q].deleted /\ n.stored = request[q].stored
  BY <1>1, <1>2 DEF SkillRequest, RequestPc
<1> HIDE DEF n
<1>5. Writes(n, disk')
  BY <1>4 DEF Writes
<1>6. Shared(q)
  BY <1>1, Before, SharedStays
<1>7. QED
  BY <1>1, <1>3, <1>4, <1>5, <1>6, QuietKeeps

LEMMA ReadKeeps ==
  ASSUME SkillInv, NEW q \in SkillRequests, ReadPack(q)
  PROVE  SkillInv'
<1> DEFINE now == request[q]
<1>1. /\ now \in SkillRequest /\ now.pc = "read"
      /\ UNCHANGED <<disk, registry, packRow, refRow>> /\ disk \in [Packs -> Directory]
  BY Before DEF ReadPack
<1>2. PICK i \in now.names : ReadsPack(q, i)
  BY DEF ReadPack, ReadsPack, PackRead
<1> DEFINE names == now.names \ {i}
           loaded == [now.loaded EXCEPT ![i] = PackRead(i)]
           n == [now EXCEPT !.names = names, !.loaded = loaded]
<1>3. i \in Packs /\ now.loaded \in [Packs -> LoadedPack] /\ now.names \subseteq Packs
  BY <1>1 DEF SkillRequest
<1>4. PackRead(i) \in LoadedPack
  BY <1>1, <1>3 DEF PackRead, Directory, LoadedPack, loadReferences, NoPack, Whole
<1>5. request' = [request EXCEPT ![q] = n]
  BY <1>1, <1>2, Before DEF ReadsPack
<1>6. loaded \in [Packs -> LoadedPack] /\ names \in SUBSET Packs
  BY <1>3, <1>4
<1> HIDE DEF names, loaded
<1>7. /\ n \in SkillRequest /\ n.pc = "read"
      /\ n.held = now.held /\ n.deleted = now.deleted /\ n.stored = now.stored
  BY <1>1, <1>6 DEF SkillRequest
<1> HIDE DEF n
<1>8. Writes(n, disk')
  BY <1>7 DEF Writes
<1>9. Shared(q)
  BY <1>1, Before, SharedStays
<1>10. QED
  BY <1>1, <1>5, <1>7, <1>8, <1>9, QuietKeeps

LEMMA LoadKeeps ==
  ASSUME SkillInv, NEW q \in SkillRequests, Load(q)
  PROVE  SkillInv'
<1>1. registry' \in [Packs -> LoadedPack] /\ UNCHANGED <<disk, packRow, refRow>>
  BY Before DEF Load, SkillRequest
<1>2. Shared(q)
  BY <1>1, SharedStays
<1>3. PICK pc \in {"ended", "all"} : request' = [request EXCEPT ![q] = [IdleRequest EXCEPT !.pc = pc]]
  BY DEF Load, EndRequest
<1>4. QED
  BY <1>2, <1>3, EndKeeps

-----------------------------------------------------------------------------
(* The synchronising transaction                                           *)

LEMMA OrdersAreSeqs ==
  ASSUME NEW ids \in SUBSET Packs, NEW order \in Orders(ids)
  PROVE  order \in Seq(Packs) /\ Ordered(order)
<1>1. IsFiniteSet(Packs)
  BY SkillAssumption, FS_Interval DEF Packs
<1>2. Cardinality(ids) \in Nat
  BY <1>1, FS_Subset, FS_CardinalityType
<1>3. order \in [1 .. Cardinality(ids) -> Packs] /\ Ordered(order)
  BY DEF Orders, Ordered
<1>4. QED
  BY <1>2, <1>3, SeqDef

LEMMA AllKeeps ==
  ASSUME SkillInv, NEW q \in SkillRequests, All(q)
  PROVE  SkillInv'
<1>1. PICK order \in Orders({i \in Packs : registry[i].there}) :
        request' = [request EXCEPT ![q] = [IdleRequest EXCEPT
                      !.pc = "upsert", !.loaded = registry, !.todo = order]]
  BY DEF All
<1> DEFINE n == [IdleRequest EXCEPT !.pc = "upsert", !.loaded = registry, !.todo = order]
<1>2. order \in Seq(Packs) /\ Ordered(order)
  BY <1>1, OrdersAreSeqs
<1>3. /\ n \in SkillRequest /\ n.pc = "upsert" /\ n.todo = order
      /\ n.held = {} /\ n.deleted = NoReferences /\ n.stored = NoReferences
  BY <1>2, Before, IdleIsRequest DEF IdleRequest, SkillRequest, RequestPc
<1>4. request' = [request EXCEPT ![q] = n]
  BY <1>1
<1> HIDE DEF n
<1>5. Fits(n, disk', refRow')
  BY <1>2, <1>3 DEF Fits, Writes, Locks, Replaces, Current, NoReferences
<1>6. Shared(q)
  BY Before, SharedStays DEF All
<1>7. QED
  BY <1>3, <1>4, <1>5, <1>6, MoveKeeps

LEMMA UpsertKeeps ==
  ASSUME SkillInv, NEW q \in SkillRequests, UpsertPack(q)
  PROVE  SkillInv'
<1> DEFINE now == request[q]
           i == now.todo[1]
           n == [now EXCEPT !.pc = "replace", !.held = @ \cup {i}]
<1>1. /\ now \in SkillRequest /\ now.pc = "upsert" /\ now.todo # <<>>
      /\ Locks(now) /\ Replaces(now, refRow)
      /\ UNCHANGED <<disk, registry, packRow, refRow>>
  BY Before DEF UpsertPack, Fits
<1>2. now.todo \in Seq(Packs) /\ now.held \in SUBSET Packs
  BY <1>1 DEF SkillRequest
<1>3. Head(now.todo) = i /\ i \in Packs /\ 1 \in DOMAIN now.todo
  BY <1>1, <1>2
<1>4. request' = [request EXCEPT ![q] = n] /\ ~HeldByAnother(q, i)
  BY <1>3, Before DEF UpsertPack
<1>5. /\ n \in SkillRequest /\ n.pc = "replace" /\ n.todo = now.todo /\ n.held = now.held \cup {i}
      /\ n.deleted = now.deleted /\ n.stored = now.stored /\ n.loaded = now.loaded
  BY <1>1, <1>2, <1>3 DEF SkillRequest, RequestPc
<1> HIDE DEF n
<1>6. Locks(n)
  BY <1>1, <1>5 DEF Locks, Current
<1>7. Replaces(n, refRow')
  BY <1>1, <1>5 DEF Replaces, Current
<1>8. Fits(n, disk', refRow')
  BY <1>5, <1>6, <1>7 DEF Fits, Writes
<1>9. \A p \in SkillRequests \ {q} : request[p].held \cap n.held = {}
  BY <1>4, <1>5, Before DEF HeldByAnother
<1>10. Shared(q)
  BY <1>1, Before, SharedStays
<1>11. QED
  BY <1>4, <1>5, <1>8, <1>9, <1>10, MoveKeeps

LEMMA TailOrdered ==
  ASSUME NEW s \in Seq(Packs), s # <<>>, Ordered(s)
  PROVE  /\ Tail(s) \in Seq(Packs) /\ Ordered(Tail(s))
         /\ \A m \in DOMAIN Tail(s) : m + 1 \in DOMAIN s /\ Tail(s)[m] = s[m + 1] /\ s[1] < s[m + 1]
<1>1. /\ Tail(s) \in Seq(Packs) /\ Len(s) \in Nat \ {0} /\ Len(Tail(s)) = Len(s) - 1
      /\ \A m \in 1 .. Len(s) - 1 : Tail(s)[m] = s[m + 1]
  OBVIOUS
<1>2. DOMAIN s = 1 .. Len(s) /\ DOMAIN Tail(s) = 1 .. Len(s) - 1
  BY <1>1
<1>3. \A m \in DOMAIN Tail(s) : m + 1 \in DOMAIN s /\ Tail(s)[m] = s[m + 1] /\ s[1] < s[m + 1]
  BY <1>1, <1>2 DEF Ordered
<1>4. Ordered(Tail(s))
  <2>1. SUFFICES ASSUME NEW m \in DOMAIN Tail(s), NEW n \in DOMAIN Tail(s), m < n
                 PROVE  Tail(s)[m] < Tail(s)[n]
    BY DEF Ordered
  <2>2. m + 1 < n + 1 /\ m + 1 \in DOMAIN s /\ n + 1 \in DOMAIN s
    BY <1>1, <1>2, <2>1
  <2>3. QED
    BY <1>3, <2>2 DEF Ordered
<1>5. QED
  BY <1>1, <1>3, <1>4

LEMMA ReplaceKeeps ==
  ASSUME SkillInv, NEW q \in SkillRequests, ReplaceReferences(q)
  PROVE  SkillInv'
<1> DEFINE now == request[q]
           i == now.todo[1]
           deleted == [now.deleted EXCEPT ![i] = refRow[i]]
           stored == [now.stored EXCEPT ![i] = now.loaded[i].refs]
           n == [now EXCEPT !.pc = "upsert", !.todo = Tail(@), !.deleted = deleted, !.stored = stored]
<1>1. /\ now \in SkillRequest /\ now.pc = "replace"
      /\ Locks(now) /\ Replaces(now, refRow) /\ refRow \in [Packs -> SUBSET References]
      /\ UNCHANGED <<disk, registry, packRow, refRow>>
  BY Before DEF ReplaceReferences, Fits
<1>2. /\ now.todo \in Seq(Packs) /\ now.todo # <<>> /\ Ordered(now.todo)
      /\ now.held \in SUBSET Packs /\ i \in now.held /\ i \in Packs
      /\ now.deleted \in [Packs -> SUBSET References] /\ now.stored \in [Packs -> SUBSET References]
      /\ now.loaded[i].refs \in SUBSET References
  BY <1>1 DEF SkillRequest, Locks, LoadedPack
<1>3. Head(now.todo) = i
  BY <1>2
<1>4. request' = [request EXCEPT ![q] = n]
  BY <1>3, Before DEF ReplaceReferences
<1>5. /\ deleted \in [Packs -> SUBSET References] /\ deleted[i] = refRow[i]
      /\ \A j \in Packs : j # i => deleted[j] = now.deleted[j]
  BY <1>1, <1>2
<1>6. /\ stored \in [Packs -> SUBSET References] /\ stored[i] = now.loaded[i].refs
      /\ \A j \in Packs : j # i => stored[j] = now.stored[j]
  BY <1>2
<1> HIDE DEF deleted, stored
<1>7. /\ Tail(now.todo) \in Seq(Packs) /\ Ordered(Tail(now.todo))
      /\ \A m \in DOMAIN Tail(now.todo) : /\ m + 1 \in DOMAIN now.todo
                                          /\ Tail(now.todo)[m] = now.todo[m + 1]
                                          /\ i < now.todo[m + 1]
  BY <1>2, TailOrdered
<1>8. /\ n \in SkillRequest /\ n.pc = "upsert" /\ n.todo = Tail(now.todo) /\ n.held = now.held
      /\ n.deleted = deleted /\ n.stored = stored /\ n.loaded = now.loaded
  BY <1>1, <1>5, <1>6, <1>7 DEF SkillRequest, RequestPc
<1> HIDE DEF n
<1>9. Locks(n)
  <2>1. ASSUME NEW j \in now.held, NEW m \in DOMAIN Tail(now.todo) PROVE j < Tail(now.todo)[m]
    BY <1>1, <1>7, <2>1 DEF Locks, Current
  <2>2. QED
    BY <1>7, <1>8, <2>1 DEF Locks
<1>10. Replaces(n, refRow')
  BY <1>1, <1>2, <1>5, <1>6, <1>8 DEF Replaces, Current
<1>11. Fits(n, disk', refRow')
  BY <1>8, <1>9, <1>10 DEF Fits, Writes
<1>12. Shared(q)
  BY <1>1, Before, SharedStays
<1>13. \A p \in SkillRequests \ {q} : request[p].held \cap n.held = {}
  BY <1>8, Before
<1>14. QED
  BY <1>4, <1>8, <1>11, <1>12, <1>13, MoveKeeps

LEMMA CommitKeeps ==
  ASSUME SkillInv, NEW q \in SkillRequests, CommitSync(q)
  PROVE  SkillInv'
<1> DEFINE now == request[q]
<1>1. /\ now \in SkillRequest /\ now.pc = "upsert" /\ Replaces(now, refRow)
      /\ UNCHANGED <<disk, registry>>
      /\ packRow \in [Packs -> PackRow] /\ refRow \in [Packs -> SUBSET References]
  BY Before DEF CommitSync, Fits
<1>2. /\ now.held \in SUBSET Packs /\ now.loaded \in [Packs -> LoadedPack]
      /\ now.deleted \in [Packs -> SUBSET References] /\ now.stored \in [Packs -> SUBSET References]
  BY <1>1 DEF SkillRequest
<1>3. /\ packRow' = [i \in Packs |-> IF i \in now.held
                                     THEN [there |-> TRUE, refs |-> now.loaded[i].refs]
                                     ELSE packRow[i]]
      /\ refRow' = [i \in Packs |-> (refRow[i] \ now.deleted[i]) \cup now.stored[i]]
  BY DEF CommitSync
<1>4. ASSUME NEW i \in Packs, i \in now.held
      PROVE  packRow'[i] \in PackRow /\ packRow'[i].refs = refRow'[i]
  <2>1. now.deleted[i] = refRow[i] /\ now.stored[i] = now.loaded[i].refs
    BY <1>1, <1>4 DEF Replaces, Current
  <2>2. now.loaded[i].refs \in SUBSET References
    BY <1>2 DEF LoadedPack
  <2>3. refRow'[i] = now.loaded[i].refs
    BY <1>3, <2>1
  <2>4. packRow'[i] = [there |-> TRUE, refs |-> now.loaded[i].refs]
    BY <1>3, <1>4
  <2>5. QED
    BY <2>2, <2>3, <2>4 DEF PackRow
<1>5. ASSUME NEW i \in Packs, i \notin now.held
      PROVE  packRow'[i] = packRow[i] /\ refRow'[i] = refRow[i]
  <2>1. now.deleted[i] = {} /\ now.stored[i] = {}
    BY <1>1, <1>5 DEF Replaces
  <2>2. QED
    BY <1>3, <1>5, <2>1
<1>6. /\ packRow' \in [Packs -> PackRow] /\ refRow' \in [Packs -> SUBSET References]
      /\ \A i \in Packs : refRow'[i] = packRow'[i].refs
  <2>1. \A i \in Packs : packRow'[i] \in PackRow /\ refRow'[i] = packRow'[i].refs
    BY <1>1, <1>4, <1>5 DEF SkillInv, PackAndReferencesAgree
  <2>2. \A i \in Packs : refRow'[i] \in SUBSET References
    BY <2>1 DEF PackRow
  <2>3. QED
    BY <1>3, <2>1, <2>2
<1>7. \A p \in SkillRequests \ {q} : \A i \in request[p].held : refRow'[i] = refRow[i]
  <2>1. SUFFICES ASSUME NEW p \in SkillRequests \ {q}, NEW i \in request[p].held
                 PROVE  refRow'[i] = refRow[i]
    OBVIOUS
  <2>2. i \in Packs /\ i \notin now.held
    BY Before DEF SkillRequest
  <2>3. QED
    BY <1>5, <2>2
<1>8. Shared(q)
  BY <1>1, <1>6, <1>7, Before DEF Shared, Grows, PackAndReferencesAgree
<1>9. QED
  BY <1>8, EndKeeps DEF CommitSync, EndRequest

-----------------------------------------------------------------------------
LEMMA SkillStep == SkillInv /\ [NextSkills]_skillVars => SkillInv'
<1>1. SUFFICES ASSUME SkillInv, [NextSkills]_skillVars PROVE SkillInv'
  OBVIOUS
<1>2. ASSUME NEW q \in SkillRequests, NEW i \in Packs, StatPack(q, i) PROVE SkillInv'
  BY <1>1, <1>2, StatKeeps
<1>3. ASSUME NEW q \in SkillRequests, WritePack(q) PROVE SkillInv'
  BY <1>1, <1>3, WriteKeeps
<1>4. ASSUME NEW q \in SkillRequests, CreateFails(q) \/ SyncFails(q) PROVE SkillInv'
  <2>1. UNCHANGED <<disk, registry, packRow, refRow>> /\ EndRequest(q)
    BY <1>4 DEF CreateFails, SyncFails
  <2>2. Shared(q)
    BY <1>1, <2>1, Before, SharedStays
  <2>3. QED
    BY <1>1, <2>1, <2>2, EndKeeps DEF EndRequest
<1>5. ASSUME NEW q \in SkillRequests, BeginScan(q) PROVE SkillInv'
  BY <1>1, <1>5, BeginKeeps
<1>6. ASSUME NEW q \in SkillRequests, ReadPack(q) PROVE SkillInv'
  BY <1>1, <1>6, ReadKeeps
<1>7. ASSUME NEW q \in SkillRequests, Load(q) PROVE SkillInv'
  BY <1>1, <1>7, LoadKeeps
<1>8. ASSUME NEW q \in SkillRequests, All(q) PROVE SkillInv'
  BY <1>1, <1>8, AllKeeps
<1>9. ASSUME NEW q \in SkillRequests, UpsertPack(q) PROVE SkillInv'
  BY <1>1, <1>9, UpsertKeeps
<1>10. ASSUME NEW q \in SkillRequests, ReplaceReferences(q) PROVE SkillInv'
  BY <1>1, <1>10, ReplaceKeeps
<1>11. ASSUME NEW q \in SkillRequests, CommitSync(q) PROVE SkillInv'
  BY <1>1, <1>11, CommitKeeps
<1>12. ASSUME NEW i \in EditedPacks, EditPack(i) PROVE SkillInv'
  BY <1>1, <1>12, EditKeeps, SkillAssumption DEF Packs
<1>13. CASE UNCHANGED skillVars
  <2>1. UNCHANGED <<disk, registry, packRow, refRow, request>>
    BY <1>13 DEF skillVars
  <2>2. QED
    BY <1>1, <2>1 DEF SkillInv, SkillTypeOK, PackAndReferencesAgree
<1>14. QED
  BY <1>1, <1>2, <1>3, <1>4, <1>5, <1>6, <1>7, <1>8, <1>9, <1>10, <1>11, <1>12, <1>13
     DEF NextSkills, RequestStep
-----------------------------------------------------------------------------
(* The inductive invariant: a request that creates a pack finds what it    *)
(* wrote, and a transaction locks packs in order, alone, and replaces what *)
(* it saw.                                                                 *)
(* (registry.go:65 Load and Create, store.go:300 SyncSkills)               *)
THEOREM SkillsAlwaysFit == SkillSpec => []SkillInv
<1>1. InitSkills => SkillInv
  BY SkillInit
<1>2. SkillInv /\ [NextSkills]_skillVars => SkillInv'
  BY SkillStep
<1>3. QED
  BY <1>1, <1>2, PTL DEF SkillSpec

(* Directories, registry, tables and requests have the values they may     *)
(* have.                                                                   *)
THEOREM SkillTypes == SkillSpec => []SkillTypeOK
<1>1. SkillInv => SkillTypeOK
  BY DEF SkillInv
<1>2. QED
  BY <1>1, SkillsAlwaysFit, PTL

(* The references stored for a pack are those its stored meta names,       *)
(* however many synchronisations ran at once.  (store.go:300 SyncSkills)   *)
THEOREM StoredPacksAgree == SkillSpec => []PackAndReferencesAgree
<1>1. SkillInv => PackAndReferencesAgree
  BY DEF SkillInv
<1>2. QED
  BY <1>1, SkillsAlwaysFit, PTL

-----------------------------------------------------------------------------
(* Transactions that wait for each other                                   *)

LEMMA GreatestPackExists ==
  ASSUME NEW S, S \subseteq Packs, S # {}
  PROVE  \E i \in S : \A j \in S : j =< i
<1> DEFINE B == {MaxPack - i : i \in S}
<1>1. B \subseteq Nat /\ B # {}
  <2>1. ASSUME NEW i \in S PROVE MaxPack - i \in Nat
    <3>1. MaxPack \in Nat /\ i \in 1 .. MaxPack
      BY SkillAssumption DEF Packs
    <3>2. QED
      BY <3>1
  <2>2. QED
    BY <2>1
<1>2. PICK x \in B : \A y \in B : ~(<<y, x>> \in Smaller)
  BY <1>1, SmallerIsWellFounded, WFMin
<1>3. PICK i \in S : x = MaxPack - i
  BY <1>2
<1>4. ASSUME NEW j \in S PROVE j =< i
  <2>1. MaxPack - j \in B /\ MaxPack - j \in Nat /\ x \in Nat
    BY <1>1
  <2>2. ~(MaxPack - j < x)
    BY <1>2, <2>1 DEF Smaller
  <2>3. QED
    BY <1>3, <2>1, <2>2, SkillAssumption DEF Packs
<1>5. QED
  BY <1>4

(* A transaction waits for one that is at a later pack.                    *)
LEMMA WaitsForALaterPack ==
  ASSUME SkillInv, NEW q \in SkillRequests, Waiting(q)
  PROVE  /\ Head(request[q].todo) \in Packs
         /\ \E p \in SkillRequests :
              /\ Syncing(p)
              /\ Waiting(p) => Head(request[q].todo) < Head(request[p].todo)
<1>1. request[q].todo \in Seq(Packs) /\ request[q].todo # <<>>
  BY Before DEF Waiting, SkillRequest
<1>2. Head(request[q].todo) \in Packs
  BY <1>1
<1>3. PICK p \in SkillRequests \ {q} : Head(request[q].todo) \in request[p].held
  BY DEF Waiting, HeldByAnother
<1>4. Locks(request[p]) /\ request[p].todo \in Seq(Packs)
  BY <1>3, Before DEF Fits, SkillRequest
<1>5. Syncing(p)
  BY <1>3, <1>4 DEF Locks, Syncing
<1>6. ASSUME Waiting(p) PROVE Head(request[q].todo) < Head(request[p].todo)
  <2>1. request[p].pc = "upsert" /\ request[p].todo # <<>>
    BY <1>6 DEF Waiting
  <2>2. 1 \in DOMAIN request[p].todo /\ Head(request[p].todo) = request[p].todo[1]
    BY <1>4, <2>1
  <2>3. QED
    BY <1>3, <1>4, <2>1, <2>2 DEF Locks, Current
<1>7. QED
  BY <1>2, <1>3, <1>5, <1>6

(* Synchronisations never wait for each other in a circle: one of those    *)
(* that hold or want a lock can always go on, because every one of them    *)
(* takes the packs in the order of their ids.  (registry.go:180 the sort   *)
(* in All, store.go:300 SyncSkills)                                        *)
THEOREM SyncsGoOn == SkillSpec => []SyncsNeverDeadlock
<1>1. ASSUME SkillInv, NEW r \in SkillRequests, Syncing(r)
      PROVE  \E q \in SkillRequests : Syncing(q) /\ ~Waiting(q)
  <2>1. SUFFICES ASSUME \A q \in SkillRequests : Syncing(q) => Waiting(q) PROVE FALSE
    OBVIOUS
  <2> DEFINE S == {Head(request[q].todo) : q \in {p \in SkillRequests : Syncing(p)}}
  <2>2. S \subseteq Packs
    BY <1>1, <2>1, WaitsForALaterPack
  <2>3. S # {}
    BY <1>1
  <2>4. PICK i \in S : \A j \in S : j =< i
    BY <2>2, <2>3, GreatestPackExists
  <2>5. PICK q \in SkillRequests : Syncing(q) /\ i = Head(request[q].todo)
    BY <2>4
  <2>6. PICK p \in SkillRequests : Syncing(p) /\ i < Head(request[p].todo)
    BY <1>1, <2>1, <2>5, WaitsForALaterPack
  <2>7. Head(request[p].todo) \in S /\ i \in S
    BY <2>4, <2>6
  <2> HIDE DEF S
  <2>8. \A j \in S : ~(i < j)
    <3>1. SUFFICES ASSUME NEW j \in S PROVE ~(i < j)
      OBVIOUS
    <3>2. i \in 1 .. MaxPack /\ j \in 1 .. MaxPack /\ j =< i
      BY <2>2, <2>4 DEF Packs
    <3>3. QED
      BY <3>2, SkillAssumption
  <2>9. QED
    BY <2>6, <2>7, <2>8
<1>2. SkillInv => SyncsNeverDeadlock
  BY <1>1 DEF SyncsNeverDeadlock
<1>3. QED
  BY <1>2, SkillsAlwaysFit, PTL

-----------------------------------------------------------------------------
(* What a scan reads                                                       *)

(* A scan finds every pack that was settled when it began.                 *)
Scans(q) ==
  request[q].pc = "read" =>
    \A i \in request[q].known : Settled(i) /\ (i \in request[q].names \/ request[q].loaded[i].whole)

(* A step of one request leaves the others alone.                          *)
LEMMA OneMoves ==
  ASSUME SkillInv, NEW p \in SkillRequests, RequestStep(p), NEW q \in SkillRequests, q # p
  PROVE  request'[q] = request[q]
BY Before DEF RequestStep, StatPack, WritePack, CreateFails, BeginScan, ReadPack, Load, All, UpsertPack,
              ReplaceReferences, CommitSync, SyncFails, EndRequest

(* Nobody starts to write a pack that has its directory.                   *)
LEMMA NobodyStartsAgain ==
  ASSUME SkillInv, NEW q \in SkillRequests, RequestStep(q), NEW i \in Packs, disk[i].there,
         Creating(q, i)'
  PROVE  Creating(q, i)
<1>1. request \in [SkillRequests -> SkillRequest] /\ request[q] \in SkillRequest
  BY Before
<1>2. request'[q].pc \in {"mkdir", "meta", "references"} /\ request'[q].id = i
  BY DEF Creating
<1>3. \A pc \in {"ended", "all"} : request' # [request EXCEPT ![q] = [IdleRequest EXCEPT !.pc = pc]]
  <2>1. SUFFICES ASSUME NEW pc \in {"ended", "all"},
                        request' = [request EXCEPT ![q] = [IdleRequest EXCEPT !.pc = pc]]
                 PROVE  FALSE
    OBVIOUS
  <2>2. request'[q].pc = pc
    BY <1>1, <2>1, EndFits
  <2>3. QED
    BY <1>2, <2>2
<1>4. ~EndRequest(q) /\ ~Load(q) /\ ~CreateFails(q) /\ ~CommitSync(q) /\ ~SyncFails(q)
  BY <1>3 DEF EndRequest, Load, CreateFails, CommitSync, SyncFails
<1>5. ASSUME NEW j \in Packs, StatPack(q, j) PROVE FALSE
  <2>1. PICK refs \in SUBSET References :
          request' = [request EXCEPT ![q] = [IdleRequest EXCEPT
                        !.pc = "mkdir", !.id = j, !.refs = refs, !.files = refs]]
    BY <1>4, <1>5 DEF StatPack
  <2>2. request'[q].id = j
    BY <1>1, <2>1 DEF IdleRequest
  <2>3. ~disk[j].there
    BY <1>4, <1>5 DEF StatPack
  <2>4. QED
    BY <1>2, <2>2, <2>3
<1>6. ~BeginScan(q) /\ ~ReadPack(q) /\ ~UpsertPack(q) /\ ~ReplaceReferences(q)
  <2>1. BeginScan(q) => request'[q].pc = "read"
    <3>1. ASSUME NEW names, NEW known,
                 request' = [request EXCEPT ![q].pc = "read", ![q].names = names, ![q].known = known]
          PROVE  request'[q].pc = "read"
      BY <1>1, <3>1 DEF SkillRequest
    <3>2. QED
      BY <3>1 DEF BeginScan
  <2>2. ReadPack(q) => request'[q].pc = "read"
    <3>1. ASSUME NEW j \in request[q].names, ReadsPack(q, j), request[q].pc = "read"
          PROVE  request'[q].pc = "read"
      BY <1>1, <3>1 DEF ReadsPack, SkillRequest
    <3>2. QED
      BY <3>1 DEF ReadPack, ReadsPack, PackRead
  <2>3. UpsertPack(q) => request'[q].pc = "replace"
    BY <1>1 DEF UpsertPack, SkillRequest
  <2>4. ReplaceReferences(q) => request'[q].pc = "upsert"
    BY <1>1 DEF ReplaceReferences, SkillRequest
  <2>5. QED
    BY <1>2, <2>1, <2>2, <2>3, <2>4
<1>7. ~All(q)
  <2>1. SUFFICES ASSUME NEW order,
                        request' = [request EXCEPT ![q] = [IdleRequest EXCEPT
                          !.pc = "upsert", !.loaded = registry, !.todo = order]]
                 PROVE  FALSE
    BY DEF All
  <2>2. request'[q].pc = "upsert"
    BY <1>1, <2>1 DEF IdleRequest
  <2>3. QED
    BY <1>2, <2>2
<1>8. WritePack(q)
  BY <1>4, <1>5, <1>6, <1>7 DEF RequestStep
<1>9. request[q].pc \in {"mkdir", "meta", "references"} /\ request'[q].id = request[q].id
  BY <1>1, <1>8 DEF WritePack, SkillRequest
<1>10. QED
  BY <1>2, <1>9 DEF Creating

(* A settled pack stays settled, whatever is created and edited.           *)
LEMMA SettledStays ==
  ASSUME SkillInv, [NextSkills]_skillVars, NEW i \in Packs, Settled(i)
  PROVE  Settled(i)'
<1>1. disk \in [Packs -> Directory] /\ MetaHasDirectory(disk)
  BY DEF SkillInv, SkillTypeOK
<1>2. /\ disk[i].there /\ disk[i].meta /\ disk[i].named \subseteq disk[i].files
      /\ disk[i] \in Directory
      /\ \A q \in SkillRequests : ~Creating(q, i)
  BY <1>1 DEF Settled, Whole, MetaHasDirectory
<1>3. CASE UNCHANGED skillVars
  BY <1>3 DEF skillVars, Settled, Whole, Creating
<1>4. ASSUME NEW q \in SkillRequests, RequestStep(q) PROVE Settled(i)'
  <2>1. ASSUME NEW p \in SkillRequests PROVE ~Creating(p, i)'
    <3>1. CASE p # q
      <4>1. request'[p] = request[p]
        BY <1>4, <3>1, OneMoves
      <4>2. QED
        BY <1>2, <4>1 DEF Creating
    <3>2. CASE p = q
      BY <1>2, <1>4, <3>2, NobodyStartsAgain
    <3>3. QED
      BY <3>1, <3>2
  <2>2. disk'[i] = disk[i]
    <3>1. CASE WritePack(q)
      <4>1. request[q].id # i
        BY <1>2, <3>1 DEF WritePack, Creating
      <4>2. QED
        BY <1>1, <3>1, <4>1 DEF WritePack
    <3>2. CASE ~WritePack(q)
      BY <1>4, <3>2 DEF RequestStep, StatPack, CreateFails, BeginScan, ReadPack, Load, All, UpsertPack,
                        ReplaceReferences, CommitSync, SyncFails
    <3>3. QED
      BY <3>1, <3>2
  <2>3. Whole(i)'
    BY <1>2, <2>2 DEF Whole
  <2>4. QED
    BY <2>1, <2>3 DEF Settled
<1>5. ASSUME NEW j \in EditedPacks, EditPack(j) PROVE Settled(i)'
  <2>1. PICK refs \in SUBSET References :
          disk' = [disk EXCEPT ![j].named = refs, ![j].files = refs]
    BY <1>5 DEF EditPack
  <2>2. disk'[i].meta /\ disk'[i].named \subseteq disk'[i].files
    BY <1>1, <1>2, <2>1 DEF Directory
  <2>3. request' = request
    BY <1>5 DEF EditPack
  <2>4. QED
    BY <1>2, <2>2, <2>3 DEF Settled, Whole, Creating
<1>6. QED
  BY <1>3, <1>4, <1>5 DEF NextSkills

LEMMA ScanStep ==
  ASSUME SkillInv, [NextSkills]_skillVars, NEW q \in SkillRequests, Scans(q)
  PROVE  Scans(q)'
<1>1. request \in [SkillRequests -> SkillRequest] /\ request[q] \in SkillRequest /\ MetaHasDirectory(disk)
  BY Before
<1>2. CASE request'[q] = request[q]
  <2>1. request[q].known \subseteq Packs
    BY <1>1 DEF SkillRequest
  <2>2. QED
    BY <1>2, <2>1, SettledStays DEF Scans
<1>3. CASE BeginScan(q)
  <2>1. /\ request'[q].names = {i \in Packs : disk[i].there}
        /\ request'[q].known = {i \in Packs : Settled(i)}
    BY <1>1, <1>3 DEF BeginScan, SkillRequest
  <2>2. \A i \in request'[q].known : i \in Packs /\ Settled(i) /\ i \in request'[q].names
    BY <1>1, <2>1 DEF Settled, Whole, MetaHasDirectory
  <2>3. QED
    BY <2>2, SettledStays DEF Scans
<1>4. CASE ReadPack(q)
  <2>1. PICK i \in request[q].names : ReadsPack(q, i)
    BY <1>4 DEF ReadPack, ReadsPack, PackRead
  <2>2. /\ request[q].pc = "read" /\ request[q].loaded \in [Packs -> LoadedPack]
        /\ request[q].known \subseteq Packs /\ i \in Packs
    BY <1>1, <1>4 DEF ReadPack, SkillRequest
  <2>3. /\ request'[q].names = request[q].names \ {i} /\ request'[q].known = request[q].known
        /\ request'[q].loaded = [request[q].loaded EXCEPT ![i] = PackRead(i)]
    BY <1>1, <2>1 DEF ReadsPack, SkillRequest
  <2>4. Settled(i) => PackRead(i).whole
    BY DEF Settled, Whole, PackRead
  <2>5. \A j \in request'[q].known : Settled(j) /\ (j \in request'[q].names \/ request'[q].loaded[j].whole)
    BY <2>2, <2>3, <2>4 DEF Scans
  <2>6. QED
    BY <2>2, <2>3, <2>5, SettledStays DEF Scans
<1>5. CASE RequestStep(q) /\ ~BeginScan(q) /\ ~ReadPack(q)
  <2>1. ASSUME NEW pc \in {"ended", "all"},
               request' = [request EXCEPT ![q] = [IdleRequest EXCEPT !.pc = pc]]
        PROVE  request'[q].pc = pc
    BY <1>1, <2>1, EndFits
  <2>2. CASE EndRequest(q) \/ Load(q) \/ CreateFails(q) \/ CommitSync(q) \/ SyncFails(q)
    BY <2>1, <2>2 DEF EndRequest, Load, CreateFails, CommitSync, SyncFails, Scans
  <2>3. CASE \E i \in Packs : StatPack(q, i) /\ ~EndRequest(q)
    BY <1>1, <2>3 DEF StatPack, IdleRequest, Scans
  <2>4. CASE WritePack(q) \/ UpsertPack(q) \/ ReplaceReferences(q)
    BY <1>1, <2>4 DEF WritePack, UpsertPack, ReplaceReferences, SkillRequest, Scans
  <2>5. CASE All(q)
    BY <1>1, <2>5 DEF All, IdleRequest, Scans
  <2>6. QED
    BY <1>5, <2>2, <2>3, <2>4, <2>5 DEF RequestStep
<1>6. ASSUME NEW p \in SkillRequests, RequestStep(p), p # q PROVE request'[q] = request[q]
  BY <1>6, OneMoves
<1>7. ASSUME NEW j \in EditedPacks, EditPack(j) PROVE request'[q] = request[q]
  BY <1>7 DEF EditPack
<1>8. CASE UNCHANGED skillVars
  BY <1>2, <1>8 DEF skillVars
<1>9. QED
  BY <1>2, <1>3, <1>4, <1>5, <1>6, <1>7, <1>8 DEF NextSkills

(* What a scan that began with a pack settled has still to read or has     *)
(* read: the pack is settled for good, and the scan has it whole or will.  *)
(* (registry.go:122 scan, registry.go:87 Create)                           *)
THEOREM ScansFindSettledPacks == SkillSpec => [](\A q \in SkillRequests : Scans(q))
<1>1. InitSkills => \A q \in SkillRequests : Scans(q)
  BY DEF InitSkills, IdleRequest, Scans
<1>2. SkillInv /\ [NextSkills]_skillVars /\ (\A q \in SkillRequests : Scans(q))
        => (\A q \in SkillRequests : Scans(q))'
  BY ScanStep
<1>3. QED
  BY <1>1, <1>2, SkillsAlwaysFit, PTL DEF SkillSpec

(* A pack the registry has whole is lost to it, or seen half written, only *)
(* through a Load whose scan began before the pack was settled: when it    *)
(* was not whole, or some Create of its id was still to write.             *)
(* (registry.go:65 Load, whose scan runs outside the mutex; registry.go:87 *)
(* the test of Create, which two requests may pass)                        *)
THEOREM ScansForgetNothing == SkillSpec => OnlyOlderScanForgets
<1>1. ASSUME SkillInv, \A q \in SkillRequests : Scans(q), [NextSkills]_skillVars, NEW i \in Packs,
             registry[i].whole, ~registry'[i].whole
      PROVE  \E q \in SkillRequests : /\ request[q].pc = "read" /\ request'[q].pc # "read"
                                      /\ i \notin request[q].known
  <2>1. ~UNCHANGED registry
    BY <1>1
  <2>2. PICK q \in SkillRequests : Load(q)
    <3>1. ~UNCHANGED skillVars /\ \A j \in EditedPacks : ~EditPack(j)
      BY <2>1 DEF skillVars, EditPack
    <3>2. PICK q \in SkillRequests : RequestStep(q)
      BY <1>1, <3>1 DEF NextSkills
    <3>3. /\ \A j \in Packs : ~StatPack(q, j)
          /\ ~WritePack(q) /\ ~CreateFails(q) /\ ~BeginScan(q) /\ ~ReadPack(q)
          /\ ~All(q) /\ ~UpsertPack(q) /\ ~ReplaceReferences(q) /\ ~CommitSync(q) /\ ~SyncFails(q)
      BY <2>1 DEF StatPack, WritePack, CreateFails, BeginScan, ReadPack, All, UpsertPack,
                  ReplaceReferences, CommitSync, SyncFails
    <3>4. QED
      BY <3>2, <3>3 DEF RequestStep
  <2>3. /\ request[q].pc = "read" /\ request[q].names = {} /\ registry' = request[q].loaded
        /\ \/ EndRequest(q)
           \/ request' = [request EXCEPT ![q] = [IdleRequest EXCEPT !.pc = "all"]]
    BY <2>2 DEF Load
  <2>4. i \notin request[q].known
    BY <1>1, <2>3 DEF Scans
  <2>5. request'[q].pc # "read"
    BY <1>1, <2>3, Before, EndFits DEF EndRequest
  <2>6. QED
    BY <2>3, <2>4, <2>5
<1>2. SkillInv /\ (\A q \in SkillRequests : Scans(q)) /\ [NextSkills]_skillVars =>
        [ \A i \in Packs :
            registry[i].whole /\ ~registry'[i].whole =>
              \E q \in SkillRequests : /\ request[q].pc = "read" /\ request'[q].pc # "read"
                                       /\ i \notin request[q].known ]_skillVars
  BY <1>1
<1>3. QED
  BY <1>2, SkillsAlwaysFit, ScansFindSettledPacks, PTL DEF SkillSpec, OnlyOlderScanForgets

-----------------------------------------------------------------------------
(* The context engine.                                                     *)

(* Items with a number of tokens.                                          *)
Measured(I) == \A item \in I : item.tokens \in Nat

(* Total is a sum.                                                         *)
Sums(sum, items) ==
  sum[0] = 0 /\ \A n \in 1 .. Len(items) : sum[n] = sum[n - 1] + items[n].tokens

LEMMA TotalIsASum ==
  ASSUME NEW I, Measured(I), NEW items \in Seq(I)
  PROVE  \E sum \in [0 .. Len(items) -> Nat] : Sums(sum, items) /\ Total(items) = sum[Len(items)]
<1> DEFINE L == Len(items)
           step == [k \in 1 .. L |-> [v \in Nat |-> v + items[k].tokens]]
           Is(f) == f = [n \in 0 .. L |-> IF n = 0 THEN 0 ELSE f[n - 1] + items[n].tokens]
           sum == CHOOSE f : Is(f)
<1>1. \A n \in 1 .. L : items[n].tokens \in Nat
  BY DEF Measured
<1>2. step \in [1 .. L -> [Nat -> Nat]]
  BY <1>1
<1>3. L \in Nat /\ 0 \in Nat
  OBVIOUS
<1>4. PICK f \in [0 .. L -> Nat] : Follows(f, L, 0, step)
  <2> HIDE DEF step, L
  <2>1. QED
    BY <1>2, <1>3, RecursionExists
<1>5. \A k \in 1 .. L : f[k] = f[k - 1] + items[k].tokens
  <2>1. SUFFICES ASSUME NEW k \in 1 .. L PROVE f[k] = f[k - 1] + items[k].tokens
    OBVIOUS
  <2>2. k - 1 \in 0 .. L
    BY <1>3
  <2>3. f[k - 1] \in Nat /\ f[k] = step[k][f[k - 1]]
    BY <1>4, <2>2 DEF Follows
  <2>4. QED
    BY <2>3
<1>6. Is(f)
  BY <1>4, <1>5 DEF Follows
<1>7. Is(sum)
  <2> HIDE DEF Is
  <2>1. QED
    BY <1>6
<1>8. Total(items) = sum[L]
  BY DEF Total
<1> HIDE DEF sum
<1>9. sum[0] = 0 /\ \A k \in 1 .. L : sum[k] = sum[k - 1] + items[k].tokens
  <2>1. \A k \in 1 .. L : k \in 0 .. L /\ k # 0
    BY <1>3
  <2>2. \A n \in 0 .. L : sum[n] = IF n = 0 THEN 0 ELSE sum[n - 1] + items[n].tokens
    BY <1>7
  <2>3. 0 \in 0 .. L
    BY <1>3
  <2> HIDE DEF L, Is
  <2>4. QED
    BY <2>1, <2>2, <2>3
<1>10. \A k \in 0 .. L : sum[k] = f[k]
  <2>1. sum[0] = f[0]
    BY <1>4, <1>9 DEF Follows
  <2> HIDE DEF L, Is
  <2>2. \A k \in 1 .. L : sum[k - 1] = f[k - 1] => sum[k] = f[k]
    BY <1>5, <1>9
  <2>3. SameSteps(sum, f, L)
    BY <2>1, <2>2 DEF SameSteps
  <2>4. SameUpTo(sum, f, L)
    BY <1>3, <2>3, SameRecursion
  <2>5. QED
    BY <2>4 DEF SameUpTo
<1>11. Sums(f, items) /\ Total(items) = f[L]
  BY <1>3, <1>4, <1>5, <1>8, <1>10 DEF Follows, Sums
<1>12. QED
  BY <1>11

LEMMA TotalOfAppend ==
  ASSUME NEW I, Measured(I), NEW items \in Seq(I), NEW item \in I
  PROVE  Total(items) \in Nat /\ Total(Append(items, item)) = Total(items) + item.tokens
<1> DEFINE L == Len(items)
           more == Append(items, item)
<1>1. more \in Seq(I) /\ Len(more) = L + 1 /\ more[L + 1] = item /\ L \in Nat
  OBVIOUS
<1>2. \A k \in 1 .. L : more[k] = items[k]
  OBVIOUS
<1>3. PICK f \in [0 .. L -> Nat] : Sums(f, items) /\ Total(items) = f[L]
  BY TotalIsASum
<1>4. PICK g \in [0 .. L + 1 -> Nat] : Sums(g, more) /\ Total(more) = g[L + 1]
  BY <1>1, TotalIsASum
<1> HIDE DEF L, more
<1>5. g[0] = f[0] /\ \A k \in 1 .. L : g[k - 1] = f[k - 1] => g[k] = f[k]
  <2>1. g[0] = f[0]
    BY <1>3, <1>4 DEF Sums
  <2>2. SUFFICES ASSUME NEW k \in 1 .. L, g[k - 1] = f[k - 1] PROVE g[k] = f[k]
    BY <2>1
  <2>3. k \in 1 .. L + 1
    BY <1>1
  <2>4. f[k] = f[k - 1] + items[k].tokens
    BY <1>3 DEF Sums, L
  <2>5. g[k] = g[k - 1] + more[k].tokens
    BY <1>1, <1>4, <2>3 DEF Sums
  <2>6. QED
    BY <1>2, <2>2, <2>4, <2>5
<1>6. g[L] = f[L]
  <2>1. g[0] = f[0]
    BY <1>5
  <2>2. \A k \in 1 .. L : g[k - 1] = f[k - 1] => g[k] = f[k]
    BY <1>5
  <2>3. SameSteps(g, f, L)
    BY <2>1, <2>2 DEF SameSteps
  <2>4. SameUpTo(g, f, L)
    BY <1>1, <2>3, SameRecursion
  <2>5. QED
    BY <1>1, <2>4 DEF SameUpTo
<1>7. g[L + 1] = g[L] + item.tokens
  <2>1. L + 1 \in 1 .. L + 1 /\ L + 1 - 1 = L
    BY <1>1
  <2>2. g[L + 1] = g[L + 1 - 1] + more[L + 1].tokens
    BY <1>1, <1>4, <2>1 DEF Sums
  <2>3. QED
    BY <1>1, <2>1, <2>2
<1>8. QED
  BY <1>1, <1>3, <1>4, <1>6, <1>7 DEF more

LEMMA TotalOfNothing == Total(<< >>) = 0
<1>1. PICK f \in [0 .. 0 -> Nat] : Sums(f, << >>) /\ Total(<< >>) = f[0]
  <2>1. << >> \in Seq({}) /\ Measured({}) /\ Len(<< >>) = 0
    BY DEF Measured
  <2>2. QED
    BY <2>1, TotalIsASum
<1>2. QED
  BY <1>1 DEF Sums

-----------------------------------------------------------------------------
(* What TakeFitting has taken of the first items.                          *)
HasRoom(taken, items, wanted, limit, budget, n) ==
  /\ n \in wanted /\ Len(taken[n - 1]) < limit
  /\ Total(taken[n - 1]) + items[n].tokens <= budget

Takes(taken, items, wanted, limit, budget) ==
  /\ taken[0] = << >>
  /\ \A n \in 1 .. Len(items) :
       taken[n] = IF HasRoom(taken, items, wanted, limit, budget, n)
                  THEN Append(taken[n - 1], items[n]) ELSE taken[n - 1]

LEMMA TakeFittingTakes ==
  ASSUME NEW I, NEW items \in Seq(I), NEW wanted, NEW limit, NEW budget
  PROVE  \E taken \in [0 .. Len(items) -> Seq(I)] :
           /\ Takes(taken, items, wanted, limit, budget)
           /\ TakeFitting(items, wanted, limit, budget) = taken[Len(items)]
<1> DEFINE L == Len(items)
           Room(v, n) == n \in wanted /\ Len(v) < limit /\ Total(v) + items[n].tokens <= budget
           step == [k \in 1 .. L |-> [v \in Seq(I) |-> IF Room(v, k) THEN Append(v, items[k]) ELSE v]]
           Is(f) == f = [n \in 0 .. L |->
                           IF n = 0 THEN << >>
                           ELSE IF Room(f[n - 1], n) THEN Append(f[n - 1], items[n]) ELSE f[n - 1]]
           taken == CHOOSE f : Is(f)
<1>1. L \in Nat /\ << >> \in Seq(I) /\ \A n \in 1 .. L : items[n] \in I
  OBVIOUS
<1>2. step \in [1 .. L -> [Seq(I) -> Seq(I)]]
  <2>1. \A k \in 1 .. L, v \in Seq(I) : Append(v, items[k]) \in Seq(I)
    BY <1>1
  <2> HIDE DEF L, Room
  <2>2. QED
    BY <2>1, Zenon
<1>3. PICK f \in [0 .. L -> Seq(I)] : Follows(f, L, << >>, step)
  <2> HIDE DEF step, L
  <2>1. QED
    BY <1>1, <1>2, RecursionExists
<1>4. \A k \in 1 .. L : f[k] = IF Room(f[k - 1], k) THEN Append(f[k - 1], items[k]) ELSE f[k - 1]
  <2>1. SUFFICES ASSUME NEW k \in 1 .. L
                 PROVE  f[k] = IF Room(f[k - 1], k) THEN Append(f[k - 1], items[k]) ELSE f[k - 1]
    OBVIOUS
  <2>2. k - 1 \in 0 .. L
    BY <1>1
  <2>3. f[k - 1] \in Seq(I) /\ f[k] = step[k][f[k - 1]]
    BY <1>3, <2>2 DEF Follows
  <2> HIDE DEF Room, L
  <2>4. QED
    BY <2>3
<1>5. Is(f)
  <2>1. \A k \in 0 .. L : k # 0 => k \in 1 .. L
    BY <1>1
  <2>2. f[0] = << >> /\ f = [k \in 0 .. L |-> f[k]]
    BY <1>3 DEF Follows
  <2> HIDE DEF Room, L
  <2>3. QED
    BY <1>4, <2>1, <2>2
<1>6. Is(taken)
  <2> HIDE DEF Is
  <2>1. QED
    BY <1>5
<1>7. TakeFitting(items, wanted, limit, budget) = taken[L]
  BY DEF TakeFitting
<1> HIDE DEF taken, Room
<1>8. taken[0] = << >>
  BY <1>1, <1>6
<1>9. \A k \in 1 .. L : taken[k] = IF Room(taken[k - 1], k) THEN Append(taken[k - 1], items[k]) ELSE taken[k - 1]
  <2>1. \A k \in 1 .. L : k \in 0 .. L /\ k # 0
    BY <1>1
  <2>2. QED
    BY <1>6, <2>1
<1>10. \A k \in 0 .. L : taken[k] = f[k]
  <2>1. taken[0] = f[0]
    BY <1>3, <1>8 DEF Follows
  <2> HIDE DEF L, Is
  <2>2. \A k \in 1 .. L : taken[k - 1] = f[k - 1] => taken[k] = f[k]
    BY <1>4, <1>9
  <2>3. SameSteps(taken, f, L)
    BY <2>1, <2>2 DEF SameSteps
  <2>4. SameUpTo(taken, f, L)
    BY <1>1, <2>3, SameRecursion
  <2>5. QED
    BY <2>4 DEF SameUpTo
<1>11. Takes(f, items, wanted, limit, budget)
  BY <1>3, <1>4 DEF Takes, Follows, HasRoom, Room
<1>12. TakeFitting(items, wanted, limit, budget) = f[L]
  BY <1>1, <1>7, <1>10
<1>13. QED
  BY <1>11, <1>12

(* What is taken only grows, fits the budget, and is what was wanted and   *)
(* fitted, in order.                                                       *)
Kept(taken, items, wanted, limit, budget) ==
  {n \in 1 .. Len(items) : HasRoom(taken, items, wanted, limit, budget, n)}

Grown(taken, L, budget) ==
  /\ \A n \in 0 .. L : /\ Len(taken[n]) \in Nat /\ Len(taken[n]) <= n
                       /\ Total(taken[n]) \in Nat /\ Total(taken[n]) <= budget
  /\ \A i, k \in 0 .. L : i <= k => Len(taken[i]) <= Len(taken[k])
  /\ \A i, k \in 0 .. L : i <= k => Total(taken[i]) <= Total(taken[k])

LEMMA TakenGrows ==
  ASSUME NEW I, Measured(I), NEW items \in Seq(I), NEW wanted, NEW limit, NEW budget \in Nat,
         NEW taken \in [0 .. Len(items) -> Seq(I)], Takes(taken, items, wanted, limit, budget)
  PROVE  Grown(taken, Len(items), budget)
<1> DEFINE L == Len(items)
           len == [n \in 0 .. L |-> Len(taken[n])]
           total == [n \in 0 .. L |-> Total(taken[n])]
           S == {n \in 0 .. L : len[n] <= n /\ total[n] <= budget}
<1>1. L \in Nat /\ \A n \in 0 .. L : taken[n] \in Seq(I)
  OBVIOUS
<1>2. \A n \in 1 .. L : n \in 0 .. L /\ n - 1 \in 0 .. L /\ items[n] \in I /\ items[n].tokens \in Nat
  BY DEF Measured
<1>3. \A n \in 0 .. L : len[n] = Len(taken[n]) /\ total[n] = Total(taken[n])
  OBVIOUS
<1>4. \A n \in 0 .. L : len[n] \in Nat /\ total[n] \in Nat
  <2> SUFFICES ASSUME NEW n \in 0 .. L PROVE len[n] \in Nat /\ total[n] \in Nat
    OBVIOUS
  <2>1. taken[n] \in Seq(I) /\ Len(taken[n]) \in Nat
    BY <1>1
  <2>2. Total(taken[n]) \in Nat
    <3>1. PICK sum \in [0 .. Len(taken[n]) -> Nat] : Total(taken[n]) = sum[Len(taken[n])]
      BY <2>1, TotalIsASum
    <3>2. QED
      BY <2>1, <3>1
  <2>3. QED
    BY <1>3, <2>1, <2>2
<1>5. ASSUME NEW n \in 1 .. L
      PROVE  \/ /\ len[n] = len[n - 1] + 1 /\ total[n] = total[n - 1] + items[n].tokens
                /\ total[n] <= budget
             \/ len[n] = len[n - 1] /\ total[n] = total[n - 1]
  <2>1. taken[n - 1] \in Seq(I) /\ items[n] \in I
    BY <1>1, <1>2
  <2>2. CASE HasRoom(taken, items, wanted, limit, budget, n)
    <3>1. taken[n] = Append(taken[n - 1], items[n])
      BY <2>2 DEF Takes
    <3>2. Total(taken[n]) = Total(taken[n - 1]) + items[n].tokens
      BY <2>1, <3>1, TotalOfAppend
    <3>3. Len(taken[n]) = Len(taken[n - 1]) + 1
      BY <2>1, <3>1
    <3>4. Total(taken[n - 1]) + items[n].tokens <= budget
      BY <2>2 DEF HasRoom
    <3>5. QED
      BY <1>2, <1>3, <3>2, <3>3, <3>4
  <2>3. CASE ~HasRoom(taken, items, wanted, limit, budget, n)
    <3>1. taken[n] = taken[n - 1]
      BY <2>3 DEF Takes
    <3>2. QED
      BY <1>2, <1>3, <3>1
  <2>4. QED
    BY <2>2, <2>3
<1> HIDE DEF len, total
<1>6. len[0] = 0 /\ total[0] = 0
  <2>1. taken[0] = << >>
    BY DEF Takes
  <2>2. QED
    BY <1>1, <1>3, <2>1, TotalOfNothing
<1>7. 0 \in S
  BY <1>1, <1>6
<1>8. ASSUME NEW n \in 0 .. L - 1, n \in S PROVE n + 1 \in S
  <2>1. n + 1 \in 1 .. L /\ n + 1 - 1 = n /\ n \in 0 .. L /\ n + 1 \in 0 .. L
    BY <1>1
  <2>2. len[n] \in Nat /\ total[n] \in Nat /\ len[n] <= n /\ total[n] <= budget
    BY <1>4, <1>8, <2>1
  <2>3. \/ len[n + 1] = len[n] + 1 /\ total[n + 1] <= budget
        \/ len[n + 1] = len[n] /\ total[n + 1] = total[n]
    BY <1>5, <2>1
  <2>4. len[n + 1] <= n + 1 /\ total[n + 1] <= budget
    BY <2>1, <2>2, <2>3
  <2>5. QED
    BY <2>1, <2>4
<1>9. \A n \in 0 .. L : len[n] <= n /\ total[n] <= budget
  <2> HIDE DEF S
  <2>1. 0 .. L \subseteq S
    BY <1>1, <1>7, <1>8, CountingUp
  <2>2. QED
    BY <2>1 DEF S
<1>10. \A n \in 1 .. L : len[n - 1] <= len[n] /\ total[n - 1] <= total[n]
  <2> SUFFICES ASSUME NEW n \in 1 .. L PROVE len[n - 1] <= len[n] /\ total[n - 1] <= total[n]
    OBVIOUS
  <2>1. len[n - 1] \in Nat /\ total[n - 1] \in Nat /\ items[n].tokens \in Nat
    BY <1>2, <1>4
  <2>2. QED
    BY <1>5, <2>1
<1>11. Rises(len, L) /\ Rises(total, L)
  BY <1>4, <1>10 DEF Rises
<1>12. /\ \A i, k \in 0 .. L : i <= k => len[i] <= len[k]
       /\ \A i, k \in 0 .. L : i <= k => total[i] <= total[k]
  <2> HIDE DEF L
  <2>1. NeverBelow(len, L) /\ NeverBelow(total, L)
    BY <1>1, <1>11, NeverFalls
  <2>2. QED
    BY <2>1 DEF NeverBelow
<1>13. QED
  <2>1. \A n \in 0 .. L : /\ Len(taken[n]) \in Nat /\ Len(taken[n]) <= n
                          /\ Total(taken[n]) \in Nat /\ Total(taken[n]) <= budget
    BY <1>3, <1>4, <1>9
  <2>2. /\ \A i, k \in 0 .. L : i <= k => Len(taken[i]) <= Len(taken[k])
        /\ \A i, k \in 0 .. L : i <= k => Total(taken[i]) <= Total(taken[k])
    BY <1>3, <1>12
  <2>3. QED
    BY <2>1, <2>2 DEF Grown

LEMMA TakenPlaces ==
  ASSUME NEW I, NEW items \in Seq(I), NEW wanted, NEW limit, NEW budget,
         NEW taken \in [0 .. Len(items) -> Seq(I)], Takes(taken, items, wanted, limit, budget)
  PROVE  \E at : Places(at, taken[Len(items)], items, Kept(taken, items, wanted, limit, budget))
<1> DEFINE L == Len(items)
           keep == Kept(taken, items, wanted, limit, budget)
<1>1. L \in Nat /\ items \in [1 .. L -> I] /\ keep \in SUBSET (1 .. L)
  BY DEF Kept
<1>2. taken[0] = << >>
  BY DEF Takes
<1>3. \A n \in 1 .. L : taken[n] = IF n \in keep THEN Append(taken[n - 1], items[n]) ELSE taken[n - 1]
  BY DEF Takes, Kept
<1> HIDE DEF L, keep
<1>4. taken \in [0 .. L -> Seq(I)]
  BY DEF L
<1>5. Keeps(taken, items, keep, L)
  BY <1>2, <1>3 DEF Keeps
<1>6. PICK at : Places(at, taken[L], items, keep \cap (1 .. L))
  BY <1>1, <1>4, <1>5, KeptPlaces
<1>7. keep \cap (1 .. L) = keep
  BY <1>1
<1>8. QED
  BY <1>6, <1>7 DEF L, keep

-----------------------------------------------------------------------------
(* Preview                                                                 *)

PromptItem ==
  [source : {"system_context", "skill_context", "task_context", "memory_context", "skill_reference"},
   tokens : Nat]

LEMMA ListingType ==
  ASSUME NEW S, NEW most, NEW list \in Listing(S, most)
  PROVE  list \in Seq(S)
BY DEF Listing

(* One item for each number of a list.                                     *)
LEMMA ItemList ==
  ASSUME NEW list \in Seq(Nat), NEW source \in {"memory_context", "skill_reference"}
  PROVE  /\ [n \in DOMAIN list |-> Item(source, list[n])] \in Seq(PromptItem)
         /\ Len([n \in DOMAIN list |-> Item(source, list[n])]) \in Nat
         /\ \A n \in 1 .. Len([n \in DOMAIN list |-> Item(source, list[n])]) :
              [k \in DOMAIN list |-> Item(source, list[k])][n].source = source
<1> DEFINE items == [n \in DOMAIN list |-> Item(source, list[n])]
<1>1. Len(list) \in Nat /\ DOMAIN list = 1 .. Len(list)
  OBVIOUS
<1>2. \A n \in 1 .. Len(list) : list[n] \in Nat
  OBVIOUS
<1>3. \A n \in 1 .. Len(list) : Item(source, list[n]) \in PromptItem /\ Item(source, list[n]).source = source
  BY <1>2 DEF Item, PromptItem
<1> DEFINE made(n) == Item(source, list[n])
<1> HIDE DEF made
<1>4. [n \in 1 .. Len(list) |-> made(n)] \in [1 .. Len(list) -> PromptItem]
  BY <1>3 DEF made
<1>5. items = [n \in 1 .. Len(list) |-> made(n)]
  BY <1>1 DEF made
<1> HIDE DEF items
<1>6. items \in Seq(PromptItem) /\ Len(items) = Len(list)
  BY <1>1, <1>4, <1>5
<1>7. \A n \in 1 .. Len(items) : items[n].source = source
  BY <1>3, <1>5, <1>6 DEF made
<1>8. QED
  BY <1>1, <1>6, <1>7 DEF items

LEMMA MemoryItemsType ==
  ASSUME NEW memories \in Seq(Nat), NEW budget
  PROVE  /\ memoryContextItems(memories, budget) \in Seq(PromptItem)
         /\ \A n \in DOMAIN memoryContextItems(memories, budget) :
              ~IsTrusted(memoryContextItems(memories, budget)[n])
<1> DEFINE items == [n \in DOMAIN memories |-> Item("memory_context", memories[n])]
           L == Len(items)
           fits(n) == budget = 0 \/ Total(SubSeq(items, 1, n)) <= budget
           Ends(n) == (n = 0 \/ fits(n)) /\ (n = L \/ ~fits(n + 1))
           last == CHOOSE n \in 0 .. L : Ends(n)
<1>1. /\ items \in Seq(PromptItem) /\ L \in Nat
      /\ \A n \in 1 .. L : items[n].source = "memory_context"
  BY ItemList DEF PromptItem
<1>2. \A n \in 1 .. L : items[n].source = "memory_context"
  BY <1>1
<1>3. \E n \in 0 .. L : Ends(n)
  <2> SUFFICES ASSUME \A n \in 0 .. L : ~Ends(n) PROVE FALSE
    OBVIOUS
  <2> DEFINE S == {n \in 0 .. L : n = 0 \/ fits(n)}
  <2> HIDE DEF fits, L
  <2>1. 0 \in S
    BY <1>1
  <2>2. ASSUME NEW n \in 0 .. L - 1, n \in S PROVE n + 1 \in S
    <3>1. n \in 0 .. L /\ n # L /\ n + 1 \in 0 .. L
      BY <1>1
    <3>2. fits(n + 1)
      BY <2>2, <3>1
    <3>3. QED
      BY <3>1, <3>2
  <2> HIDE DEF S
  <2>3. 0 .. L \subseteq S
    BY <1>1, <2>1, <2>2, CountingUp
  <2>4. L \in 0 .. L
    BY <1>1
  <2>5. L \in S
    BY <2>3, <2>4
  <2>6. QED
    BY <2>4, <2>5 DEF S
<1>4. last \in 0 .. L
  <2> HIDE DEF Ends, L
  <2>1. QED
    BY <1>3
<1>5. memoryContextItems(memories, budget) = SubSeq(items, 1, last)
  BY DEF memoryContextItems
<1> HIDE DEF last, items, L
<1>6. \A n \in 1 .. last : items[n] \in PromptItem
  BY <1>1, <1>4 DEF L
<1>7. /\ SubSeq(items, 1, last) \in Seq(PromptItem)
      /\ \A n \in DOMAIN SubSeq(items, 1, last) : n \in 1 .. L /\ SubSeq(items, 1, last)[n] = items[n]
  BY <1>1, <1>4, <1>6 DEF L
<1>8. QED
  BY <1>2, <1>5, <1>7 DEF IsTrusted

(* What Preview puts together: the rules, then what is not one of them.    *)
RulesFirst(items, rules) ==
  /\ items \in Seq(PromptItem) /\ rules \in Seq(PromptItem)
  /\ Len(rules) = 3 /\ Len(items) >= 3
  /\ \A n \in 1 .. 3 : items[n] = rules[n]
  /\ \A n \in 4 .. Len(items) : ~IsTrusted(items[n])

LEMMA PreviewItemsType ==
  ASSUME NEW req \in PreviewRequest
  PROVE  RulesFirst(PreviewItems(req), Trusted(req))
<1> DEFINE memories == admitMemory(req)
           references == ReferenceItems(req)
           rules == Trusted(req)
<1>1. /\ req.instructions \in Nat
      /\ req.references \in Seq(Nat) /\ req.memories \in Seq(Nat)
  <2>1. req.references \in Listing(Tokens, MaxListed) /\ req.memories \in Listing(Tokens, MaxListed)
        /\ req.instructions \in Tokens
    BY DEF PreviewRequest
  <2>2. Tokens \subseteq Nat
    BY ContextAssumption DEF ContextAssumption
  <2>3. req.references \in Seq(Tokens) /\ req.memories \in Seq(Tokens)
    BY <2>1, ListingType
  <2>4. ASSUME NEW list \in Seq(Tokens) PROVE list \in Seq(Nat)
    <3>1. Len(list) \in Nat /\ list \in [1 .. Len(list) -> Tokens]
      OBVIOUS
    <3>2. list \in [1 .. Len(list) -> Nat]
      BY <2>2, <3>1
    <3>3. QED
      BY <3>1, <3>2
  <2>5. QED
    BY <2>1, <2>2, <2>3, <2>4
<1>2. rules \in Seq(PromptItem) /\ Len(rules) = 3
  BY <1>1 DEF Trusted, Item, PromptItem
<1>3. references \in Seq(PromptItem) /\ \A n \in 1 .. Len(references) : ~IsTrusted(references[n])
  <2>1. /\ references \in Seq(PromptItem)
        /\ \A n \in 1 .. Len(references) : references[n].source = "skill_reference"
    BY <1>1, ItemList DEF ReferenceItems
  <2>2. QED
    BY <2>1 DEF IsTrusted
<1>4. memories \in Seq(PromptItem) /\ \A n \in 1 .. Len(memories) : ~IsTrusted(memories[n])
  <2>1. CASE memories = << >>
    BY <2>1
  <2>2. CASE memories = memoryContextItems(req.memories, memoryTokenBudget(req.budget))
    <3> DEFINE taken == memoryContextItems(req.memories, memoryTokenBudget(req.budget))
    <3>1. taken \in Seq(PromptItem) /\ \A n \in DOMAIN taken : ~IsTrusted(taken[n])
      BY <1>1, MemoryItemsType
    <3> HIDE DEF taken
    <3>2. QED
      BY <2>2, <3>1 DEF taken
  <2>3. QED
    BY <2>1, <2>2 DEF admitMemory
<1>5. PreviewItems(req) = rules \o memories \o references
  BY DEF PreviewItems
<1> HIDE DEF rules, memories, references
<1> DEFINE front == rules \o memories
           items == front \o references
<1>6. /\ front \in Seq(PromptItem) /\ Len(front) = 3 + Len(memories) /\ Len(memories) \in Nat
      /\ \A n \in 1 .. Len(front) : front[n] = IF n <= 3 THEN rules[n] ELSE memories[n - 3]
  <2>1. Len(memories) \in Nat
    BY <1>4
  <2>0. rules \in Seq(PromptItem) /\ memories \in Seq(PromptItem)
    BY <1>2, <1>4
  <2>2. front \in Seq(PromptItem) /\ Len(front) = Len(rules) + Len(memories)
    BY <2>0
  <2>3. ASSUME NEW n \in 1 .. Len(front)
        PROVE  front[n] = IF n <= Len(rules) THEN rules[n] ELSE memories[n - Len(rules)]
    BY <1>2, <1>4, <2>2
  <2>4. QED
    BY <1>2, <2>1, <2>2, <2>3
<1> HIDE DEF front
<1>7. /\ items \in Seq(PromptItem) /\ Len(items) = Len(front) + Len(references) /\ Len(references) \in Nat
      /\ \A n \in 1 .. Len(items) : items[n] = IF n <= Len(front) THEN front[n] ELSE references[n - Len(front)]
  BY <1>3, <1>6
<1> HIDE DEF items
<1>8. \A n \in 1 .. 3 : items[n] = rules[n]
  BY <1>6, <1>7
<1>9. ASSUME NEW n \in 4 .. Len(items) PROVE ~IsTrusted(items[n])
  <2>1. CASE n <= Len(front)
    <3>1. n - 3 \in 1 .. Len(memories) /\ n \in 1 .. Len(front) /\ n \in 1 .. Len(items)
      BY <1>6, <1>7, <2>1
    <3>2. items[n] = memories[n - 3]
      BY <1>6, <1>7, <2>1, <3>1
    <3>3. QED
      BY <1>4, <3>1, <3>2
  <2>2. CASE n > Len(front)
    <3>1. n - Len(front) \in 1 .. Len(references) /\ n \in 1 .. Len(items)
      BY <1>6, <1>7, <2>2
    <3>2. items[n] = references[n - Len(front)]
      BY <1>6, <1>7, <2>2, <3>1
    <3>3. QED
      BY <1>3, <3>1, <3>2
  <2>3. QED
    BY <1>6, <2>1, <2>2
<1>10. RulesFirst(items, rules)
  BY <1>2, <1>6, <1>7, <1>8, <1>9 DEF RulesFirst
<1>11. QED
  BY <1>5, <1>10 DEF items, front, rules

LEMMA PackPromptTakes ==
  ASSUME NEW items \in Seq(PromptItem), NEW budget
  PROVE  \E taken \in [0 .. Len(items) -> Seq(PromptItem)] :
           /\ Takes(taken, items, DOMAIN items, Len(items), budget)
           /\ packPrompt(items, budget) = taken[Len(items)]
BY TakeFittingTakes DEF packPrompt

LEMMA RulesStayInFront ==
  ASSUME NEW items, NEW rules, RulesFirst(items, rules), NEW budget \in Nat
  PROVE  LET prompt == packPrompt(items, budget)
             kept == packPrompt(rules, budget)
         IN /\ Len(kept) <= Len(prompt)
            /\ \A n \in DOMAIN prompt :
                 IF n <= Len(kept) THEN prompt[n] = kept[n] ELSE ~IsTrusted(prompt[n])
            /\ Total(prompt) <= budget
<1> DEFINE L == Len(items)
<1>1. /\ items \in Seq(PromptItem) /\ rules \in Seq(PromptItem) /\ Len(rules) = 3
      /\ L \in Nat /\ L >= 3 /\ DOMAIN items = 1 .. L /\ DOMAIN rules = 1 .. 3
      /\ Measured(PromptItem)
  BY DEF RulesFirst, Measured, PromptItem
<1>2. PICK f \in [0 .. L -> Seq(PromptItem)] :
        Takes(f, items, DOMAIN items, L, budget) /\ packPrompt(items, budget) = f[L]
  BY <1>1, PackPromptTakes
<1>3. PICK g \in [0 .. 3 -> Seq(PromptItem)] :
        Takes(g, rules, DOMAIN rules, 3, budget) /\ packPrompt(rules, budget) = g[3]
  <2>1. \E g \in [0 .. Len(rules) -> Seq(PromptItem)] :
          /\ Takes(g, rules, DOMAIN rules, Len(rules), budget)
          /\ packPrompt(rules, budget) = g[Len(rules)]
    BY <1>1, PackPromptTakes
  <2>2. QED
    BY <1>1, <2>1
<1>4. Grown(f, L, budget)
  BY <1>1, <1>2, TakenGrows
<1>5. f[3] = g[3]
  <2>1. f[0] = g[0]
    BY <1>2, <1>3 DEF Takes
  <2>2. ASSUME NEW k \in 1 .. 3, f[k - 1] = g[k - 1] PROVE f[k] = g[k]
    <3>1. k \in 1 .. L /\ k - 1 \in 0 .. L /\ k - 1 <= 2
      BY <1>1
    <3>2. items[k] = rules[k]
      BY DEF RulesFirst
    <3>3. Len(f[k - 1]) \in Nat /\ Len(f[k - 1]) <= k - 1
      BY <1>4, <3>1 DEF Grown
    <3>4. Len(f[k - 1]) < L /\ Len(g[k - 1]) < 3
      BY <1>1, <2>2, <3>1, <3>3
    <3>5. HasRoom(f, items, DOMAIN items, L, budget, k) <=> HasRoom(g, rules, DOMAIN rules, 3, budget, k)
      BY <1>1, <2>2, <3>1, <3>2, <3>4 DEF HasRoom
    <3>6. f[k] = IF HasRoom(f, items, DOMAIN items, L, budget, k) THEN Append(f[k - 1], items[k]) ELSE f[k - 1]
      BY <1>2, <3>1 DEF Takes
    <3>7. g[k] = IF HasRoom(g, rules, DOMAIN rules, 3, budget, k) THEN Append(g[k - 1], rules[k]) ELSE g[k - 1]
      BY <1>1, <1>3 DEF Takes
    <3>8. QED
      BY <2>2, <3>2, <3>5, <3>6, <3>7
  <2>3. SameSteps(f, g, 3)
    BY <2>1, <2>2 DEF SameSteps
  <2>4. SameUpTo(f, g, 3)
    BY <2>3, SameRecursion
  <2>5. QED
    BY <2>4 DEF SameUpTo
<1> DEFINE kept == g[3]
           Good(v) == /\ Len(kept) <= Len(v)
                      /\ \A n \in 1 .. Len(v) : IF n <= Len(kept) THEN v[n] = kept[n] ELSE ~IsTrusted(v[n])
           S == {k \in 0 .. L : k >= 3 => Good(f[k])}
<1>6. Good(kept)
  <2>1. kept \in Seq(PromptItem)
    BY <1>3
  <2> HIDE DEF kept
  <2>2. QED
    BY <2>1
<1>7. ASSUME NEW v \in Seq(PromptItem), NEW item \in PromptItem, Good(v), ~IsTrusted(item)
      PROVE  Good(Append(v, item))
  <2>1. kept \in Seq(PromptItem) /\ Len(kept) \in Nat
    BY <1>3
  <2> HIDE DEF kept
  <2> DEFINE more == Append(v, item)
  <2>2. /\ Len(more) = Len(v) + 1 /\ Len(v) \in Nat /\ more[Len(v) + 1] = item
        /\ \A n \in 1 .. Len(v) : more[n] = v[n]
    OBVIOUS
  <2> HIDE DEF more
  <2>3. \A n \in 1 .. Len(more) : n = Len(v) + 1 \/ n \in 1 .. Len(v)
    BY <2>2
  <2>6. Len(kept) <= Len(v) /\ \A n \in 1 .. Len(v) : IF n <= Len(kept) THEN v[n] = kept[n] ELSE ~IsTrusted(v[n])
    BY <1>7
  <2>7. Len(kept) <= Len(more)
    BY <2>1, <2>2, <2>6
  <2>8. ASSUME NEW n \in 1 .. Len(more)
        PROVE  IF n <= Len(kept) THEN more[n] = kept[n] ELSE ~IsTrusted(more[n])
    <3>1. CASE n \in 1 .. Len(v)
      BY <2>2, <2>6, <3>1
    <3>2. CASE n = Len(v) + 1
      <4>1. ~(n <= Len(kept))
        BY <2>1, <2>2, <2>6, <3>2
      <4>2. QED
        BY <1>7, <2>2, <3>2, <4>1
    <3>3. QED
      BY <2>3, <3>1, <3>2
  <2>4. Good(more)
    BY <2>7, <2>8
  <2>5. QED
    BY <2>4 DEF more
<1>8. ASSUME NEW k \in 0 .. L - 1, k \in S PROVE k + 1 \in S
  <2>1. /\ k + 1 \in 1 .. L /\ k + 1 - 1 = k /\ k \in 0 .. L /\ k + 1 \in 0 .. L
    BY <1>1
  <2> HIDE DEF Good
  <2>2. CASE k + 1 < 3
    BY <2>1, <2>2
  <2>3. CASE k + 1 = 3
    BY <1>5, <1>6, <2>1, <2>3
  <2>4. CASE k + 1 > 3
    <3>0. k >= 3
      BY <2>1, <2>4
    <3>1. Good(f[k]) /\ f[k] \in Seq(PromptItem)
      BY <1>2, <1>8, <2>1, <3>0
    <3>2. items[k + 1] \in PromptItem /\ ~IsTrusted(items[k + 1])
      <4>1. k + 1 \in 4 .. L
        BY <1>1, <2>1, <2>4
      <4>2. QED
        BY <1>1, <2>1, <4>1 DEF RulesFirst
    <3>3. f[k + 1] = f[k] \/ f[k + 1] = Append(f[k], items[k + 1])
      <4>1. f[k + 1] = IF HasRoom(f, items, DOMAIN items, L, budget, k + 1)
                       THEN Append(f[k + 1 - 1], items[k + 1]) ELSE f[k + 1 - 1]
        BY <1>2, <2>1 DEF Takes
      <4>2. QED
        BY <2>1, <4>1
    <3>4. Good(f[k + 1])
      BY <1>7, <3>1, <3>2, <3>3
    <3>5. QED
      BY <2>1, <3>4
  <2>5. QED
    BY <2>1, <2>2, <2>3, <2>4
<1>9. Good(f[L])
  <2>1. 0 \in S
    BY <1>1
  <2> HIDE DEF S
  <2>2. 0 .. L \subseteq S
    BY <1>1, <1>8, <2>1, CountingUp
  <2>3. L \in 0 .. L
    BY <1>1
  <2>4. L \in S
    BY <2>2, <2>3
  <2>5. QED
    BY <1>1, <2>4 DEF S
<1>10. Total(f[L]) <= budget
  BY <1>1, <1>4 DEF Grown
<1>11. DOMAIN f[L] = 1 .. Len(f[L])
  BY <1>1, <1>2
<1>12. QED
  BY <1>2, <1>3, <1>9, <1>10, <1>11

-----------------------------------------------------------------------------
(* Retrieve                                                                *)

RetrievalItem == [source : DOMAIN SourceOrder, tokens : Nat, score : Nat]

LEMMA keywordScoreType ==
  ASSUME NEW terms \in 0 .. 2, NEW blank \in BOOLEAN, NEW matched \in 0 .. 2
  PROVE  keywordScore(terms, blank, LessOrEqual(matched, terms)) \in Nat
<1>1. CASE terms = 0
  BY <1>1 DEF keywordScore
<1>2. CASE terms = 1
  BY <1>2 DEF keywordScore, LessOrEqual
<1>3. CASE terms = 2
  BY <1>3 DEF keywordScore, LessOrEqual
<1>4. QED
  BY <1>1, <1>2, <1>3

LEMMA CandidatesType ==
  ASSUME NEW req \in RetrievalRequest
  PROVE  Candidates(req) \in Seq(RetrievalItem)
<1>1. Tokens \subseteq Nat
  BY ContextAssumption DEF ContextAssumption
<1>2. req.terms \in 0 .. 2
  BY DEF RetrievalRequest
<1>3. referenceRetrievalItems(req) \in Seq(RetrievalItem)
  <2> DEFINE R == Reference
             L == 2 * Len(req.references)
             list == referenceRetrievalItems(req)
  <2>1. req.references \in Seq(R)
    <3>1. req.references \in Listing(R, MaxSources)
      BY DEF RetrievalRequest
    <3> HIDE DEF R
    <3>2. QED
      BY <3>1, ListingType
  <2>2. L \in Nat /\ \A n \in 1 .. L : req.references[(n + 1) \div 2] \in R
    <3>1. Len(req.references) \in Nat /\ \A k \in 1 .. Len(req.references) : req.references[k] \in R
      <4> HIDE DEF R
      <4>1. QED
        BY <2>1, ElementsOf
    <3>2. \A n \in 1 .. L : (n + 1) \div 2 \in 1 .. Len(req.references)
      BY <3>1
    <3> HIDE DEF R
    <3>3. QED
      BY <3>1, <3>2
  <2> DEFINE ref(n) == req.references[(n + 1) \div 2]
             score(n) == keywordScore(req.terms, ref(n).blank, LessOrEqual(ref(n).matched, req.terms))
             less(n) == keywordScore(req.terms, ref(n).blank, LessOrEqual(ref(n).summarized, req.terms))
             item(n) == IF n % 2 = 1 THEN Scored("skill_reference_full_text", ref(n).tokens, score(n))
                        ELSE Scored("skill_reference_summary", ref(n).summary, (less(n) * 9) \div 10)
  <2>3. ASSUME NEW n \in 1 .. L PROVE item(n) \in RetrievalItem
    <3>1. ref(n) \in R
      BY <2>2
    <3>2. /\ ref(n).tokens \in Nat /\ ref(n).summary \in Nat /\ ref(n).blank \in BOOLEAN
          /\ ref(n).matched \in 0 .. 2 /\ ref(n).summarized \in 0 .. 2
      BY <1>1, <3>1 DEF Reference
    <3>3. score(n) \in Nat /\ less(n) \in Nat
      BY <1>2, <3>2, keywordScoreType
    <3> HIDE DEF score, less, ref
    <3>4. (less(n) * 9) \div 10 \in Nat
      BY <3>3
    <3>5. QED
      BY <3>2, <3>3, <3>4 DEF Scored, RetrievalItem, SourceOrder
  <2>4. list = [n \in 1 .. L |-> item(n)]
    BY DEF referenceRetrievalItems
  <2> HIDE DEF item, L, list
  <2>5. list \in [1 .. L -> RetrievalItem]
    BY <2>3, <2>4
  <2>6. QED
    BY <2>2, <2>5, ListOf DEF list
<1>4. recentHistoryRetrievalItems(req) \in Seq(RetrievalItem)
  <2> DEFINE R == [tokens : Tokens, matched : 0 .. 2]
             L == Len(req.turns)
             score(n) == keywordScore(req.terms, FALSE, LessOrEqual(req.turns[n].matched, req.terms))
             item(n) == Scored("recent_history", req.turns[n].tokens,
                               IF score(n) > 0 THEN LessOrEqual(score(n) + 800, 10000) ELSE 0)
             list == recentHistoryRetrievalItems(req)
  <2>1. CASE ~req.hasSession
    BY <2>1 DEF recentHistoryRetrievalItems
  <2>2. CASE req.hasSession
    <3>1. req.turns \in Seq(R)
      <4>1. req.turns \in Listing(R, MaxSources)
        BY DEF RetrievalRequest
      <4> HIDE DEF R
      <4>2. QED
        BY <4>1, ListingType
    <3>2. L \in Nat /\ DOMAIN req.turns = 1 .. L /\ \A n \in 1 .. L : req.turns[n] \in R
      <4> HIDE DEF R
      <4>1. QED
        BY <3>1, ElementsOf
    <3>3. ASSUME NEW n \in 1 .. L PROVE item(n) \in RetrievalItem
      <4>1. req.turns[n].tokens \in Nat /\ req.turns[n].matched \in 0 .. 2
        BY <1>1, <3>2
      <4>2. score(n) \in Nat
        BY <1>2, <4>1, keywordScoreType
      <4> HIDE DEF score
      <4>3. QED
        BY <4>1, <4>2 DEF Scored, RetrievalItem, SourceOrder, LessOrEqual
    <3>4. list = [n \in 1 .. L |-> item(n)]
      BY <2>2, <3>2 DEF recentHistoryRetrievalItems
    <3> HIDE DEF item, L, list
    <3>5. list \in [1 .. L -> RetrievalItem]
      BY <3>3, <3>4
    <3>6. QED
      BY <3>2, <3>5, ListOf DEF list
  <2>3. QED
    BY <2>1, <2>2
<1>5. memoryRetrievalItems(req) \in Seq(RetrievalItem)
  <2> DEFINE R == [tokens : Tokens, score : {0, 5000}, confidence : {0, 9000}]
             L == Len(req.memories)
             item(n) == Scored("approved_memory", req.memories[n].tokens,
                               IF req.memories[n].score = 0 THEN req.memories[n].confidence
                               ELSE req.memories[n].score)
             list == memoryRetrievalItems(req)
  <2>1. CASE ~(taskAllowsMemory(req.task) /\ req.hasUser)
    BY <2>1 DEF memoryRetrievalItems
  <2>2. CASE taskAllowsMemory(req.task) /\ req.hasUser
    <3>1. req.memories \in Seq(R)
      <4>1. req.memories \in Listing(R, MaxSources)
        BY DEF RetrievalRequest
      <4> HIDE DEF R
      <4>2. QED
        BY <4>1, ListingType
    <3>2. L \in Nat /\ DOMAIN req.memories = 1 .. L /\ \A n \in 1 .. L : req.memories[n] \in R
      <4> HIDE DEF R
      <4>1. QED
        BY <3>1, ElementsOf
    <3>3. ASSUME NEW n \in 1 .. L PROVE item(n) \in RetrievalItem
      <4>1. /\ req.memories[n].tokens \in Nat /\ req.memories[n].score \in Nat
            /\ req.memories[n].confidence \in Nat
        <5>1. req.memories[n] \in R
          BY <3>2
        <5>2. \A m \in R : m.tokens \in Tokens /\ m.score \in {0, 5000} /\ m.confidence \in {0, 9000}
          OBVIOUS
        <5> HIDE DEF R
        <5>3. /\ req.memories[n].tokens \in Tokens
              /\ req.memories[n].score \in {0, 5000} /\ req.memories[n].confidence \in {0, 9000}
          BY <5>1, <5>2
        <5> DEFINE tokens == req.memories[n].tokens
        <5>4. tokens \in Nat
          <6>1. tokens \in Tokens
            BY <5>3
          <6> HIDE DEF tokens
          <6>2. QED
            BY <1>1, <6>1
        <5>5. req.memories[n].score \in Nat /\ req.memories[n].confidence \in Nat
          BY <5>3
        <5>6. QED
          BY <5>4, <5>5
      <4>2. QED
        BY <4>1 DEF Scored, RetrievalItem, SourceOrder
    <3>4. list = [n \in 1 .. L |-> item(n)]
      BY <2>2, <3>2 DEF memoryRetrievalItems
    <3> HIDE DEF item, L, list
    <3>5. list \in [1 .. L -> RetrievalItem]
      BY <3>3, <3>4
    <3>6. QED
      BY <3>2, <3>5, ListOf DEF list
  <2>3. QED
    BY <2>1, <2>2
<1>6. QED
  BY <1>3, <1>4, <1>5 DEF Candidates

(* The ranking is the candidates, each once, the best scores first.        *)
RanksOf(rank, ranked, items) ==
  /\ ranked \in Seq(RetrievalItem) /\ Len(ranked) = Len(items)
  /\ rank \in [1 .. Len(items) -> 1 .. Len(items)]
  /\ \A n \in 1 .. Len(items) : ranked[n] = items[rank[n]]
  /\ \A i \in 1 .. Len(items) : \E n \in 1 .. Len(items) : rank[n] = i
  /\ \A k, m \in 1 .. Len(items) : k < m => ranked[k].score >= ranked[m].score

LEMMA RankedRanks ==
  ASSUME NEW items \in Seq(RetrievalItem)
  PROVE  \E rank : RanksOf(rank, Ranked(items), items)
<1> DEFINE L == Len(items)
           Earlier(i, j) ==
             \/ items[i].score > items[j].score
             \/ /\ items[i].score = items[j].score
                /\ \/ SourceOrder[items[i].source] < SourceOrder[items[j].source]
                   \/ items[i].source = items[j].source /\ i < j
           first(i) == {j \in 1 .. L : Earlier(j, i)}
           before == [i \in 1 .. L |-> first(i)]
           At(k) == CHOOSE i \in 1 .. L : Cardinality(first(i)) = k - 1
           rank == [k \in 1 .. L |-> At(k)]
<1>1. L \in Nat /\ DOMAIN items = 1 .. L /\ \A n \in 1 .. L : items[n] \in RetrievalItem
  BY ElementsOf
<1>2. \A i \in 1 .. L : items[i].score \in Nat /\ SourceOrder[items[i].source] \in Nat
  BY <1>1 DEF RetrievalItem, SourceOrder
<1>3. \A a, b \in DOMAIN SourceOrder : SourceOrder[a] = SourceOrder[b] => a = b
  BY DEF SourceOrder
<1>4. \A i \in 1 .. L : items[i].source \in DOMAIN SourceOrder
  BY <1>1 DEF RetrievalItem
<1>5. /\ \A i \in 1 .. L : ~Earlier(i, i)
      /\ \A i, j \in 1 .. L : i # j => Earlier(i, j) \/ Earlier(j, i)
      /\ \A i, j, k \in 1 .. L : Earlier(k, i) /\ Earlier(i, j) => Earlier(k, j)
  <2>1. \A i \in 1 .. L : ~Earlier(i, i)
    BY <1>1, <1>2
  <2>2. \A i, j \in 1 .. L : i # j => Earlier(i, j) \/ Earlier(j, i)
    BY <1>1, <1>2, <1>3, <1>4
  <2>3. \A i, j, k \in 1 .. L : Earlier(k, i) /\ Earlier(i, j) => Earlier(k, j)
    BY <1>1, <1>2
  <2>4. QED
    BY <2>1, <2>2, <2>3
<1> HIDE DEF Earlier
<1>6. OrdersAll(before, L)
  BY <1>5 DEF OrdersAll
<1>7. \A i \in 1 .. L : before[i] = first(i)
  OBVIOUS
<1> HIDE DEF before, first
<1>8. \A k \in 1 .. L : \E i \in 1 .. L : Cardinality(first(i)) = k - 1
  BY <1>1, <1>6, <1>7, CountingSorts
<1>9. \A k \in 1 .. L : At(k) \in 1 .. L /\ Cardinality(first(At(k))) = k - 1
  BY <1>8
<1>10. Ranked(items) = [k \in 1 .. L |-> items[At(k)]]
  BY <1>1 DEF Ranked, first, Earlier
<1> HIDE DEF At
<1>11. Counts(rank, before, L)
  BY <1>7, <1>9 DEF Counts
<1>12. SortedBy(rank, before, L)
  BY <1>1, <1>6, <1>11, CountingOrders
<1>13. /\ rank \in [1 .. L -> 1 .. L]
       /\ \A k \in 1 .. L : Ranked(items)[k] = items[rank[k]] /\ rank[k] \in 1 .. L
  BY <1>9, <1>10
<1>14. Ranked(items) \in Seq(RetrievalItem) /\ Len(Ranked(items)) = L
  <2>1. Ranked(items) \in [1 .. L -> RetrievalItem]
    BY <1>1, <1>9, <1>10
  <2> HIDE DEF L
  <2>2. QED
    BY <1>1, <2>1, ListOf
<1> HIDE DEF rank
<1>15. ASSUME NEW k \in 1 .. L, NEW m \in 1 .. L, k < m
       PROVE  Ranked(items)[k].score >= Ranked(items)[m].score
  <2>1. rank[k] \in first(rank[m])
    BY <1>7, <1>12, <1>13, <1>15 DEF SortedBy
  <2>2. Earlier(rank[k], rank[m])
    BY <2>1 DEF first
  <2>3. items[rank[k]].score >= items[rank[m]].score
    BY <1>2, <1>13, <2>2 DEF Earlier
  <2>4. QED
    BY <1>13, <2>3
<1>16. RanksOf(rank, Ranked(items), items)
  BY <1>12, <1>13, <1>14, <1>15 DEF RanksOf, SortedBy
<1>17. QED
  BY <1>16

-----------------------------------------------------------------------------
(* What is left out of the selection                                       *)

Times(item, items) == Cardinality({n \in DOMAIN items : items[n] = item})

(* A candidate selected less often than it came has a place in the ranking *)
(* that was not kept.                                                      *)
LEMMA SomePlaceIsLeftOut ==
  ASSUME NEW all \in Seq(RetrievalItem), NEW ranked, NEW rank, RanksOf(rank, ranked, all),
         NEW chosen \in Seq(RetrievalItem), NEW keep \in SUBSET (1 .. Len(all)), NEW at,
         Places(at, chosen, ranked, keep), NEW item, Times(item, chosen) < Times(item, all)
  PROVE  \E k \in 1 .. Len(all) : k \notin keep /\ ranked[k] = item
<1> SUFFICES ASSUME \A k \in 1 .. Len(all) : ranked[k] = item => k \in keep PROVE FALSE
  OBVIOUS
<1> DEFINE L == Len(all)
           M == Len(chosen)
           came == {n \in 1 .. L : all[n] = item}
           taken == {m \in 1 .. M : chosen[m] = item}
           to == [n \in came |-> CHOOSE m \in 1 .. M : rank[at[m]] = n]
<1>1. L \in Nat /\ M \in Nat /\ DOMAIN all = 1 .. L /\ DOMAIN chosen = 1 .. M
  OBVIOUS
<1> HIDE DEF L, M
<1>2. ASSUME NEW n \in came PROVE \E m \in 1 .. M : rank[at[m]] = n
  <2>1. PICK k \in 1 .. L : rank[k] = n
    BY DEF RanksOf, L
  <2>2. ranked[k] = item
    BY <2>1 DEF RanksOf, L
  <2>3. k \in keep
    BY <2>2 DEF L
  <2>4. PICK m \in 1 .. M : at[m] = k
    BY <2>3 DEF Places, M
  <2>5. QED
    BY <2>1, <2>4
<1>3. \A n \in came : to[n] \in 1 .. M /\ rank[at[to[n]]] = n
  BY <1>2
<1> HIDE DEF to
<1>4. ASSUME NEW n \in came PROVE to[n] \in taken
  <2>1. to[n] \in 1 .. M /\ rank[at[to[n]]] = n
    BY <1>3
  <2>2. at[to[n]] \in 1 .. L /\ chosen[to[n]] = ranked[at[to[n]]]
    BY <2>1 DEF Places, M, L
  <2>3. ranked[at[to[n]]] = all[rank[at[to[n]]]]
    BY <2>2 DEF RanksOf, L
  <2>4. QED
    BY <2>1, <2>2, <2>3
<1>5. to \in [came -> taken]
  BY <1>4 DEF to
<1>6. \A i, j \in came : to[i] = to[j] => i = j
  BY <1>3
<1>7. to \in Injection(came, taken)
  BY <1>5, <1>6, Fun_IsInj
<1>8. IsFiniteSet(taken) /\ Cardinality(taken) \in Nat
  <2>1. IsFiniteSet(1 .. M)
    BY <1>1, FS_Interval
  <2>2. IsFiniteSet(taken)
    BY <2>1, FS_Subset
  <2>3. QED
    BY <2>2, FS_CardinalityType
<1>9. IsFiniteSet(came) /\ Cardinality(came) <= Cardinality(taken)
  BY <1>7, <1>8, FS_Injection
<1>10. Cardinality(came) \in Nat
  BY <1>9, FS_CardinalityType
<1>11. Times(item, chosen) = Cardinality(taken) /\ Times(item, all) = Cardinality(came)
  BY <1>1 DEF Times
<1>12. QED
  BY <1>8, <1>9, <1>10, <1>11

LEMMA SelectionTakes ==
  ASSUME NEW items \in Seq(RetrievalItem), NEW limit, NEW budget
  PROVE  \E taken \in [0 .. Len(items) -> Seq(RetrievalItem)] :
           /\ Takes(taken, items, {n \in DOMAIN items : items[n].score > 0}, limit, budget)
           /\ selectRetrievalItems(items, limit, budget) = taken[Len(items)]
<1> DEFINE wanted == {n \in DOMAIN items : items[n].score > 0}
<1>1. selectRetrievalItems(items, limit, budget) = TakeFitting(items, wanted, limit, budget)
  BY DEF selectRetrievalItems
<1> HIDE DEF wanted
<1>2. \E taken \in [0 .. Len(items) -> Seq(RetrievalItem)] :
        /\ Takes(taken, items, wanted, limit, budget)
        /\ TakeFitting(items, wanted, limit, budget) = taken[Len(items)]
  BY TakeFittingTakes
<1>3. QED
  BY <1>1, <1>2 DEF wanted

LEMMA SelectionLeavesNoRoom ==
  ASSUME NEW all \in Seq(RetrievalItem), NEW limit \in Nat, NEW budget \in Nat,
         NEW chosen, chosen = selectRetrievalItems(Ranked(all), limit, budget),
         NEW item \in RetrievalItem, item.score > 0, Times(item, chosen) < Times(item, all)
  PROVE  /\ Len(chosen) < limit => Total(chosen) + item.tokens > budget
         /\ \A k \in DOMAIN chosen : chosen[k].tokens >= item.tokens => chosen[k].score >= item.score
<1> DEFINE ranked == Ranked(all)
           L == Len(all)
           wanted == {n \in DOMAIN ranked : ranked[n].score > 0}
<1>1. PICK rank : RanksOf(rank, ranked, all)
  BY RankedRanks
<1> HIDE DEF ranked, wanted
<1>2. ranked \in Seq(RetrievalItem) /\ Len(ranked) = L /\ L \in Nat /\ DOMAIN ranked = 1 .. L
  BY <1>1 DEF RanksOf
<1>3. \A n \in 1 .. L : ranked[n] \in RetrievalItem /\ ranked[n].score \in Nat /\ ranked[n].tokens \in Nat
  <2>1. \A n \in 1 .. L : ranked[n] \in RetrievalItem
    <3> HIDE DEF L
    <3>1. QED
      BY <1>2, ElementsOf
  <2>2. QED
    BY <2>1 DEF RetrievalItem
<1>4. item.score \in Nat /\ item.tokens \in Nat /\ Measured(RetrievalItem)
  BY DEF RetrievalItem, Measured
<1>5. PICK taken \in [0 .. L -> Seq(RetrievalItem)] :
        Takes(taken, ranked, wanted, limit, budget) /\ chosen = taken[L]
  <2>1. chosen = selectRetrievalItems(ranked, limit, budget)
    BY DEF ranked
  <2>2. \E taken \in [0 .. Len(ranked) -> Seq(RetrievalItem)] :
          /\ Takes(taken, ranked, wanted, limit, budget)
          /\ selectRetrievalItems(ranked, limit, budget) = taken[Len(ranked)]
    BY <1>2, SelectionTakes DEF wanted
  <2>3. QED
    BY <1>2, <2>1, <2>2
<1> DEFINE keep == Kept(taken, ranked, wanted, limit, budget)
<1>6. Grown(taken, L, budget)
  <2>1. taken \in [0 .. Len(ranked) -> Seq(RetrievalItem)]
    BY <1>2
  <2>2. Grown(taken, Len(ranked), budget)
    BY <1>2, <1>4, <1>5, <2>1, TakenGrows
  <2>3. QED
    BY <1>2, <2>2
<1>7. PICK at : Places(at, chosen, ranked, keep)
  <2>1. taken \in [0 .. Len(ranked) -> Seq(RetrievalItem)]
    BY <1>2
  <2>2. \E at : Places(at, taken[Len(ranked)], ranked, keep)
    BY <1>2, <1>5, <2>1, TakenPlaces
  <2>3. QED
    BY <1>2, <1>5, <2>2
<1>8. chosen \in Seq(RetrievalItem) /\ keep \in SUBSET (1 .. L)
  BY <1>2, <1>5 DEF Kept
<1> HIDE DEF L
<1>9. PICK gap \in 1 .. L : gap \notin keep /\ ranked[gap] = item
  <2> HIDE DEF keep
  <2>1. QED
    BY <1>1, <1>7, <1>8, SomePlaceIsLeftOut DEF L
<1>10. gap \in wanted
  BY <1>2, <1>9 DEF wanted
<1>11. ~HasRoom(taken, ranked, wanted, limit, budget, gap)
  BY <1>2, <1>9 DEF Kept
<1>12. /\ gap - 1 \in 0 .. L /\ L \in 0 .. L /\ gap - 1 <= L
       /\ \A n \in 0 .. L : Len(taken[n]) \in Nat /\ Total(taken[n]) \in Nat
  <2>1. gap - 1 \in 0 .. L /\ L \in 0 .. L /\ gap - 1 <= L
    BY <1>2
  <2>2. QED
    BY <1>6, <2>1 DEF Grown
<1>13. ~(Len(taken[gap - 1]) < limit /\ Total(taken[gap - 1]) + item.tokens <= budget)
  BY <1>9, <1>10, <1>11 DEF HasRoom
<1>14. ASSUME Len(chosen) < limit PROVE Total(chosen) + item.tokens > budget
  <2>1. Len(taken[gap - 1]) <= Len(taken[L]) /\ Total(taken[gap - 1]) <= Total(taken[L])
    BY <1>6, <1>12 DEF Grown
  <2>2. /\ Len(taken[gap - 1]) \in Nat /\ Len(taken[L]) \in Nat
        /\ Total(taken[gap - 1]) \in Nat /\ Total(taken[L]) \in Nat
    BY <1>12
  <2>3. QED
    BY <1>4, <1>5, <1>13, <1>14, <2>1, <2>2
<1>15. ASSUME NEW k \in DOMAIN chosen, chosen[k].tokens >= item.tokens
       PROVE  chosen[k].score >= item.score
  <2>1. k \in 1 .. Len(chosen)
    BY <1>8
  <2>2. at[k] \in keep /\ chosen[k] = ranked[at[k]]
    BY <1>7, <2>1 DEF Places
  <2>3. at[k] \in 1 .. L /\ at[k] # gap
    BY <1>8, <1>9, <2>2
  <2> DEFINE place == at[k]
  <2>4. HasRoom(taken, ranked, wanted, limit, budget, place)
    BY <2>2 DEF Kept
  <2>5. /\ place - 1 \in 0 .. L /\ Len(taken[place - 1]) < limit
        /\ Total(taken[place - 1]) + ranked[place].tokens <= budget
    BY <1>2, <2>3, <2>4 DEF HasRoom
  <2> HIDE DEF place
  <2>6. place \in 1 .. L /\ place # gap /\ chosen[k] = ranked[place]
    BY <2>2, <2>3 DEF place
  <2>7. CASE place < gap
    BY <1>1, <1>9, <2>6, <2>7 DEF RanksOf, L
  <2>8. CASE place > gap
    <3>1. gap - 1 <= place - 1
      BY <1>2, <2>6, <2>8
    <3>2. Len(taken[gap - 1]) <= Len(taken[place - 1]) /\ Total(taken[gap - 1]) <= Total(taken[place - 1])
      BY <1>6, <1>12, <2>5, <3>1 DEF Grown
    <3>3. /\ Len(taken[gap - 1]) \in Nat /\ Len(taken[place - 1]) \in Nat
          /\ Total(taken[gap - 1]) \in Nat /\ Total(taken[place - 1]) \in Nat
          /\ ranked[place].tokens \in Nat /\ ranked[place].tokens >= item.tokens
      BY <1>3, <1>12, <1>15, <2>5, <2>6
    <3>4. QED
      BY <1>4, <1>13, <2>5, <3>2, <3>3
  <2>9. QED
    BY <1>2, <2>6, <2>7, <2>8
<1>16. QED
  BY <1>14, <1>15

-----------------------------------------------------------------------------
(* The answer is the one to the request made.                              *)
ContextInv ==
  \/ asking = NotAsked
  \/ /\ asking.kind = "preview" /\ asking.req \in PreviewRequest
     /\ answer = Preview(asking.req)
  \/ /\ asking.kind = "retrieval" /\ asking.req \in RetrievalRequest
     /\ answer = Retrieve(asking.req)

LEMMA ContextInvariant == ContextSpec => []ContextInv
<1>1. InitContext => ContextInv
  BY DEF InitContext, ContextInv
<1>2. ContextInv /\ [NextContext]_contextVars => ContextInv'
  <2> SUFFICES ASSUME ContextInv, [NextContext]_contextVars PROVE ContextInv'
    OBVIOUS
  <2>1. CASE AskPreview
    <3>1. PICK req \in PreviewRequest :
            asking' = [kind |-> "preview", req |-> req] /\ answer' = Preview(req)
      BY <2>1 DEF AskPreview
    <3>2. QED
      BY <3>1 DEF ContextInv
  <2>2. CASE AskRetrieval
    <3>1. PICK req \in RetrievalRequest :
            asking' = [kind |-> "retrieval", req |-> req] /\ answer' = Retrieve(req)
      BY <2>2 DEF AskRetrieval
    <3>2. QED
      BY <3>1 DEF ContextInv
  <2>3. CASE UNCHANGED contextVars
    BY <2>3 DEF contextVars, ContextInv
  <2>4. QED
    BY <2>1, <2>2, <2>3 DEF NextContext
<1>3. QED
  BY <1>1, <1>2, PTL DEF ContextSpec

(* Whatever memories and references a task comes with, the prompt begins   *)
(* with the same rules, skill and task instruction as without them, has    *)
(* none of them further on, and fits the budget.  (engine.go:76 Preview,   *)
(* :181 packPrompt)                                                        *)
THEOREM RulesAreNeverDisplaced == ContextSpec => []MemoryNeverDisplacesRules
<1>1. ContextInv => MemoryNeverDisplacesRules
  <2> SUFFICES ASSUME ContextInv, asking.kind = "preview" PROVE MemoryNeverDisplacesRules
    BY DEF MemoryNeverDisplacesRules
  <2> DEFINE req == asking.req
  <2>1. req \in PreviewRequest /\ answer = Preview(req)
    BY DEF ContextInv, NotAsked
  <2>2. req.budget \in Nat
    BY <2>1, ContextAssumption DEF PreviewRequest, ContextAssumption
  <2>3. RulesFirst(PreviewItems(req), Trusted(req))
    BY <2>1, PreviewItemsType
  <2>4. answer.prompt = packPrompt(PreviewItems(req), req.budget)
    BY <2>1 DEF Preview
  <2> DEFINE items == PreviewItems(req)
             rules == Trusted(req)
             budget == req.budget
  <2> HIDE DEF items, rules, budget
  <2>5. /\ Len(packPrompt(rules, budget)) <= Len(packPrompt(items, budget))
        /\ \A n \in DOMAIN packPrompt(items, budget) :
             IF n <= Len(packPrompt(rules, budget))
             THEN packPrompt(items, budget)[n] = packPrompt(rules, budget)[n]
             ELSE ~IsTrusted(packPrompt(items, budget)[n])
        /\ Total(packPrompt(items, budget)) <= budget
    BY <2>2, <2>3, RulesStayInFront DEF items, rules, budget
  <2>6. QED
    BY <2>4, <2>5 DEF MemoryNeverDisplacesRules, items, rules, budget
<1>2. QED
  BY <1>1, ContextInvariant, PTL

(* A retrieval leaves out nothing it had room for, and nothing in favour   *)
(* of a candidate that scores less and is no smaller.  (retrieval.go:126   *)
(* the sort, :315 selectRetrievalItems)                                    *)
THEOREM SelectionsAreMaximal == ContextSpec => []SelectionIsMaximal
<1>1. ContextInv => SelectionIsMaximal
  <2> SUFFICES ASSUME ContextInv, asking.kind = "retrieval" PROVE SelectionIsMaximal
    BY DEF SelectionIsMaximal
  <2> DEFINE req == asking.req
             all == Candidates(req)
             limit == retrievalLimit(req.limit)
             budget == RetrievalBudget(req.budget)
  <2>1. req \in RetrievalRequest /\ answer = Retrieve(req)
    BY DEF ContextInv, NotAsked
  <2>2. limit \in Nat /\ budget \in Nat
    <3>1. req.limit \in Nat /\ req.budget \in Nat /\ EngineBudget \in Nat
      <4>1. req.limit \in Limits /\ req.budget \in Budgets
        BY <2>1 DEF RetrievalRequest
      <4> HIDE DEF req
      <4>2. QED
        BY <4>1, ContextAssumption DEF ContextAssumption
    <3> HIDE DEF req
    <3>2. QED
      BY <3>1 DEF retrievalLimit, RetrievalBudget, LessOrEqual
  <2>3. all \in Seq(RetrievalItem)
    BY <2>1, CandidatesType
  <2>4. answer = selectRetrievalItems(Ranked(all), limit, budget)
    BY <2>1 DEF Retrieve
  <2> HIDE DEF req, all, limit, budget
  <2>5. ASSUME NEW n \in DOMAIN all, all[n].score > 0, Times(all[n], answer) < Times(all[n], all)
        PROVE  /\ Len(answer) < limit => Total(answer) + all[n].tokens > budget
               /\ \A k \in DOMAIN answer :
                    answer[k].tokens >= all[n].tokens => answer[k].score >= all[n].score
    <3>1. all[n] \in RetrievalItem
      BY <2>3
    <3>2. QED
      BY <2>2, <2>3, <2>4, <2>5, <3>1, SelectionLeavesNoRoom
  <2>6. QED
    BY <2>5 DEF SelectionIsMaximal, Times, all, limit, budget, req
<1>2. QED
  BY <1>1, ContextInvariant, PTL
=============================================================================
