----------------------------- MODULE SkillSync -----------------------------
(***************************************************************************)
(* Skill packs: the directory they are written to, the registry an API     *)
(* process keeps of it (internal/skill/registry.go), and the copy of the   *)
(* registry in the tables skill_packs and skill_references (SyncSkills in  *)
(* internal/store/store.go).                                               *)
(*                                                                         *)
(* A request creates a pack, or reloads the registry and synchronises the  *)
(* database with it, which is also how a process starts.  A step is one    *)
(* file operation, one critical section of the registry's mutex, or one    *)
(* statement of the synchronising transaction.                             *)
(*                                                                         *)
(* A pack is the references it names and the reference files it has.  A    *)
(* file is written whole, a scan reads a directory at once, a directory is *)
(* named after its pack's id, the categories of a new pack name the        *)
(* references that come with it, and no pack is removed.  Left out:        *)
(* validation and lint, whose findings are stored and stop nothing once a  *)
(* request is accepted, and the death of the process, whose registry is    *)
(* gone with it.                                                           *)
(***************************************************************************)
EXTENDS Integers, Sequences, FiniteSets

CONSTANTS
  MaxPack,      \* packs are 1..MaxPack, in the order of their ids
  References,   \* names of reference files
  EditedPacks,  \* packs somebody edits by hand
  SkillRequests \* requests, each made at most once

ASSUME SkillAssumption == MaxPack \in Nat /\ EditedPacks \subseteq 1 .. MaxPack

Packs == 1 .. MaxPack

VARIABLES
  disk,     \* the pack directories
  registry, \* Registry.skills
  packRow,  \* skill_packs
  refRow,   \* skill_references: the references stored for each pack
  request   \* each request: where it is, what it has read, what it holds

skillVars == <<disk, registry, packRow, refRow, request>>

Directory == [there: BOOLEAN, meta: BOOLEAN, named: SUBSET References, files: SUBSET References]

(* whole: a ghost, what was read had a file for every reference it names.  *)
LoadedPack == [there: BOOLEAN, whole: BOOLEAN, refs: SUBSET References]
PackRow == [there: BOOLEAN, refs: SUBSET References]

NoDirectory == [there |-> FALSE, meta |-> FALSE, named |-> {}, files |-> {}]
NoPack == [there |-> FALSE, whole |-> FALSE, refs |-> {}]
NothingLoaded == [i \in Packs |-> NoPack]
NoReferences == [i \in Packs |-> {}]

RequestPc == {"idle", "mkdir", "meta", "references", "scan", "read",
              "all", "upsert", "replace", "ended"}

(* id: the pack to create, 0 for a reload.  refs: what it names; files:    *)
(* what it has still to write.  names: directories still to read.  loaded: *)
(* the packs read, then the packs to synchronise; todo: those left, in     *)
(* order.  held: the pack rows the transaction has locked; deleted and     *)
(* stored: its changes, seen by nobody before it commits.  known: a ghost, *)
(* the packs that were settled when the scan began.                        *)
SkillRequest ==
  [pc: RequestPc, id: {0} \cup Packs, refs: SUBSET References, files: SUBSET References,
   names: SUBSET Packs, loaded: [Packs -> LoadedPack], known: SUBSET Packs,
   todo: Seq(Packs), held: SUBSET Packs,
   deleted: [Packs -> SUBSET References], stored: [Packs -> SUBSET References]]

IdleRequest ==
  [pc |-> "idle", id |-> 0, refs |-> {}, files |-> {}, names |-> {}, loaded |-> NothingLoaded,
   known |-> {}, todo |-> <<>>, held |-> {}, deleted |-> NoReferences, stored |-> NoReferences]

SkillTypeOK ==
  /\ disk \in [Packs -> Directory]
  /\ registry \in [Packs -> LoadedPack]
  /\ packRow \in [Packs -> PackRow]
  /\ refRow \in [Packs -> SUBSET References]
  /\ request \in [SkillRequests -> SkillRequest]

(* The packs the system is deployed with are on disk.                      *)
DeployedPack(refs) == [there |-> TRUE, meta |-> TRUE, named |-> refs, files |-> refs]

InitSkills ==
  /\ disk \in [Packs -> {NoDirectory} \cup {DeployedPack(refs) : refs \in SUBSET References}]
  /\ registry = NothingLoaded
  /\ packRow = [i \in Packs |-> [there |-> FALSE, refs |-> {}]]
  /\ refRow = NoReferences
  /\ request = [q \in SkillRequests |-> IdleRequest]

(* A pack is whole when all it names is there.  It is settled when also    *)
(* nobody is at writing it any more: every Create of it that had passed    *)
(* the test for the directory has written its last file, or failed.        *)
Whole(i) == disk[i].meta /\ disk[i].named \subseteq disk[i].files

Creating(q, i) == request[q].pc \in {"mkdir", "meta", "references"} /\ request[q].id = i

Settled(i) == Whole(i) /\ \A q \in SkillRequests : ~Creating(q, i)

EndRequest(q) == request' = [request EXCEPT ![q] = [IdleRequest EXCEPT !.pc = "ended"]]

-----------------------------------------------------------------------------
(* The registry and its directory                                          *)

(* Create goes on only if the directory is not there yet, which two        *)
(* requests may both find.                                                 *)
StatPack(q, i) ==
  /\ request[q].pc = "idle"
  /\ \/ /\ ~disk[i].there
        /\ \E refs \in SUBSET References :
             request' = [request EXCEPT ![q] = [IdleRequest EXCEPT
                           !.pc = "mkdir", !.id = i, !.refs = refs, !.files = refs]]
     \/ disk[i].there /\ EndRequest(q)
  /\ UNCHANGED <<disk, registry, packRow, refRow>>

(* The directory, the meta file and SKILL.md, and the references one by    *)
(* one; each file replaces what another Create of the same id wrote there, *)
(* the meta file of a pack that was whole already included.                *)
WritePack(q) ==
  LET i == request[q].id
  IN /\ \/ /\ request[q].pc = "mkdir"
           /\ disk' = [disk EXCEPT ![i].there = TRUE]
           /\ request' = [request EXCEPT ![q].pc = "meta"]
        \/ /\ request[q].pc = "meta"
           /\ disk' = [disk EXCEPT ![i].meta = TRUE, ![i].named = request[q].refs]
           /\ request' = [request EXCEPT ![q].pc = "references"]
        \/ /\ request[q].pc = "references"
           /\ \E r \in request[q].files :
                /\ disk' = [disk EXCEPT ![i].files = @ \cup {r}]
                /\ request' = [request EXCEPT ![q].files = @ \ {r}]
        \/ /\ request[q].pc = "references"
           /\ request[q].files = {}
           /\ disk' = disk
           /\ request' = [request EXCEPT ![q].pc = "scan", ![q].refs = {}]
     /\ UNCHANGED <<registry, packRow, refRow>>

(* A file cannot be written: the directory stays as it is.                 *)
CreateFails(q) ==
  /\ request[q].pc \in {"mkdir", "meta", "references"}
  /\ EndRequest(q)
  /\ UNCHANGED <<disk, registry, packRow, refRow>>

(* scan: the names of the directories first, then the files of each.       *)
BeginScan(q) ==
  /\ request[q].pc \in {"idle", "scan"}
  /\ request' = [request EXCEPT ![q].pc = "read",
                                ![q].names = {i \in Packs : disk[i].there},
                                ![q].known = {i \in Packs : Settled(i)}]
  /\ UNCHANGED <<disk, registry, packRow, refRow>>

(* A directory without a meta file is passed over; of the references the   *)
(* categories name, those with a file are loaded.                          *)
loadReferences(i) == disk[i].named \cap disk[i].files

(* Variant: the scan stops at a directory without a meta file.             *)
ReadPackOrStop(q) ==
  /\ request[q].pc = "read"
  /\ \E i \in request[q].names :
       /\ \A j \in request[q].names : i <= j
       /\ request' = [request EXCEPT
            ![q].names = IF disk[i].meta THEN @ \ {i} ELSE {},
            ![q].loaded[i] = IF disk[i].meta
                             THEN [there |-> TRUE, whole |-> Whole(i), refs |-> loadReferences(i)]
                             ELSE NoPack]
  /\ UNCHANGED <<disk, registry, packRow, refRow>>

ReadPack(q) ==
  /\ request[q].pc = "read"
  /\ \E i \in request[q].names :
       /\ \A j \in request[q].names : i <= j
       /\ request' = [request EXCEPT
            ![q].names = @ \ {i},
            ![q].loaded[i] = IF disk[i].meta
                             THEN [there |-> TRUE, whole |-> Whole(i), refs |-> loadReferences(i)]
                             ELSE NoPack]
  /\ UNCHANGED <<disk, registry, packRow, refRow>>

(* Load replaces the registry by what was read, whenever that was.  A      *)
(* Create then answers with the pack the registry has, or with an error.   *)
Load(q) ==
  /\ request[q].pc = "read"
  /\ request[q].names = {}
  /\ registry' = request[q].loaded
  /\ IF request[q].id # 0
     THEN EndRequest(q)
     ELSE request' = [request EXCEPT ![q] = [IdleRequest EXCEPT !.pc = "all"]]
  /\ UNCHANGED <<disk, packRow, refRow>>

-----------------------------------------------------------------------------
(* The synchronising transaction                                           *)

(* Variant: All lists the packs in the order of the map.                   *)
OrdersOfMap(ids) == {o \in [1 .. Cardinality(ids) -> ids] : \A m, n \in DOMAIN o : m < n => o[m] # o[n]}

(* The packs of a registry in the order All lists them: by id.             *)
Orders(ids) == {o \in [1 .. Cardinality(ids) -> ids] : \A m, n \in DOMAIN o : m < n => o[m] < o[n]}

All(q) ==
  /\ request[q].pc = "all"
  /\ \E order \in Orders({i \in Packs : registry[i].there}) :
       request' = [request EXCEPT ![q] = [IdleRequest EXCEPT
                     !.pc = "upsert", !.loaded = registry, !.todo = order]]
  /\ UNCHANGED <<disk, registry, packRow, refRow>>

(* A pack's row is locked from the upsert to the end of the transaction;   *)
(* an upsert of a row another transaction holds waits for it.              *)
HeldByAnother(q, i) == \E p \in SkillRequests \ {q} : i \in request[p].held

(* Variant: ON CONFLICT DO NOTHING, which locks no row that is there.      *)
InsertPack(q) ==
  /\ request[q].pc = "upsert"
  /\ request[q].todo # <<>>
  /\ LET i == Head(request[q].todo)
     IN /\ ~HeldByAnother(q, i)
        /\ request' = [request EXCEPT ![q].pc = "replace",
                                      ![q].held = IF packRow[i].there THEN @ ELSE @ \cup {i}]
  /\ UNCHANGED <<disk, registry, packRow, refRow>>

UpsertPack(q) ==
  /\ request[q].pc = "upsert"
  /\ request[q].todo # <<>>
  /\ ~HeldByAnother(q, Head(request[q].todo))
  /\ request' = [request EXCEPT ![q].pc = "replace",
                                ![q].held = @ \cup {Head(request[q].todo)}]
  /\ UNCHANGED <<disk, registry, packRow, refRow>>

(* The DELETE sees what was committed by now, and the INSERTs follow it.   *)
ReplaceReferences(q) ==
  /\ request[q].pc = "replace"
  /\ LET i == Head(request[q].todo)
     IN request' = [request EXCEPT ![q].pc = "upsert", ![q].todo = Tail(@),
                                   ![q].deleted[i] = refRow[i],
                                   ![q].stored[i] = request[q].loaded[i].refs]
  /\ UNCHANGED <<disk, registry, packRow, refRow>>

CommitSync(q) ==
  /\ request[q].pc = "upsert"
  /\ request[q].todo = <<>>
  /\ packRow' = [i \in Packs |-> IF i \in request[q].held
                                 THEN [there |-> TRUE, refs |-> request[q].loaded[i].refs]
                                 ELSE packRow[i]]
  /\ refRow' = [i \in Packs |-> (refRow[i] \ request[q].deleted[i]) \cup request[q].stored[i]]
  /\ EndRequest(q)
  /\ UNCHANGED <<disk, registry>>

(* A statement fails or the client hangs up: the transaction rolls back.   *)
SyncFails(q) ==
  /\ request[q].pc \in {"all", "upsert", "replace"}
  /\ EndRequest(q)
  /\ UNCHANGED <<disk, registry, packRow, refRow>>

(* A pack is edited by hand in its directory.                              *)
EditPack(i) ==
  /\ Whole(i)
  /\ \E refs \in SUBSET References :
       disk' = [disk EXCEPT ![i].named = refs, ![i].files = refs]
  /\ UNCHANGED <<registry, packRow, refRow, request>>

RequestStep(q) ==
  \/ \E i \in Packs : StatPack(q, i)
  \/ WritePack(q)
  \/ CreateFails(q)
  \/ BeginScan(q)
  \/ ReadPack(q)
  \/ Load(q)
  \/ All(q)
  \/ UpsertPack(q)
  \/ ReplaceReferences(q)
  \/ CommitSync(q)
  \/ SyncFails(q)

NextSkills ==
  \/ \E q \in SkillRequests : RequestStep(q)
  \/ \E i \in EditedPacks : EditPack(i)

SkillSpec == InitSkills /\ [][NextSkills]_skillVars

-----------------------------------------------------------------------------
(* However many processes and reloads synchronise at once, they never wait *)
(* for each other in a circle: as long as one is in its transaction, one   *)
(* of them can go on.  They lock the packs in one order, since the list    *)
(* they work off is sorted.  (registry.go:180 the sort in All, store.go:300*)
(* SyncSkills)                                                             *)
Syncing(q) == request[q].pc \in {"upsert", "replace"}

Waiting(q) ==
  /\ request[q].pc = "upsert"
  /\ request[q].todo # <<>>
  /\ HeldByAnother(q, Head(request[q].todo))

SyncsNeverDeadlock ==
  (\E q \in SkillRequests : Syncing(q)) => \E q \in SkillRequests : Syncing(q) /\ ~Waiting(q)

(* The references stored for a pack are those its stored meta names: two   *)
(* synchronisations never leave a mixture of their packs.                  *)
(* (store.go:300 SyncSkills: upsert, delete and inserts in one transaction)*)
PackAndReferencesAgree == \A i \in Packs : refRow[i] = packRow[i].refs

(* A pack that is whole in the registry is lost to it, or seen half        *)
(* written again, only through a Load whose scan began before the pack was *)
(* settled: when it was not whole, or when another Create of its id was    *)
(* still to write, which may take a whole pack apart again.  A scan begun  *)
(* once the pack is whole and nobody writes it never loses it.             *)
(* (registry.go:65 Load, whose scan runs outside the mutex; registry.go:87 *)
(* the test of Create, which two requests may pass)                        *)
OnlyOlderScanForgets ==
  [][ \A i \in Packs :
        registry[i].whole /\ ~registry'[i].whole =>
          \E q \in SkillRequests : /\ request[q].pc = "read" /\ request'[q].pc # "read"
                                   /\ i \notin request[q].known ]_skillVars
=============================================================================
