---------------------------- MODULE MemoryReview ----------------------------
(***************************************************************************)
(* Reviewed memory of one user: the candidates, the profile projected from *)
(* the approved ones and the review tasks, kept by the Python runtime      *)
(* (python-runtime/app/memory.py) behind the gateway handlers of           *)
(* internal/httpapi/memory.go, and the approved memories admitted to a     *)
(* prompt (internal/contextengine/memory.go).                              *)
(*                                                                         *)
(* A review is two HTTP calls of the gateway: a list to check that the     *)
(* candidate is the user's, then the review.  The runtime's handlers do    *)
(* not yield, so one runs at a time; but each of its writes is committed   *)
(* by itself, and a failed write or the death of the process leaves those  *)
(* before it.  Left out: topic, evidence, confidence, scores and conflicts,*)
(* which are stored and shown, and the users, each with candidates of      *)
(* their own.                                                              *)
(***************************************************************************)
EXTENDS Integers, FiniteSets

CONSTANTS
  Memories,     \* candidates
  Reviewable,   \* those of a type that approval schedules for review
  Texts,        \* what a candidate may say
  MemoryCalls,  \* review requests, each made at most once
  ListLimit,    \* newest candidates a list returns (200)
  PromptLimit,  \* newest approved candidates a search for a prompt returns (5)
  MaxWrites     \* bound on the writes to candidates

ASSUME MemoryAssumption ==
  /\ Reviewable \subseteq Memories /\ Memories # {}
  /\ ListLimit \in Nat /\ PromptLimit \in Nat /\ MaxWrites \in Nat
  /\ "" \notin Texts

VARIABLES
  candidate,  \* memory_candidates
  profile,    \* memory_profile_projections: what is projected of which candidate
  reviewTask, \* review_tasks: the text of the task of each candidate, "" for none
  memoryCall, \* each review request of the gateway
  handler,    \* the runtime's handler under way, between two of its writes
  prompt,     \* the memories in the prompt built last
  stands,     \* a ghost: the text whose approval is the last review of the candidate
  stale       \* a ghost: a review was cut off before it rebuilt the profile

memoryVars == <<candidate, profile, reviewTask, memoryCall, handler, prompt, stands, stale>>

(* at: updated_at; later writes have later times.                          *)
Candidate == [status: {"absent", "pending", "approved", "rejected", "edited"},
              text: Texts \cup {""}, at: 0 .. MaxWrites]

Operations == {"approve", "reject", "edit"}

MemoryTypeOK ==
  /\ candidate \in [Memories -> Candidate]
  /\ profile \subseteq Memories \X Texts
  /\ reviewTask \in [Memories -> Texts \cup {""}]
  /\ memoryCall \in [MemoryCalls -> [pc: {"idle", "checked", "ended"}, on: Memories, op: Operations]]
  /\ handler \in [pc: {"idle", "profile", "task"}, on: Memories, op: Operations]
  /\ prompt \subseteq Memories \X Texts
  /\ stands \in [Memories -> Texts \cup {""}]
  /\ stale \in BOOLEAN

InitMemory ==
  LET any == CHOOSE m \in Memories : TRUE
  IN /\ candidate = [m \in Memories |-> [status |-> "absent", text |-> "", at |-> 0]]
     /\ profile = {}
     /\ reviewTask = [m \in Memories |-> ""]
     /\ memoryCall = [c \in MemoryCalls |-> [pc |-> "idle", on |-> any, op |-> "approve"]]
     /\ handler = [pc |-> "idle", on |-> any, op |-> "approve"]
     /\ prompt = {}
     /\ stands = [m \in Memories |-> ""]
     /\ stale = FALSE

Free == handler.pc = "idle"

(* The newest of a set of candidates, as many as a list returns.           *)
Newest(ms, limit) ==
  {m \in ms : Cardinality({n \in ms : candidate[n].at > candidate[m].at}) < limit}

Known == {m \in Memories : candidate[m].status # "absent"}
Approved == {m \in Memories : candidate[m].status = "approved"}
Saying(ms) == {<<m, candidate[m].text>> : m \in ms}

(* The time of the next write, later than all before it.                   *)
Now == 1 + Cardinality({t \in 1 .. MaxWrites : \E m \in Memories : candidate[m].at >= t})

-----------------------------------------------------------------------------
create_candidate(m, text) ==
  /\ Free
  /\ candidate[m].status = "absent"
  /\ Now <= MaxWrites
  /\ candidate' = [candidate EXCEPT ![m] = [status |-> "pending", text |-> text, at |-> Now]]
  /\ UNCHANGED <<profile, reviewTask, memoryCall, handler, prompt, stands, stale>>

(* The gateway looks for the candidate among the newest ones of any status;*)
(* an older one is refused as not found.                                   *)
ensureMemoryCandidateAccess(c, m, op) ==
  /\ Free
  /\ memoryCall[c].pc = "idle"
  /\ m \in Known
  /\ memoryCall' = [memoryCall EXCEPT ![c] =
       [pc |-> IF m \in Newest(Known, ListLimit) THEN "checked" ELSE "ended", on |-> m, op |-> op]]
  /\ UNCHANGED <<candidate, profile, reviewTask, handler, prompt, stands, stale>>

(* Variant: only an approval rebuilds the profile.                         *)
StartReviewUnprojected(c, status, text) ==
  LET m == memoryCall[c].on
  IN /\ Free
     /\ memoryCall[c].pc = "checked"
     /\ Now <= MaxWrites
     /\ candidate' = [candidate EXCEPT ![m] = [status |-> status, text |-> text, at |-> Now]]
     /\ memoryCall' = [memoryCall EXCEPT ![c].pc = "ended"]
     /\ handler' = [pc |-> IF status = "approved" THEN "profile" ELSE "idle",
                    on |-> m, op |-> memoryCall[c].op]
     /\ stands' = [stands EXCEPT ![m] = IF memoryCall[c].op = "approve" THEN text ELSE ""]
     /\ UNCHANGED <<profile, reviewTask, prompt, stale>>

(* The review proper.  Its first write changes the candidate, whatever has *)
(* become of it since the gateway looked.                                  *)
StartReview(c, status, text) ==
  LET m == memoryCall[c].on
  IN /\ Free
     /\ memoryCall[c].pc = "checked"
     /\ Now <= MaxWrites
     /\ candidate' = [candidate EXCEPT ![m] = [status |-> status, text |-> text, at |-> Now]]
     /\ memoryCall' = [memoryCall EXCEPT ![c].pc = "ended"]
     /\ handler' = [pc |-> "profile", on |-> m, op |-> memoryCall[c].op]
     /\ stands' = [stands EXCEPT ![m] = IF memoryCall[c].op = "approve" THEN text ELSE ""]
     /\ UNCHANGED <<profile, reviewTask, prompt, stale>>

approve(c) ==
  /\ memoryCall[c].op = "approve"
  /\ StartReview(c, "approved", candidate[memoryCall[c].on].text)

reject(c) ==
  /\ memoryCall[c].op = "reject"
  /\ StartReview(c, "rejected", candidate[memoryCall[c].on].text)

(* Variant: an edit leaves an approved memory approved.                    *)
editInPlace(c, text) ==
  /\ memoryCall[c].op = "edit"
  /\ StartReview(c, IF candidate[memoryCall[c].on].status = "approved" THEN "approved" ELSE "edited", text)

edit(c, text) ==
  /\ memoryCall[c].op = "edit"
  /\ StartReview(c, "edited", text)

(* The gateway gives up between its two calls, or the runtime is down.     *)
ReviewFails(c) ==
  /\ memoryCall[c].pc = "checked"
  /\ memoryCall' = [memoryCall EXCEPT ![c].pc = "ended"]
  /\ UNCHANGED <<candidate, profile, reviewTask, handler, prompt, stands, stale>>

_rebuild_profile ==
  /\ handler.pc = "profile"
  /\ profile' = Saying(Newest(Approved, ListLimit))
  /\ stale' = FALSE
  /\ handler' = [handler EXCEPT !.pc = IF handler.op = "approve" /\ handler.on \in Reviewable
                                       THEN "task" ELSE "idle"]
  /\ UNCHANGED <<candidate, reviewTask, memoryCall, prompt, stands>>

(* One task per candidate, with the text first approved.                   *)
_ensure_review_task ==
  /\ handler.pc = "task"
  /\ reviewTask' = [reviewTask EXCEPT ![handler.on] = IF @ = "" THEN candidate[handler.on].text ELSE @]
  /\ handler' = [handler EXCEPT !.pc = "idle"]
  /\ UNCHANGED <<candidate, profile, memoryCall, prompt, stands, stale>>

(* A write fails or the process dies between two writes.                   *)
HandlerCut ==
  /\ handler.pc # "idle"
  /\ handler' = [handler EXCEPT !.pc = "idle"]
  /\ stale' = (stale \/ handler.pc = "profile")
  /\ UNCHANGED <<candidate, profile, reviewTask, memoryCall, prompt, stands>>

(* A search for a prompt: the newest approved ones that match it.          *)
search ==
  /\ Free
  /\ \E matching \in SUBSET Approved : prompt' = Saying(Newest(matching, PromptLimit))
  /\ UNCHANGED <<candidate, profile, reviewTask, memoryCall, handler, stands, stale>>

NextMemory ==
  \/ \E m \in Memories, text \in Texts : create_candidate(m, text)
  \/ \E c \in MemoryCalls :
       \/ \E m \in Memories, op \in Operations : ensureMemoryCandidateAccess(c, m, op)
       \/ approve(c)
       \/ reject(c)
       \/ \E text \in Texts : edit(c, text)
       \/ ReviewFails(c)
  \/ _rebuild_profile
  \/ _ensure_review_task
  \/ HandlerCut
  \/ search

MemorySpec == InitMemory /\ [][NextMemory]_memoryVars

-----------------------------------------------------------------------------
(* What goes into a prompt is what the last review of the memory approved, *)
(* in the words it approved: an edited or rejected memory is out until it  *)
(* is approved again, however the review was cut short.  (README.md:125,   *)
(* memory.py:199 edit, :255 search)                                        *)
PromptsTakeWhatStandsApproved ==
  [][ prompt' # prompt => \A m \in Memories, text \in Texts :
                            <<m, text>> \in prompt' => stands[m] = text ]_memoryVars

(* The profile projects the newest approved memories in their words of     *)
(* today, unless a review was cut off between changing a candidate and     *)
(* rebuilding the profile; the next review of any candidate mends that.    *)
(* (memory.py:187 approve, :194 reject, :199 edit, :313 _rebuild_profile)  *)
ProfileMatchesUnlessCut ==
  Free /\ ~stale => profile = Saying(Newest(Approved, ListLimit))
=============================================================================
