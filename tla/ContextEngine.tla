--------------------------- MODULE ContextEngine ---------------------------
(***************************************************************************)
(* The context engine (internal/contextengine): what Preview puts into a   *)
(* task's context and packs into a prompt under the token budget, and what *)
(* Retrieve selects among the scored sources.                              *)
(*                                                                         *)
(* Both are functions of the request and of what the sources return: the   *)
(* skill registry, the runtime's memory search and the session's turns.    *)
(* The module writes them as functions and has a state machine around them *)
(* only to run them on every small input.  An item is what it is and how   *)
(* many tokens it has; its text is left out, and a text is scored by how   *)
(* many of the query's terms it contains.                                  *)
(***************************************************************************)
EXTENDS Integers, Sequences, FiniteSets

CONSTANTS
  Tokens,       \* token counts of texts
  Budgets,      \* token budgets
  EngineBudget, \* the engine's budget, for a retrieval that names none
  Limits,       \* limits a retrieval asks for
  MaxListed,    \* references and memories of a preview, at most
  MaxSources    \* items each source of a retrieval returns, at most

ASSUME ContextAssumption ==
  /\ Tokens \subseteq Nat /\ Budgets \subseteq Nat /\ Limits \subseteq Nat
  /\ EngineBudget \in Nat /\ MaxListed \in Nat /\ MaxSources \in Nat

VARIABLES
  asking,  \* the request made last, and what the sources returned to it
  answer   \* the engine's answer

contextVars == <<asking, answer>>

Listing(S, most) == UNION {[1 .. n -> S] : n \in 0 .. most}

Total(items) ==
  LET sum[n \in 0 .. Len(items)] == IF n = 0 THEN 0 ELSE sum[n - 1] + items[n].tokens
  IN sum[Len(items)]

(* Variant: the taking ends with the first item that does not fit.         *)
TakeUntilFull(items, wanted, limit, budget) ==
  LET taken[n \in 0 .. Len(items)] ==
        IF n = 0 THEN <<>>
        ELSE IF /\ n \in wanted /\ Len(taken[n - 1]) < limit
                /\ Len(taken[n - 1]) = Cardinality(wanted \cap (1 .. n - 1))
                /\ Total(taken[n - 1]) + items[n].tokens <= budget
             THEN Append(taken[n - 1], items[n])
             ELSE taken[n - 1]
  IN taken[Len(items)]

(* The wanted items of a list taken in order, up to the limit; one that    *)
(* does not fit next to those before it is passed over.                    *)
TakeFitting(items, wanted, limit, budget) ==
  LET taken[n \in 0 .. Len(items)] ==
        IF n = 0 THEN <<>>
        ELSE IF /\ n \in wanted /\ Len(taken[n - 1]) < limit
                /\ Total(taken[n - 1]) + items[n].tokens <= budget
             THEN Append(taken[n - 1], items[n])
             ELSE taken[n - 1]
  IN taken[Len(items)]

-----------------------------------------------------------------------------
(* Preview, with the budget the engine is configured with                  *)

PreviewRequest ==
  [task: {"memory_extraction", "answer_evaluation"}, hasUser: BOOLEAN,
   instructions: Tokens, references: Listing(Tokens, MaxListed),
   memories: Listing(Tokens, MaxListed), searchFails: BOOLEAN, budget: Budgets]

Item(source, tokens) == [source |-> source, tokens |-> tokens]

(* The rules, the requested skill and the task's instruction.              *)
Trusted(req) ==
  <<Item("system_context", 28), Item("skill_context", req.instructions), Item("task_context", 80)>>

taskAllowsMemory(task) == task # "memory_extraction"

(* A fifth of the engine's budget, and at least 120 tokens, more than a    *)
(* small budget has.                                                       *)
memoryTokenBudget(budget) ==
  IF budget = 0 THEN 0 ELSE IF budget \div 5 < 120 THEN 120 ELSE budget \div 5

(* The memories the search returned, up to the first that does not fit.    *)
memoryContextItems(memories, budget) ==
  LET items == [n \in DOMAIN memories |-> Item("memory_context", memories[n])]
      fits(n) == budget = 0 \/ Total(SubSeq(items, 1, n)) <= budget
      last == CHOOSE n \in 0 .. Len(items) :
                /\ n = 0 \/ fits(n)
                /\ n = Len(items) \/ ~fits(n + 1)
  IN SubSeq(items, 1, last)

admitMemory(req) ==
  IF taskAllowsMemory(req.task) /\ req.hasUser /\ ~req.searchFails
  THEN memoryContextItems(req.memories, memoryTokenBudget(req.budget))
  ELSE <<>>

ReferenceItems(req) == [n \in DOMAIN req.references |-> Item("skill_reference", req.references[n])]

(* Variant: memory goes before the rules.                                  *)
PreviewItemsMemoryFirst(req) == admitMemory(req) \o Trusted(req) \o ReferenceItems(req)

PreviewItems(req) == Trusted(req) \o admitMemory(req) \o ReferenceItems(req)

(* Every item in order, those that do not fit left out.                    *)
packPrompt(items, budget) == TakeFitting(items, DOMAIN items, Len(items), budget)

Preview(req) ==
  LET items == PreviewItems(req)
  IN [items |-> items, prompt |-> packPrompt(items, req.budget)]

-----------------------------------------------------------------------------
(* Retrieve                                                                *)

(* A reference is the tokens of its text and of the summary of it, and the *)
(* terms of the query they contain, the summary no more than the text; it  *)
(* may be blank, which the evidence of a turn never is.                    *)
Reference ==
  {r \in [tokens: Tokens, summary: Tokens, blank: BOOLEAN, matched: 0 .. 2, summarized: 0 .. 2] :
     r.summarized <= r.matched /\ (r.blank => r.matched = 0)}

(* terms: how many terms the query has.  A memory comes with the score the *)
(* runtime gave it and its confidence.                                     *)
RetrievalRequest ==
  [task: {"memory_extraction", "answer_evaluation"}, hasUser: BOOLEAN, hasSession: BOOLEAN,
   terms: 0 .. 2,
   references: Listing(Reference, MaxSources),
   turns: Listing([tokens: Tokens, matched: 0 .. 2], MaxSources),
   memories: Listing([tokens: Tokens, score: {0, 5000}, confidence: {0, 9000}], MaxSources),
   limit: Limits, budget: Budgets]

(* Scores are in ten-thousandths.                                          *)
keywordScore(terms, blank, matched) ==
  IF blank \/ (terms > 0 /\ matched = 0) THEN 0
  ELSE IF terms = 0 THEN 2000 ELSE 2500 + (matched * 6500) \div terms

LessOrEqual(a, b) == IF a <= b THEN a ELSE b

Scored(source, tokens, score) == [source |-> source, tokens |-> tokens, score |-> score]

(* Two candidates for a reference: its whole text, and its summary for a   *)
(* little less.                                                            *)
referenceRetrievalItems(req) ==
  [n \in 1 .. 2 * Len(req.references) |->
     LET ref == req.references[(n + 1) \div 2]
         score(matched) == keywordScore(req.terms, ref.blank, LessOrEqual(matched, req.terms))
     IN IF n % 2 = 1 THEN Scored("skill_reference_full_text", ref.tokens, score(ref.matched))
        ELSE Scored("skill_reference_summary", ref.summary, (score(ref.summarized) * 9) \div 10)]

recentHistoryRetrievalItems(req) ==
  IF ~req.hasSession THEN <<>>
  ELSE [n \in DOMAIN req.turns |->
          LET score == keywordScore(req.terms, FALSE, LessOrEqual(req.turns[n].matched, req.terms))
          IN Scored("recent_history", req.turns[n].tokens,
                    IF score > 0 THEN LessOrEqual(score + 800, 10000) ELSE 0)]

memoryRetrievalItems(req) ==
  IF ~(taskAllowsMemory(req.task) /\ req.hasUser) THEN <<>>
  ELSE [n \in DOMAIN req.memories |->
          LET m == req.memories[n]
          IN Scored("approved_memory", m.tokens, IF m.score = 0 THEN m.confidence ELSE m.score)]

Candidates(req) ==
  referenceRetrievalItems(req) \o recentHistoryRetrievalItems(req) \o memoryRetrievalItems(req)

(* Best score first, then by the source's name, then as they came.         *)
SourceOrder == [approved_memory |-> 1, recent_history |-> 2,
                skill_reference_full_text |-> 3, skill_reference_summary |-> 4]

Ranked(items) ==
  LET Before(i, j) ==
        \/ items[i].score > items[j].score
        \/ /\ items[i].score = items[j].score
           /\ \/ SourceOrder[items[i].source] < SourceOrder[items[j].source]
              \/ items[i].source = items[j].source /\ i < j
      At(k) == CHOOSE i \in DOMAIN items : Cardinality({j \in DOMAIN items : Before(j, i)}) = k - 1
  IN [k \in DOMAIN items |-> items[At(k)]]

retrievalLimit(limit) == IF limit = 0 THEN 10 ELSE LessOrEqual(limit, 30)

RetrievalBudget(budget) == IF budget > 0 THEN budget ELSE IF EngineBudget > 0 THEN EngineBudget ELSE 1200

selectRetrievalItems(items, limit, budget) ==
  TakeFitting(items, {n \in DOMAIN items : items[n].score > 0}, limit, budget)

Retrieve(req) ==
  selectRetrievalItems(Ranked(Candidates(req)), retrievalLimit(req.limit), RetrievalBudget(req.budget))

-----------------------------------------------------------------------------
NotAsked == [kind |-> "none"]

InitContext == asking = NotAsked /\ answer = <<>>

AskPreview ==
  /\ asking = NotAsked
  /\ \E req \in PreviewRequest :
       /\ asking' = [kind |-> "preview", req |-> req]
       /\ answer' = Preview(req)

AskRetrieval ==
  /\ asking = NotAsked
  /\ \E req \in RetrievalRequest :
       /\ asking' = [kind |-> "retrieval", req |-> req]
       /\ answer' = Retrieve(req)

NextContext == AskPreview \/ AskRetrieval

ContextSpec == InitContext /\ [][NextContext]_contextVars

-----------------------------------------------------------------------------
(* Whatever memories and references a task comes with, the prompt begins   *)
(* with the same rules, skill and task instruction as without them, has    *)
(* none of them further on, and no more tokens than the budget.            *)
(* (engine.go:76 the order of Preview's items, :181 packPrompt)            *)
IsTrusted(item) == item.source \in {"system_context", "skill_context", "task_context"}

MemoryNeverDisplacesRules ==
  asking.kind = "preview" =>
    LET prompt == answer.prompt
        rules == packPrompt(Trusted(asking.req), asking.req.budget)
    IN /\ Len(rules) <= Len(prompt)
       /\ \A n \in DOMAIN prompt :
            IF n <= Len(rules) THEN prompt[n] = rules[n] ELSE ~IsTrusted(prompt[n])
       /\ Total(prompt) <= asking.req.budget

(* A retrieval leaves out nothing it had room for: below the limit, each   *)
(* relevant candidate is selected or does not fit next to what is; and no  *)
(* candidate of the size of a selected one scores better than it and is    *)
(* left out.  (retrieval.go:315 selectRetrievalItems after the sort)       *)
SelectionIsMaximal ==
  asking.kind = "retrieval" =>
    LET all == Candidates(asking.req)
        budget == RetrievalBudget(asking.req.budget)
        times(item, items) == Cardinality({n \in DOMAIN items : items[n] = item})
    IN \A n \in DOMAIN all :
         LET item == all[n] IN
         item.score > 0 /\ times(item, answer) < times(item, all) =>
           /\ Len(answer) < retrievalLimit(asking.req.limit) => Total(answer) + item.tokens > budget
           /\ \A k \in DOMAIN answer : answer[k].tokens >= item.tokens => answer[k].score >= item.score
=============================================================================
