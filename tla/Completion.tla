----------------------------- MODULE Completion -----------------------------
(***************************************************************************)
(* Code completion (internal/coding/completion.go): what is suggested for  *)
(* a cursor position, from the symbols of the source, the question's tags, *)
(* the starter template and the embedded catalogue of the standard library.*)
(*                                                                         *)
(* A source is what the scans of it find: the declarations in their order, *)
(* the imports, and what is said of the type of the receiver the cursor    *)
(* stands after.  A label is its place in the order of strings, in which   *)
(* capitals come first; a query is the set of labels it matches, in any    *)
(* case.  Ranging over a Go map has no order, so what depends on one is a  *)
(* set of outcomes.  The module is functions of the request, with a state  *)
(* machine around them that asks each request twice.                       *)
(***************************************************************************)
EXTENDS Integers, Sequences, FiniteSets

CONSTANTS
  Labels,      \* what suggestions are called, as places in the order of strings
  ToLower(_),  \* what strings.ToLower makes of a label
  Names,       \* the labels that are names a source may declare
  Qualifiers,  \* names a member access can start with: receivers, packages
  Types,       \* type names
  Catalog,     \* the catalogue: a function from its languages
  MaxDeclared, \* bound on the declarations of a source
  AskedLimits  \* limits a request asks for

Sources == {"local_symbol", "question_pattern", "starter_template", "standard_library"}

Suggestion == [label: Nat, source: Sources, rank: Nat]

(* What the catalogue file has for a language: its own words, the members  *)
(* of packages and types, and what a type it extends is called.            *)
CatalogEntry ==
  [extends: DOMAIN Catalog \cup {""}, globals: Seq(Suggestion),
   members: [Qualifiers \cup Types -> Seq(Suggestion)], types: [Types -> Types \cup {""}]]

ASSUME CompletionAssumption ==
  /\ Labels \subseteq Nat /\ AskedLimits \subseteq Nat /\ MaxDeclared \in Nat
  /\ Names \subseteq Labels /\ 1 .. 6 \subseteq Labels
  /\ \A l \in Labels : ToLower(l) \in Labels /\ ToLower(ToLower(l)) = ToLower(l)
  /\ "" \notin Types /\ {"list", "dict", "str", "Array", "Object", "String"} \subseteq Types
  /\ \A language \in DOMAIN Catalog : Catalog[language] \in CatalogEntry

VARIABLES
  typed,  \* the request being made
  shown   \* the suggestions answered to it so far, one list per time it was made

completionVars == <<typed, shown>>

Suggest(label, source, rank) == [label |-> label, source |-> source, rank |-> rank]

Tags == {"hash-table", "array", "dp"}

(* An arrow is a name bound to a function, in Go one declared with :=.     *)
Forms == {"function", "arrow", "variable", "class"}
Literals == {"[", "{", "quote"}

(* The query matches everything, one label up to its case, or all          *)
(* suggestions of a source.                                                *)
SameUpToCase(l) == {m \in Labels : ToLower(m) = ToLower(l)}
Queries == {[labels |-> Labels, sources |-> {}]}
             \cup [labels: {SameUpToCase(l) : l \in Labels}, sources: {{}}]
             \cup {[labels |-> {}, sources |-> {"local_symbol"}]}

SymbolRequest ==
  [language: DOMAIN Catalog, member: {FALSE}, limit: AskedLimits, query: Queries, tags: SUBSET Tags,
   declarations: UNION {[1 .. n -> [form: Forms, name: Names]] : n \in 0 .. MaxDeclared}]

(* The cursor stands after a qualifier, which an import may give as alias  *)
(* of a package.  declared: the type an annotation or a constructor call   *)
(* gives the receiver, "" for none.  literals: the kinds of literal it is  *)
(* assigned anywhere before the cursor.                                    *)
MemberRequest ==
  [language: DOMAIN Catalog, member: {TRUE}, limit: AskedLimits, query: Queries,
   qualifier: Qualifiers, aliasOf: Qualifiers, declared: Types \cup {""}, literals: SUBSET Literals]

CompletionRequest == SymbolRequest \cup MemberRequest

-----------------------------------------------------------------------------
(* Symbols of the source and patterns of the question                      *)

(* What each language looks for, in that order: the forms it finds, and    *)
(* the rank it gives them.                                                 *)
Scan(forms, rank) == [forms |-> forms, rank |-> rank]
Scans(language) ==
  CASE language = "go"     -> <<Scan({"function"}, 20), Scan({"variable"}, 30), Scan({"arrow"}, 30),
                                Scan({"class"}, 35)>>
    [] language = "java"   -> <<Scan({"class"}, 20), Scan({"function"}, 25), Scan({"variable"}, 35)>>
    [] language = "python" -> <<Scan({"function"}, 20), Scan({"class"}, 25), Scan({"variable", "arrow"}, 35)>>
    [] language = "cpp"    -> <<Scan({"function"}, 20), Scan({"variable", "arrow"}, 35), Scan({"class"}, 25)>>
    [] OTHER               -> <<Scan({"function"}, 20), Scan({"arrow"}, 25),
                                Scan({"variable", "arrow"}, 35), Scan({"class"}, 25)>>

(* The items at the wanted places, in their order.                         *)
Only(items, wanted) ==
  LET kept[n \in 0 .. Len(items)] ==
        IF n = 0 THEN <<>>
        ELSE IF n \in wanted THEN Append(kept[n - 1], items[n]) ELSE kept[n - 1]
  IN kept[Len(items)]

Concat(lists) ==
  LET upTo[n \in 0 .. Len(lists)] == IF n = 0 THEN <<>> ELSE upTo[n - 1] \o lists[n]
  IN upTo[Len(lists)]

(* A declaration of two forms is found twice.                              *)
localSymbolSuggestions(language, declarations) ==
  LET scans == Scans(language)
      Found(k) == LET hits == Only(declarations, {n \in DOMAIN declarations :
                                                     declarations[n].form \in scans[k].forms})
                  IN [n \in DOMAIN hits |-> Suggest(hits[n].name, "local_symbol", scans[k].rank)]
  IN Concat([k \in DOMAIN scans |-> Found(k)])

(* One snippet for each family of tags, in a fixed order: "hash map        *)
(* lookup", "two pointers" and "DP table", the first of them as a string.  *)
Patterns == <<[tag |-> "hash-table", label |-> 3, rank |-> 40], [tag |-> "array", label |-> 6, rank |-> 45],
              [tag |-> "dp", label |-> 1, rank |-> 50]>>
questionPatternSuggestions(tags) ==
  LET asked == Only(Patterns, {n \in DOMAIN Patterns : Patterns[n].tag \in tags})
  IN [n \in DOMAIN asked |-> Suggest(asked[n].label, "question_pattern", asked[n].rank)]

(* "starter program"                                                       *)
starterSuggestions == <<Suggest(5, "starter_template", 80)>>

-----------------------------------------------------------------------------
(* The catalogue                                                           *)

(* A language that extends another has its own entries, and the other's    *)
(* where it has none.                                                      *)
inheritCompletionCatalog(own, base) ==
  [own EXCEPT !.members = [q \in Qualifiers \cup Types |-> IF own.members[q] # <<>> THEN own.members[q]
                                                          ELSE base.members[q]],
              !.types = [t \in Types |-> IF own.types[t] # "" THEN own.types[t] ELSE base.types[t]]]

completionCatalogForLanguage(language) ==
  LET own == Catalog[language]
  IN IF own.extends \in DOMAIN Catalog THEN inheritCompletionCatalog(own, Catalog[own.extends]) ELSE own

(* A type with no entry of its own stands for itself.                      *)
resolveCatalogType(types, type) == IF types[type] # "" THEN types[type] ELSE type

resolveGoImportQualifier(req) == req.aliasOf

(* The literals are looked for in the order of a Go map, and the first one *)
(* that is assigned anywhere decides.                                      *)
inferLiteralType(literals, names) == IF literals = {} THEN {""} ELSE {names[l] : l \in literals}

LiteralNames(language) ==
  IF language = "python" THEN [l \in Literals |-> CASE l = "[" -> "list" [] l = "{" -> "dict" [] OTHER -> "str"]
  ELSE [l \in Literals |-> CASE l = "[" -> "Array" [] l = "{" -> "Object" [] OTHER -> "String"]

inferReceiverType(req) ==
  IF req.declared # "" \/ req.language \notin {"python", "javascript", "typescript"}
  THEN {req.declared}
  ELSE inferLiteralType(req.literals, LiteralNames(req.language))

(* The members of what the qualifier names, or else of the type inferred   *)
(* for it.                                                                 *)
standardLibraryMemberSuggestions(req) ==
  LET catalog == completionCatalogForLanguage(req.language)
      qualifier == IF req.language = "go" THEN resolveGoImportQualifier(req) ELSE req.qualifier
  IN IF catalog.members[qualifier] # <<>>
     THEN {catalog.members[qualifier]}
     ELSE {IF type = "" THEN <<>> ELSE catalog.members[resolveCatalogType(catalog.types, type)]
             : type \in inferReceiverType(req)}

-----------------------------------------------------------------------------
(* The answer                                                              *)

suggestionMatches(item, query) == item.label \in query.labels \/ item.source \in query.sources

filterCompletionSuggestions(items, query) ==
  Only(items, {n \in DOMAIN items : suggestionMatches(items[n], query)})

(* The first of the suggestions of a source whose labels differ in case at *)
(* most is kept.                                                           *)
SameKey(a, b) == a.source = b.source /\ ToLower(a.label) = ToLower(b.label)

dedupeCompletionSuggestions(items) ==
  Only(items, {n \in DOMAIN items : \A m \in 1 .. n - 1 : ~SameKey(items[m], items[n])})

Precedes(a, b) == a.rank < b.rank \/ (a.rank = b.rank /\ a.label < b.label)

(* A stable sort by rank and label, case included, then the first of it.   *)
Sorted(items) ==
  LET Before(i, j) == Precedes(items[i], items[j]) \/ (~Precedes(items[j], items[i]) /\ i < j)
      At(k) == CHOOSE i \in DOMAIN items : Cardinality({j \in DOMAIN items : Before(j, i)}) = k - 1
  IN [k \in DOMAIN items |-> items[At(k)]]

FirstOf(items, limit) == SubSeq(items, 1, IF Len(items) > limit THEN limit ELSE Len(items))

(* Variant: the list is cut before it is sorted.                           *)
limitThenSort(items, limit) == Sorted(FirstOf(items, limit))

limitSuggestions(items, limit) == FirstOf(Sorted(items), limit)

EffectiveLimit(limit) == IF limit = 0 \/ limit > 50 THEN 24 ELSE limit

Collected(req) ==
  IF req.member THEN standardLibraryMemberSuggestions(req)
  ELSE {localSymbolSuggestions(req.language, req.declarations) \o questionPatternSuggestions(req.tags)
          \o starterSuggestions \o completionCatalogForLanguage(req.language).globals}

(* The answers a request can get.                                          *)
SuggestCompletions(req) ==
  {limitSuggestions(dedupeCompletionSuggestions(filterCompletionSuggestions(items, req.query)),
                    EffectiveLimit(req.limit)) : items \in Collected(req)}

-----------------------------------------------------------------------------
NothingTyped == [language |-> "none"]

InitCompletion == typed = NothingTyped /\ shown = <<>>

Complete ==
  /\ typed = NothingTyped
  /\ \E req \in CompletionRequest :
       \E answer \in SuggestCompletions(req) : typed' = req /\ shown' = <<answer>>

CompleteAgain ==
  /\ Len(shown) = 1
  /\ \E answer \in SuggestCompletions(typed) : shown' = Append(shown, answer)
  /\ UNCHANGED typed

NextCompletion == Complete \/ CompleteAgain

CompletionSpec == InitCompletion /\ [][NextCompletion]_completionVars

-----------------------------------------------------------------------------
(* Three things are left out of an answer, and nothing else: what does not *)
(* match, what an earlier match of its source names already, up to case    *)
(* (of a type Node and a variable node the first found stays, however much *)
(* better the other would rank), and what ranks no better than all that    *)
(* fill the list.  The rest is shown once, in order of rank and label.     *)
(* (completion.go:130 filter, dedupe and limit, one after the other)       *)
ShownAreBest ==
  \A k \in DOMAIN shown :
    \E items \in Collected(typed) :
      LET answer == shown[k]
          eligible == {n \in DOMAIN items :
                         /\ suggestionMatches(items[n], typed.query)
                         /\ \A m \in 1 .. n - 1 : suggestionMatches(items[m], typed.query)
                                                => ~SameKey(items[m], items[n])}
          isShown(n) == \E m \in DOMAIN answer : answer[m] = items[n]
      IN /\ \A m \in DOMAIN answer : \E n \in eligible : answer[m] = items[n]
         /\ \A m, n \in DOMAIN answer : m < n => ~SameKey(answer[m], answer[n]) /\ ~Precedes(answer[n], answer[m])
         /\ \A n \in eligible : isShown(n) \/ (/\ Len(answer) = EffectiveLimit(typed.limit)
                                               /\ \A m \in DOMAIN answer : ~Precedes(items[n], answer[m]))

(* README.md:51 calls the completions deterministic: a request made again  *)
(* gets the same answer.  (completion.go:374 inferLiteralType)             *)
SameRequestSameAnswer == Len(shown) = 2 => shown[1] = shown[2]
=============================================================================
