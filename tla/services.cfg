SPECIFICATION Spec
CONSTANTS
  Emails = {e1, e2}
  RootEmail = e1
  Calls = {c1, c2, c3}
  MaxPairs = 3
  Writers = {c1, c2, c3}
  MaxCompletions = 3
  Memories = {m1, m2}
  Reviewable = {m1}
  Texts = {x1, x2}
  MemoryCalls = {c1, c2, c3}
  ListLimit = 1
  PromptLimit = 1
  MaxWrites = 5
  MaxPack = 2
  References = {r1}
  EditedPacks = {1}
  SkillRequests = {c1, c2, c3}
  Providers = {p1, p2}
  DefaultProvider = p1
  EnvVars = {v1, v2}
  DefaultVar = v1
  SetVars = {v1}
  ApiKeys = {k1, k2}
  TaskTypes = {t1}
  Saves = {c1, c2, c3}
  Tokens = {10, 70}
  Budgets = {0, 100, 170}
  EngineBudget = 80
  Limits = {0, 1, 2}
  MaxListed = 2
  MaxSources = 1
  Labels = {1, 2, 3, 4, 5, 6, 7}
  ToLower <- MCToLower
  Names = {2, 4, 7}
  Qualifiers = {"x", "fmt"}
  Types = {"list", "dict", "str", "Array", "ArrayInstance", "Object", "String"}
  Catalog <- MCCatalog
  MaxDeclared = 2
  AskedLimits = {0, 2}
  Fields = {"f"}
  Words = {"w"}
  Expectations <- MCExpectations
  EvalRuns = {n1, n2}
  MaxVersions = 2
SYMMETRY Symmetry
INVARIANTS
  RefreshSpendsItsToken
  RunningHasAWriter
  AnnouncedHasContent
  ProfileMatchesUnlessCut
  SyncsNeverDeadlock
  PackAndReferencesAgree
  TaskGetsTheKeyAskedFor
  MemoryNeverDisplacesRules
  SelectionIsMaximal
  ShownAreBest
  VerdictMatchesTrace
PROPERTIES
  CompletedOnlyLostToOverlap
  PromptsTakeWhatStandsApproved
  OnlyOlderScanForgets
CHECK_DEADLOCK FALSE
