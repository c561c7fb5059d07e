SPECIFICATION CompletionSpec
CONSTANTS
  Labels = {1, 2, 3, 4, 5, 6, 7}
  ToLower <- MCToLower
  Names = {2, 4, 7}
  Qualifiers = {"x", "fmt"}
  Types = {"list", "dict", "str", "Array", "ArrayInstance", "Object", "String"}
  Catalog <- MCCatalog
  MaxDeclared = 1
  AskedLimits = {0, 2}
INVARIANT SameRequestSameAnswer
CHECK_DEADLOCK FALSE
