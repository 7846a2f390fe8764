\* Texts of up to two members, twice nested.
CONSTANTS
  Calls <- AllCalls
  TokensNum = 8
  IntMax = 7
  DblMax = 999999
SPECIFICATION Spec
INVARIANTS
  FieldsFound
  FieldsTold
  VerdictTold
  ResourceFreed
\* A call returns once.
CHECK_DEADLOCK FALSE
