SPECIFICATION Spec
CONSTANTS
  Entity = {e1, e2}
  Doc <- MCDoc
  Query <- MCQuery
  MaxRows = 3
  MaxWrites = 4
INVARIANT FullPage
CHECK_DEADLOCK FALSE
