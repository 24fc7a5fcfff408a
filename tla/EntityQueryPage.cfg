SPECIFICATION Spec
CONSTANTS
  Entity = {e1, e2}
  Doc <- MCDoc
  Query <- MCQuery
  MaxRows = 3
  MaxWrites = 4
INVARIANTS TypeOK Truthful AnswersSnapshot CountsOnce
CHECK_DEADLOCK FALSE
SYMMETRY MCSymmetry
