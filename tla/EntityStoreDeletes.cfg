\* Two overlapping creates, then a delete.
CONSTANTS
  r1 = r1
  r2 = r2
  r3 = r3
  Request = {r1, r2, r3}
  Op <- MCCreateDelete
  Replicated = FALSE
  MaxFailures = 0
SPECIFICATION Spec
INVARIANT DeletedIsGone
