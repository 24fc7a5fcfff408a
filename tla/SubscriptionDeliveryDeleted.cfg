\* A create, a delivery, and a delete while it is accounted for.
CONSTANTS
  c1 = c1
  c2 = c2
  c3 = c3
  w1 = w1
  w2 = w2
  Client = {c1, c2}
  Worker = {w1}
  MaxPosts = 1
  MaxRows = 2
  MaxFailures = 0
SPECIFICATION Spec
INVARIANT DeletedStaysDeleted
